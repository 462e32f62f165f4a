---------------------------- MODULE EffectProofs ----------------------------
(***************************************************************************)
(* Theorems about the handler stack, for any threads, operations, rules,   *)
(* stacks and bounds.  Types are correct in every stack; what else a stack *)
(* promises depends on the order of its handlers, and each theorem names   *)
(* the order that it needs (EffectStack.tla, last part).                   *)
(*                                                                         *)
(* The run's invariants speak of calls that have ended, of what was spent  *)
(* and of the log.  What makes them inductive is where a call may still    *)
(* be: a refused call never gets below policy (GateInv), one whose answer  *)
(* is remembered never below the cache, and on its way through retry a     *)
(* call has been performed as often as its attempts say (PaidInv); nobody  *)
(* has written to the log for a call that is still below audit (AuditInv), *)
(* and an entry is about to follow the tail its thread read unless another *)
(* thread was in the same unguarded lines (LogInv).                        *)
(*                                                                         *)
(* A thread's place in the stack changes in three ways only: it sinks to a *)
(* candidate below, rises to a clause above, or stays.  One lemma per      *)
(* action (BottomIs ... AuditSinkIs, StartIs, ReturnIs) says which, and    *)
(* the proofs of the invariants go by these three and by the clauses that  *)
(* the invariant is about.                                                 *)
(***************************************************************************)
EXTENDS EffectStack, FiniteSetTheorems, SequenceTheorems, TLAPS

-----------------------------------------------------------------------------
(* What holds of every stack: types, and where the threads are.            *)
Keys == Ops \X Args \X Links
Frames(times) == [phase : Phases, call : Nat, at : Nat, attempt : Nat, link : Links,
                  op : Ops \cup {"none"}, lifted : Links, key : {<<>>} \cup Keys, prev : Nat,
                  time : times, out : Outcomes]
IsFrame(f) == f \in Frames({f.time})
CallRecs == [op : Ops, args : Args, link : Links, names : SUBSET Nat, first : Nat, own : Seq(MaskSets),
             before : SUBSET Nat, performed : Nat, granted : Nat, approved : BOOLEAN,
             end : {"open"} \cup Outcomes]
EntryRecs == [call : Nat, op : Ops \cup {"none"}, link : Links, prev : Nat, verdict : {"ok", "error"}]

TypeInv ==
    /\ stack \in Stacks
    /\ masks \in [Threads -> Seq(MaskSets)] /\ \A t \in Threads : Len(masks[t]) <= MaxMasks
    /\ DOMAIN frame = Threads
    /\ \A t \in Threads : IsFrame(frame[t]) /\ (frame[t].phase = "idle" => frame[t].call = 0)
    /\ calls \in Seq(CallRecs) /\ Len(calls) <= MaxCalls

(* What the handlers keep.                                                 *)
SharedInv ==
    /\ now \in Nat
    /\ entries \in Seq(EntryRecs) /\ currentOp \in Ops \cup {"none"} /\ archive \in Seq(Nat)
    /\ \A i \in DOMAIN entries : entries[i].call \in DOMAIN calls /\ entries[i].prev < i
    /\ \A i \in DOMAIN archive : archive[i] \in DOMAIN calls
    /\ DOMAIN cached \subseteq Keys
    /\ \A k \in DOMAIN cached : cached[k] \in Outcomes /\ ~Raised(cached[k])
    /\ bucket.tokens \in 0 .. Capacity * TokenCost /\ bucket.last \in {NoRead} \cup Nat
    /\ contended \subseteq DOMAIN calls

Active(t) == frame[t].phase # "idle"
Passes(c, h) == \E i \in calls[c].names : stack[i] = h

(* The thread has not got beyond handler h; it is inside h's clause.       *)
Before(t, h) == \A i \in Current(t).names : stack[i] = h => frame[t].at <= i
Inside(t, h) ==
    \E i \in Current(t).names :
        stack[i] = h /\ (frame[t].at > i \/ (frame[t].at = i /\ frame[t].phase # "down"))

(* A thread is at a handler that its call goes through, or past the last.  *)
Placed(t) ==
    Active(t) =>
        /\ frame[t].call \in DOMAIN calls /\ Current(t).end = "open"
        /\ frame[t].phase = "down" => frame[t].at \in Current(t).names \cup {Len(stack) + 1}
        /\ frame[t].phase = "up" /\ frame[t].at # 0 =>
              frame[t].at \in Current(t).names /\ stack[frame[t].at] \in {"audit", "cache", "retry"}
        /\ frame[t].phase \notin {"down", "up"} => frame[t].at \in Current(t).names
        /\ frame[t].phase \in {"audit-op", "audit-append", "audit-sink"} => stack[frame[t].at] = "audit"
        /\ frame[t].phase \in {"bucket", "paying"} => stack[frame[t].at] = "rate-limit"
        /\ frame[t].phase = "backoff" => stack[frame[t].at] = "retry" /\ frame[t].out = "transient"
        /\ frame[t].phase = "bucket" => frame[t].time \in Nat
        /\ frame[t].phase = "audit-append" => frame[t].prev <= Len(entries)
        /\ Inside(t, "cache") => frame[t].key \in Keys

Apart == \A t, u \in Threads : t # u /\ Active(t) /\ Active(u) => frame[t].call # frame[u].call

CallOK(c) ==
    /\ calls[c].names \subseteq DOMAIN stack /\ calls[c].names # {}
    /\ \A h \in Handlers : Through(c, h) <=> Passes(c, h)
    /\ \A d \in calls[c].before : d \in DOMAIN calls /\ calls[d].end # "open"

Base ==
    /\ TypeInv
    /\ SharedInv
    /\ \A t \in Threads : Placed(t)
    /\ Apart
    /\ \A c \in DOMAIN calls : CallOK(c)

Descending(t) == frame[t].phase \in {"down", "audit-op", "bucket", "paying"}
Returning(t) == frame[t].phase \in {"up", "audit-append", "audit-sink"}

-----------------------------------------------------------------------------
(* policy: what is refused stays above it.                                 *)
Refused(c) ==
    Passes(c, "policy") /\ ~calls[c].approved /\ Evaluate(calls[c].op, calls[c].args) # "allow"
Served == {"result", "mock", "transient", "fatal"}

GateCall(c) == Refused(c) => calls[c].performed = 0 /\ calls[c].granted = 0 /\ calls[c].end \notin Served
GateFrame(t) ==
    Active(t) /\ Refused(frame[t].call) =>
        Before(t, "policy") /\ (Returning(t) => frame[t].out \notin Served)

GateInv == /\ \A c \in DOMAIN calls : GateCall(c)
           /\ \A t \in Threads : GateFrame(t)

-----------------------------------------------------------------------------
(* audit: the commit of a call, before and after audit has lifted it.      *)
Links1(t) ==
    Active(t) =>
        /\ Inside(t, "audit") => frame[t].lifted = Current(t).link /\ frame[t].link = Direct
        /\ /\ ~Inside(t, "audit")
           /\ Descending(t) \/ frame[t].phase = "backoff" \/ ~Passes(frame[t].call, "audit")
           => frame[t].link = Current(t).link

LinkInv == \A t \in Threads : Links1(t)

(* Two threads in the unguarded lines know of each other; one that met     *)
(* nobody reads back what it wrote.                                        *)
Races == \A t, u \in InAudit : t # u => frame[t].call \in contended /\ frame[u].call \in contended

Alone(t) ==
    Active(t) /\ frame[t].call \notin contended /\ Inside(t, "audit") =>
        /\ IF frame[t].phase = "audit-op" THEN currentOp = Current(t).op
                                          ELSE frame[t].op = Current(t).op
        /\ frame[t].phase = "audit-append" => frame[t].prev = Len(entries)

LogInv == /\ LinkInv
          /\ Races
          /\ \A t \in Threads : Alone(t)
          /\ LogFaithfulUnlessRaced

(* What is written of a call that ends, or is about to end, with o.        *)
Written(c, o) ==
    \E i \in DOMAIN entries :
        /\ EntriesOf(c) = {i}
        /\ o = "sink" \/ (entries[i].verdict = "error") = Raised(o)
Sent(c, o) ==
    HasSink => IF o = "sink" THEN Archived(c) = {} ELSE \E j \in DOMAIN archive : Archived(c) = {j}

Writes(t) ==
    Active(t) =>
        /\ frame[t].out = "sink" => frame[t].phase = "up" /\ frame[t].at = 0
        /\ Passes(frame[t].call, "audit") =>
             IF frame[t].phase = "up" /\ frame[t].at = 0
             THEN Written(frame[t].call, frame[t].out) /\ Sent(frame[t].call, frame[t].out)
             ELSE /\ Archived(frame[t].call) = {}
                  /\ IF frame[t].phase = "audit-sink" THEN Written(frame[t].call, frame[t].out)
                                                      ELSE EntriesOf(frame[t].call) = {}

AuditCall(c) ==
    IF Passes(c, "audit")
    THEN calls[c].end # "open" => Written(c, calls[c].end) /\ Sent(c, calls[c].end)
    ELSE EntriesOf(c) = {}

AuditInv == /\ \A t \in Threads : Writes(t)
            /\ \A c \in DOMAIN calls : AuditCall(c)

-----------------------------------------------------------------------------
(* retry and rate-limit: what a call has performed and been granted.       *)
AtVendor(t) == frame[t].phase = "down" /\ frame[t].at \in DOMAIN stack /\ stack[frame[t].at] = "raw"

Paid(t) ==
    Active(t) /\ Passes(frame[t].call, "rate-limit") /\ Passes(frame[t].call, "raw") =>
        Current(t).granted = Current(t).performed + (IF AtVendor(t) THEN 1 ELSE 0)

Tries(t) ==
    Active(t) =>
        /\ frame[t].attempt < MaxAttempts
        /\ Passes(frame[t].call, "retry") =>
             IF Inside(t, "retry")
             THEN /\ Descending(t) => Current(t).performed = frame[t].attempt
                  /\ frame[t].phase = "backoff" =>
                       Current(t).performed = frame[t].attempt + 1 /\ frame[t].attempt + 1 < MaxAttempts
                  /\ Returning(t) => /\ Current(t).performed <= frame[t].attempt + 1
                                     /\ frame[t].out = "transient" =>
                                          Current(t).performed = frame[t].attempt + 1
             ELSE /\ Descending(t) => Current(t).performed = 0
                  /\ Returning(t) => /\ Current(t).performed <= MaxAttempts
                                     /\ frame[t].out = "transient" => Current(t).performed = MaxAttempts

(* The key of a call, by the handlers it goes through.                     *)
KeyIs(c) == <<calls[c].op, calls[c].args,
              IF Passes(c, "audit") /\ AuditedFirst THEN Direct ELSE calls[c].link>>
Known(c) == KeyIs(c) \in DOMAIN cached
Remembered(c) ==
    \E d \in calls[c].before : /\ Passes(c, "cache") /\ Passes(d, "cache")
                               /\ KeyIs(d) = KeyIs(c) /\ calls[d].end = "result"

Recalls(t) ==
    Active(t) /\ Passes(frame[t].call, "cache") =>
        /\ Inside(t, "cache") => frame[t].key = KeyIs(frame[t].call)
        /\ Returning(t) /\ frame[t].out = "result" /\ ~Inside(t, "cache") => Known(frame[t].call)
        /\ Remembered(frame[t].call) => Before(t, "cache")

PaidCall(c) ==
    /\ Remembered(c) => calls[c].performed = 0 /\ calls[c].granted = 0
    /\ calls[c].end # "open" =>
         /\ Passes(c, "rate-limit") /\ Passes(c, "raw") => calls[c].granted = calls[c].performed
         /\ Passes(c, "retry") => calls[c].performed <= MaxAttempts
         /\ Passes(c, "retry") /\ calls[c].end = "transient" => calls[c].performed = MaxAttempts
         /\ Passes(c, "cache") /\ calls[c].end = "result" => Known(c)

PaidInv == /\ LinkInv
           /\ \A t \in Threads : Paid(t) /\ Tries(t) /\ Recalls(t)
           /\ \A c \in DOMAIN calls : PaidCall(c)

-----------------------------------------------------------------------------
(* Every nonempty set of numbers has a least one, and one that is bounded  *)
(* has a greatest.                                                         *)
LEMMA LeastNat ==
    ASSUME NEW T, T \subseteq Nat, T # {}
    PROVE  \E n \in T : \A m \in T : n <= m
<1> DEFINE F == {0 .. k : k \in T}
<1>1. F \subseteq FiniteSubsetsOf(Nat) /\ F # {}
  <2>1. \A k \in T : IsFiniteSet(0 .. k) /\ 0 .. k \in SUBSET Nat
    BY FS_Interval
  <2> QED BY <2>1 DEF FiniteSubsetsOf
<1>2. PICK U \in F : \A V \in F : ~ (<<V, U>> \in StrictSubsetOrdering(Nat))
  BY <1>1, FS_StrictSubsetOrderingWellFounded, WFMin
<1>3. PICK n \in T : U = 0 .. n
  OBVIOUS
<1>4. ASSUME NEW m \in T, ~ (n <= m) PROVE FALSE
  <2>1. 0 .. m \subseteq 0 .. n /\ 0 .. m # 0 .. n
    BY <1>4
  <2>2. <<0 .. m, 0 .. n>> \in StrictSubsetOrdering(Nat)
    BY <2>1 DEF StrictSubsetOrdering
  <2> QED BY <2>2, <1>2, <1>3
<1> QED BY <1>4

LEMMA MinIs ==
    ASSUME NEW T, T \subseteq Nat, T # {}
    PROVE  Min(T) \in T /\ \A m \in T : Min(T) <= m
BY LeastNat DEF Min

LEMMA MaxIs ==
    ASSUME NEW n \in Nat, NEW T \in SUBSET (0 .. n), T # {}
    PROVE  Max(T) \in T /\ \A k \in T : k <= Max(T)
<1> DEFINE D == {n - k : k \in T}
<1>1. \A k \in T : k \in Nat /\ k <= n /\ n - k \in Nat /\ n - k \in D
  OBVIOUS
<1>2. D \subseteq Nat /\ D # {}
  BY <1>1
<1>3. \E d \in D : \A e \in D : d <= e
  <2> HIDE DEF D
  <2> QED BY <1>2, LeastNat
<1>4. PICK m \in T : \A e \in D : n - m <= e
  BY <1>3
<1>5. ASSUME NEW k \in T PROVE m >= k
  <2>1. n - m <= n - k
    BY <1>1, <1>4
  <2> QED BY <2>1, <1>1
<1>6. Max(T) \in T /\ \A k \in T : Max(T) >= k
  BY <1>5 DEF Max
<1> QED BY <1>1, <1>6

-----------------------------------------------------------------------------
(* Two frames agree but for some fields.                                   *)
Alike(f, g, S) ==
    /\ "phase" \in S \/ g.phase = f.phase
    /\ "call" \in S \/ g.call = f.call
    /\ "at" \in S \/ g.at = f.at
    /\ "attempt" \in S \/ g.attempt = f.attempt
    /\ "link" \in S \/ g.link = f.link
    /\ "op" \in S \/ g.op = f.op
    /\ "lifted" \in S \/ g.lifted = f.lifted
    /\ "key" \in S \/ g.key = f.key
    /\ "prev" \in S \/ g.prev = f.prev
    /\ "time" \in S \/ g.time = f.time
    /\ "out" \in S \/ g.out = f.out

(* One field of a frame changes.                                           *)
LEMMA PhaseChange ==
    ASSUME NEW f, IsFrame(f), NEW p \in Phases
    PROVE  LET g == [f EXCEPT !["phase"] = p] IN IsFrame(g) /\ g.phase = p /\ Alike(f, g, {"phase"})
BY DEF IsFrame, Frames, Alike

LEMMA AtChange ==
    ASSUME NEW f, IsFrame(f), NEW a \in Nat
    PROVE  LET g == [f EXCEPT !["at"] = a] IN IsFrame(g) /\ g.at = a /\ Alike(f, g, {"at"})
BY DEF IsFrame, Frames, Alike

LEMMA TimeChange ==
    ASSUME NEW f, IsFrame(f), NEW a
    PROVE  LET g == [f EXCEPT !["time"] = a] IN IsFrame(g) /\ g.time = a /\ Alike(f, g, {"time"})
BY DEF IsFrame, Frames, Alike

LEMMA OutChange ==
    ASSUME NEW f, IsFrame(f), NEW o \in Outcomes
    PROVE  LET g == [f EXCEPT !["out"] = o] IN IsFrame(g) /\ g.out = o /\ Alike(f, g, {"out"})
BY DEF IsFrame, Frames, Alike

LEMMA AttemptChange ==
    ASSUME NEW f, IsFrame(f), NEW n \in Nat
    PROVE  LET g == [f EXCEPT !["attempt"] = n] IN IsFrame(g) /\ g.attempt = n /\ Alike(f, g, {"attempt"})
BY DEF IsFrame, Frames, Alike

LEMMA LinkChange ==
    ASSUME NEW f, IsFrame(f), NEW l \in Links
    PROVE  /\ LET g == [f EXCEPT !["link"] = l] IN IsFrame(g) /\ g.link = l /\ Alike(f, g, {"link"})
           /\ LET g == [f EXCEPT !["lifted"] = l] IN IsFrame(g) /\ g.lifted = l /\ Alike(f, g, {"lifted"})
BY DEF IsFrame, Frames, Alike

LEMMA KeyChange ==
    ASSUME NEW f, IsFrame(f), NEW k \in Keys
    PROVE  LET g == [f EXCEPT !["key"] = k] IN IsFrame(g) /\ g.key = k /\ Alike(f, g, {"key"})
BY DEF IsFrame, Frames, Alike

LEMMA OpChange ==
    ASSUME NEW f, IsFrame(f), NEW o \in Ops \cup {"none"}
    PROVE  LET g == [f EXCEPT !["op"] = o] IN IsFrame(g) /\ g.op = o /\ Alike(f, g, {"op"})
BY DEF IsFrame, Frames, Alike

LEMMA PrevChange ==
    ASSUME NEW f, IsFrame(f), NEW n \in Nat
    PROVE  LET g == [f EXCEPT !["prev"] = n] IN IsFrame(g) /\ g.prev = n /\ Alike(f, g, {"prev"})
BY DEF IsFrame, Frames, Alike

-----------------------------------------------------------------------------
(* Where a call goes on.                                                   *)
LEMMA StackIs ==
    ASSUME Base
    PROVE  /\ stack \in Seq(Handlers) /\ IsInjective(stack)
           /\ Len(stack) \in Nat /\ DOMAIN stack = 1 .. Len(stack)
           /\ Len(calls) \in Nat /\ DOMAIN calls = 1 .. Len(calls)
           /\ \A c \in DOMAIN calls : calls[c] \in CallRecs /\ calls[c].names \subseteq 1 .. Len(stack)
           /\ \A t \in Threads : IsFrame(frame[t]) /\ frame[t].at \in Nat
<1>1. stack \in Seq(Handlers) /\ IsInjective(stack) /\ calls \in Seq(CallRecs)
  BY EffectConstantsOK DEF Base, TypeInv
<1>2. \A t \in Threads : IsFrame(frame[t])
  BY DEF Base, TypeInv
<1>3. \A t \in Threads : frame[t].at \in Nat
  BY <1>2 DEF IsFrame, Frames
<1>4. \A c \in DOMAIN calls : calls[c].names \subseteq DOMAIN stack
  BY DEF Base, CallOK
<1> QED BY <1>1, <1>2, <1>3, <1>4

GoesBelow(t, a) ==
    /\ a \in Nat /\ a \in Current(t).names \cup {Len(stack) + 1} /\ a > frame[t].at
    /\ \A i \in Current(t).names : i > frame[t].at => a <= i

GoesAbove(t, a) ==
    /\ a \in Nat /\ a < frame[t].at
    /\ a # 0 => a \in Current(t).names /\ stack[a] \in {"audit", "cache", "retry"}
    /\ \A i \in Current(t).names : i < frame[t].at /\ stack[i] \in {"audit", "cache", "retry"} => i <= a

LEMMA DeeperIs ==
    ASSUME Base, NEW t \in Threads, Placed(t), Active(t), frame[t].at <= Len(stack), NEW f, IsFrame(f)
    PROVE  LET g == Deeper(t, f)
           IN  /\ IsFrame(g) /\ g.phase = "down" /\ GoesBelow(t, g.at)
               /\ Alike(f, g, {"phase", "time", "at"})
<1> DEFINE N == Current(t).names
           a == IF Below(t) = {} THEN Len(stack) + 1 ELSE Min(Below(t))
           g1 == [f EXCEPT !["phase"] = "down"]
           g2 == [g1 EXCEPT !["time"] = 0]
           g3 == [g2 EXCEPT !["at"] = a]
<1>1. Len(stack) \in Nat /\ N \subseteq 1 .. Len(stack) /\ frame[t].at \in Nat
  BY StackIs DEF Placed, Current
<1>2. Below(t) = {i \in N : i > frame[t].at}
  BY DEF Below
<1>3. GoesBelow(t, a)
  <2>1. CASE Below(t) = {}
    BY <1>1, <1>2, <2>1 DEF GoesBelow
  <2>2. CASE Below(t) # {}
    <3>1. Below(t) \subseteq Nat
      BY <1>1, <1>2
    <3>2. Min(Below(t)) \in Below(t) /\ \A m \in Below(t) : Min(Below(t)) <= m
      BY <2>2, <3>1, MinIs
    <3>3. a = Min(Below(t))
      BY <2>2
    <3> HIDE DEF a
    <3>4. a \in N /\ a > frame[t].at
      BY <1>2, <3>2, <3>3
    <3>5. \A m \in Below(t) : a <= m
      BY <3>2, <3>3
    <3> QED BY <1>1, <1>2, <3>4, <3>5 DEF GoesBelow
  <2> QED BY <2>1, <2>2
<1>4. a \in Nat
  BY <1>3 DEF GoesBelow
<1>5. Deeper(t, f) = g3
  <2> HIDE DEF a
  <2>1. [f EXCEPT !.phase = "down", !.time = 0, !.at = a] = g3
    BY Zenon
  <2> QED BY <2>1 DEF Deeper, a
<1> HIDE DEF a
<1>6. IsFrame(g1) /\ g1.phase = "down" /\ Alike(f, g1, {"phase"})
  <2>1. "down" \in Phases
    BY DEF Phases
  <2> QED BY <2>1, PhaseChange
<1> HIDE DEF g1
<1>7. IsFrame(g2) /\ Alike(g1, g2, {"time"})
  BY <1>6, TimeChange
<1> HIDE DEF g2
<1>8. IsFrame(g3) /\ g3.at = a /\ Alike(g2, g3, {"at"})
  BY <1>4, <1>7, AtChange
<1> HIDE DEF g3
<1>9. g3.phase = "down" /\ Alike(f, g3, {"phase", "time", "at"})
  BY <1>6, <1>7, <1>8 DEF Alike
<1> QED BY <1>3, <1>5, <1>8, <1>9

LEMMA AnswerIs ==
    ASSUME Base, NEW t \in Threads, Placed(t), Active(t), frame[t].at > 0, NEW f, IsFrame(f),
           NEW o \in Outcomes
    PROVE  LET g == Answer(t, f, o)
           IN  /\ IsFrame(g) /\ g.phase = "up" /\ g.out = o /\ GoesAbove(t, g.at)
               /\ Alike(f, g, {"phase", "out", "at"})
<1> DEFINE N == Current(t).names
           a == IF Above(t) = {} THEN 0 ELSE Max(Above(t))
           g1 == [f EXCEPT !["phase"] = "up"]
           g2 == [g1 EXCEPT !["out"] = o]
           g3 == [g2 EXCEPT !["at"] = a]
<1>1. Len(stack) \in Nat /\ N \subseteq 1 .. Len(stack) /\ frame[t].at \in Nat
  BY StackIs DEF Placed, Current
<1>2. Above(t) = {i \in N : i < frame[t].at /\ stack[i] \in {"audit", "cache", "retry"}}
  BY DEF Above
<1>3. GoesAbove(t, a)
  <2>1. CASE Above(t) = {}
    BY <1>1, <1>2, <2>1 DEF GoesAbove
  <2>2. CASE Above(t) # {}
    <3>1. Above(t) \in SUBSET (0 .. Len(stack))
      BY <1>1, <1>2
    <3>2. Max(Above(t)) \in Above(t) /\ \A m \in Above(t) : m <= Max(Above(t))
      BY <1>1, <2>2, <3>1, MaxIs
    <3>3. a = Max(Above(t))
      BY <2>2
    <3> HIDE DEF a
    <3>4. a \in N /\ a < frame[t].at /\ stack[a] \in {"audit", "cache", "retry"}
      BY <1>2, <3>2, <3>3
    <3>5. \A m \in Above(t) : m <= a
      BY <3>2, <3>3
    <3> QED BY <1>1, <1>2, <3>4, <3>5 DEF GoesAbove
  <2> QED BY <2>1, <2>2
<1>4. a \in Nat
  BY <1>3 DEF GoesAbove
<1>5. Answer(t, f, o) = g3
  <2> HIDE DEF a
  <2>1. [f EXCEPT !.phase = "up", !.out = o, !.at = a] = g3
    BY Zenon
  <2> QED BY <2>1 DEF Answer, a
<1> HIDE DEF a
<1>6. IsFrame(g1) /\ g1.phase = "up" /\ Alike(f, g1, {"phase"})
  <2>1. "up" \in Phases
    BY DEF Phases
  <2> QED BY <2>1, PhaseChange
<1> HIDE DEF g1
<1>7. IsFrame(g2) /\ g2.out = o /\ Alike(g1, g2, {"out"})
  BY <1>6, OutChange
<1> HIDE DEF g2
<1>8. IsFrame(g3) /\ g3.at = a /\ Alike(g2, g3, {"at"})
  BY <1>4, <1>7, AtChange
<1> HIDE DEF g3
<1>9. g3.phase = "up" /\ g3.out = o /\ Alike(f, g3, {"phase", "out", "at"})
  BY <1>6, <1>7, <1>8 DEF Alike
<1> QED BY <1>3, <1>5, <1>8, <1>9

-----------------------------------------------------------------------------
(* What every step in the middle of a call leaves alone, and how it moves. *)
Kept(r, s) ==
    /\ s.op = r.op /\ s.args = r.args /\ s.link = r.link /\ s.names = r.names /\ s.first = r.first
    /\ s.own = r.own /\ s.before = r.before /\ s.end = r.end

Within(t) ==
    /\ t \in Threads /\ Placed(t) /\ Active(t)
    /\ stack' = stack /\ masks' = masks
    /\ DOMAIN frame' = Threads /\ \A u \in Threads : u # t => frame'[u] = frame[u]
    /\ IsFrame(frame'[t]) /\ frame'[t].call = frame[t].call /\ frame'[t].phase # "idle"
    /\ calls' \in Seq(CallRecs) /\ Len(calls') = Len(calls) /\ DOMAIN calls' = DOMAIN calls
    /\ \A c \in DOMAIN calls : c # frame[t].call => calls'[c] = calls[c]
    /\ Kept(Current(t), calls'[frame[t].call])

Gains(t, p, g) ==
    /\ calls'[frame[t].call].performed = Current(t).performed + p
    /\ calls'[frame[t].call].granted = Current(t).granted + g

Sinks(t, S) ==
    /\ frame'[t].phase = "down" /\ GoesBelow(t, frame'[t].at)
    /\ Alike(frame[t], frame'[t], {"phase", "time", "at"} \cup S)

Rises(t, o) ==
    /\ frame'[t].phase = "up" /\ frame'[t].out = o /\ GoesAbove(t, frame'[t].at)
    /\ Alike(frame[t], frame'[t], {"phase", "out", "at"})

Stays(t, p, S) == frame'[t].phase = p /\ Alike(frame[t], frame'[t], {"phase"} \cup S)

LEMMA MovesIs ==
    ASSUME Base, NEW t \in Threads, Active(t), NEW g, IsFrame(g), g.call = frame[t].call,
           g.phase # "idle", Moves(t, g), UNCHANGED <<stack, masks, calls>>
    PROVE  Within(t) /\ frame'[t] = g /\ Gains(t, 0, 0) /\ calls'[frame[t].call] = Current(t)
<1>1. DOMAIN frame' = Threads /\ frame'[t] = g /\ \A u \in Threads : u # t => frame'[u] = frame[u]
  BY DEF Moves, Base, TypeInv
<1>2. Placed(t) /\ calls \in Seq(CallRecs)
  BY DEF Base, TypeInv
<1>3. Current(t) \in CallRecs
  BY <1>2, StackIs DEF Placed, Current
<1>4. Gains(t, 0, 0)
  BY <1>3, SMTT(20) DEF Gains, Current, CallRecs
<1> QED BY <1>1, <1>2, <1>4 DEF Within, Kept, Current

LEMMA PerformedChange ==
    ASSUME NEW r \in CallRecs
    PROVE  LET s == [r EXCEPT !["performed"] = r.performed + 1]
           IN  /\ s \in CallRecs /\ Kept(r, s) /\ s.performed = r.performed + 1
               /\ s.granted = r.granted /\ s.approved = r.approved
<1>1. r.performed + 1 \in Nat
  BY DEF CallRecs
<1> DEFINE n == r.performed + 1
<1> HIDE DEF n
<1>2. [r EXCEPT !["performed"] = n] \in CallRecs
  BY <1>1 DEF CallRecs, n
<1> QED BY <1>2 DEF CallRecs, Kept, n

LEMMA GrantedChange ==
    ASSUME NEW r \in CallRecs
    PROVE  LET s == [r EXCEPT !["granted"] = r.granted + 1]
           IN  /\ s \in CallRecs /\ Kept(r, s) /\ s.granted = r.granted + 1
               /\ s.performed = r.performed /\ s.approved = r.approved
<1>1. r.granted + 1 \in Nat
  BY DEF CallRecs
<1> DEFINE n == r.granted + 1
<1> HIDE DEF n
<1>2. [r EXCEPT !["granted"] = n] \in CallRecs
  BY <1>1 DEF CallRecs, n
<1> QED BY <1>2 DEF CallRecs, Kept, n

LEMMA ApprovedChange ==
    ASSUME NEW r \in CallRecs
    PROVE  LET s == [r EXCEPT !["approved"] = TRUE]
           IN  /\ s \in CallRecs /\ Kept(r, s) /\ s.approved = TRUE
               /\ s.performed = r.performed /\ s.granted = r.granted
<1>1. [r EXCEPT !["approved"] = TRUE] \in CallRecs
  BY DEF CallRecs
<1> QED BY <1>1 DEF CallRecs, Kept

(* The same, of a step that changes the record of its call.                *)
LEMMA SpendsIs ==
    ASSUME Base, NEW t \in Threads, Active(t), NEW g, IsFrame(g), g.call = frame[t].call,
           g.phase # "idle", Moves(t, g), UNCHANGED <<stack, masks>>,
           NEW s \in CallRecs, Kept(Current(t), s), calls' = [calls EXCEPT ![frame[t].call] = s]
    PROVE  Within(t) /\ frame'[t] = g /\ calls'[frame[t].call] = s
<1>1. DOMAIN frame' = Threads /\ frame'[t] = g /\ \A u \in Threads : u # t => frame'[u] = frame[u]
  BY DEF Moves, Base, TypeInv
<1>2. Placed(t) /\ calls \in Seq(CallRecs) /\ frame[t].call \in DOMAIN calls
  BY DEF Base, TypeInv, Placed
<1>3. /\ calls' \in Seq(CallRecs) /\ Len(calls') = Len(calls) /\ DOMAIN calls' = DOMAIN calls
      /\ calls'[frame[t].call] = s /\ \A c \in DOMAIN calls : c # frame[t].call => calls'[c] = calls[c]
  BY <1>2
<1> QED BY <1>1, <1>2, <1>3 DEF Within

LEMMA SinksFrom ==
    ASSUME Base, NEW t \in Threads, Active(t), frame[t].at <= Len(stack),
           NEW f, IsFrame(f), NEW S, Alike(frame[t], f, S), "call" \notin S,
           Moves(t, Deeper(t, f)), UNCHANGED <<stack, masks, calls>>
    PROVE  /\ Within(t) /\ Sinks(t, S) /\ Gains(t, 0, 0) /\ calls'[frame[t].call] = Current(t)
           /\ Alike(f, frame'[t], {"phase", "time", "at"})
<1> DEFINE g == Deeper(t, f)
<1>1. /\ IsFrame(g) /\ g.phase = "down" /\ GoesBelow(t, g.at)
      /\ Alike(f, g, {"phase", "time", "at"})
  BY DeeperIs DEF Base
<1> HIDE DEF g
<1>2. Alike(frame[t], g, {"phase", "time", "at"} \cup S)
  BY <1>1 DEF Alike
<1>3. g.call = frame[t].call /\ g.phase # "idle"
  BY <1>1, <1>2 DEF Alike
<1>4. Moves(t, g)
  BY DEF g
<1>5. Within(t) /\ frame'[t] = g /\ Gains(t, 0, 0) /\ calls'[frame[t].call] = Current(t)
  BY <1>1, <1>3, <1>4, MovesIs
<1> QED BY <1>1, <1>2, <1>5 DEF Sinks

LEMMA SinksGranted ==
    ASSUME Base, NEW t \in Threads, Active(t), frame[t].at <= Len(stack),
           Moves(t, Deeper(t, frame[t])), calls' = Granted(t), UNCHANGED <<stack, masks>>
    PROVE  Within(t) /\ Sinks(t, {}) /\ Gains(t, 0, 1)
           /\ calls'[frame[t].call].approved = Current(t).approved
<1> DEFINE g == Deeper(t, frame[t])
           s == [Current(t) EXCEPT !["granted"] = Current(t).granted + 1]
<1>1. /\ IsFrame(g) /\ g.phase = "down" /\ GoesBelow(t, g.at)
      /\ Alike(frame[t], g, {"phase", "time", "at"})
  BY DeeperIs, StackIs DEF Base
<1>2. Current(t) \in CallRecs /\ frame[t].call \in DOMAIN calls
  BY StackIs DEF Base, Placed, Current
<1>3. /\ s \in CallRecs /\ Kept(Current(t), s) /\ s.granted = Current(t).granted + 1
      /\ s.performed = Current(t).performed /\ s.approved = Current(t).approved
  BY <1>2, GrantedChange
<1>4. calls' = [calls EXCEPT ![frame[t].call] = s]
  BY Zenon DEF Granted, Current
<1> HIDE DEF g, s
<1>5. g.call = frame[t].call /\ g.phase # "idle" /\ Moves(t, g)
  BY <1>1 DEF Alike, g
<1>6. Within(t) /\ frame'[t] = g /\ calls'[frame[t].call] = s
  BY <1>1, <1>3, <1>4, <1>5, SpendsIs
<1>7. Gains(t, 0, 1) /\ calls'[frame[t].call].approved = Current(t).approved
  BY <1>2, <1>3, <1>6 DEF Gains, CallRecs
<1>8. Sinks(t, {})
  BY <1>1, <1>6 DEF Sinks, Alike
<1> QED BY <1>6, <1>7, <1>8

LEMMA RisesFrom ==
    ASSUME Base, NEW t \in Threads, Active(t), frame[t].at > 0, NEW o \in Outcomes,
           Moves(t, Answer(t, frame[t], o)), UNCHANGED <<stack, masks, calls>>
    PROVE  Within(t) /\ Rises(t, o) /\ Gains(t, 0, 0) /\ calls'[frame[t].call] = Current(t)
<1> DEFINE g == Answer(t, frame[t], o)
<1>1. /\ IsFrame(g) /\ g.phase = "up" /\ g.out = o /\ GoesAbove(t, g.at)
      /\ Alike(frame[t], g, {"phase", "out", "at"})
  BY AnswerIs, StackIs DEF Base
<1> HIDE DEF g
<1>2. g.call = frame[t].call /\ g.phase # "idle" /\ Moves(t, g)
  BY <1>1 DEF Alike, g
<1>3. Within(t) /\ frame'[t] = g /\ Gains(t, 0, 0) /\ calls'[frame[t].call] = Current(t)
  BY <1>1, <1>2, MovesIs
<1> QED BY <1>1, <1>3 DEF Rises

LEMMA RisesPerformed ==
    ASSUME Base, NEW t \in Threads, Active(t), frame[t].at > 0, NEW o \in Outcomes,
           Moves(t, Answer(t, frame[t], o)), UNCHANGED <<stack, masks>>,
           calls' = [calls EXCEPT ![frame[t].call].performed = @ + 1]
    PROVE  Within(t) /\ Rises(t, o) /\ Gains(t, 1, 0)
           /\ calls'[frame[t].call].approved = Current(t).approved
<1> DEFINE g == Answer(t, frame[t], o)
           s == [Current(t) EXCEPT !["performed"] = Current(t).performed + 1]
<1>1. /\ IsFrame(g) /\ g.phase = "up" /\ g.out = o /\ GoesAbove(t, g.at)
      /\ Alike(frame[t], g, {"phase", "out", "at"})
  BY AnswerIs, StackIs DEF Base
<1>2. Current(t) \in CallRecs /\ frame[t].call \in DOMAIN calls
  BY StackIs DEF Base, Placed, Current
<1>3. /\ s \in CallRecs /\ Kept(Current(t), s) /\ s.performed = Current(t).performed + 1
      /\ s.granted = Current(t).granted /\ s.approved = Current(t).approved
  BY <1>2, PerformedChange
<1>4. calls' = [calls EXCEPT ![frame[t].call] = s]
  BY Zenon DEF Current
<1> HIDE DEF g, s
<1>5. g.call = frame[t].call /\ g.phase # "idle" /\ Moves(t, g)
  BY <1>1 DEF Alike, g
<1>6. Within(t) /\ frame'[t] = g /\ calls'[frame[t].call] = s
  BY <1>1, <1>3, <1>4, <1>5, SpendsIs
<1>7. Gains(t, 1, 0) /\ calls'[frame[t].call].approved = Current(t).approved
  BY <1>2, <1>3, <1>6 DEF Gains, CallRecs
<1> QED BY <1>1, <1>6, <1>7 DEF Rises

-----------------------------------------------------------------------------
(* Every action of a thread in the middle of a call, one by one.           *)
AtHandler(t, h) ==
    /\ Placed(t) /\ Active(t) /\ frame[t].call \in DOMAIN calls
    /\ frame[t].at \in Current(t).names /\ frame[t].at \in DOMAIN stack /\ stack[frame[t].at] = h
    /\ frame[t].at > 0 /\ frame[t].at <= Len(stack)

LEMMA PlacedIs ==
    ASSUME Base, NEW t \in Threads, Active(t)
    PROVE  /\ Placed(t) /\ frame[t].call \in DOMAIN calls /\ Current(t) \in CallRecs
           /\ Current(t).names \subseteq 1 .. Len(stack) /\ frame[t].at \in Nat
           /\ IsFrame(frame[t]) /\ frame[t].out \in Outcomes /\ frame[t].attempt \in Nat
<1>1. frame[t].call \in DOMAIN calls /\ IsFrame(frame[t])
  BY StackIs DEF Base, Placed
<1> QED BY <1>1, StackIs DEF Base, Current, IsFrame, Frames

LEMMA EnteringIs ==
    ASSUME Base, NEW t \in Threads, NEW h, Entering(t, h)
    PROVE  AtHandler(t, h)
<1>1. Active(t)
  BY DEF Entering, Active
<1>2. frame[t].at \in Current(t).names \cup {Len(stack) + 1}
  BY <1>1, PlacedIs DEF Placed, Entering
<1> QED BY <1>1, <1>2, PlacedIs, StackIs DEF AtHandler, Entering

LEMMA LeavingIs ==
    ASSUME Base, NEW t \in Threads, NEW h, Leaving(t, h)
    PROVE  AtHandler(t, h)
<1>1. Active(t)
  BY DEF Leaving, Active
<1>2. frame[t].at \in Current(t).names
  BY <1>1, PlacedIs DEF Placed, Leaving
<1> QED BY <1>1, <1>2, PlacedIs, StackIs DEF AtHandler, Leaving

LEMMA HeldIs ==
    ASSUME Base, NEW t \in Threads, frame[t].phase \notin {"idle", "down", "up"}
    PROVE  /\ frame[t].phase \in {"audit-op", "audit-append", "audit-sink"} => AtHandler(t, "audit")
           /\ frame[t].phase \in {"bucket", "paying"} => AtHandler(t, "rate-limit")
           /\ frame[t].phase = "backoff" => AtHandler(t, "retry")
<1>1. Active(t)
  BY DEF Active
<1>2. frame[t].at \in Current(t).names
  BY <1>1, PlacedIs DEF Placed
<1> QED BY <1>1, <1>2, PlacedIs, StackIs DEF AtHandler, Placed

LEMMA BottomIs ==
    ASSUME Base, NEW t \in Threads, Bottom(t)
    PROVE  Within(t) /\ Rises(t, "unhandled") /\ Gains(t, 0, 0) /\ calls'[frame[t].call] = Current(t)
<1>1. Active(t) /\ "unhandled" \in Outcomes
  BY DEF Bottom, Active, Outcomes
<1>2. frame[t].at > 0
  BY <1>1, PlacedIs, StackIs DEF Bottom
<1>3. Moves(t, Answer(t, frame[t], "unhandled")) /\ UNCHANGED <<stack, masks, calls>>
  BY DEF Bottom
<1> QED BY <1>1, <1>2, <1>3, RisesFrom

LEMMA PolicyIs ==
    ASSUME Base, NEW t \in Threads, Policy(t)
    PROVE  /\ Within(t) /\ AtHandler(t, "policy") /\ frame[t].phase = "down" /\ Gains(t, 0, 0)
           /\ \/ /\ Sinks(t, {})
                 /\ \/ Evaluate(Current(t).op, Current(t).args) = "allow" /\ calls'[frame[t].call] = Current(t)
                    \/ calls'[frame[t].call].approved = TRUE
              \/ /\ calls'[frame[t].call] = Current(t)
                 /\ \E o \in {"denied", "silent", "unapproved"} : Rises(t, o)
<1>1. AtHandler(t, "policy") /\ frame[t].phase = "down"
  BY EnteringIs DEF Policy, Entering
<1>2. Active(t) /\ frame[t].at > 0 /\ frame[t].at <= Len(stack) /\ IsFrame(frame[t])
  BY <1>1, PlacedIs DEF AtHandler
<1>3. /\ {"denied", "silent", "unapproved"} \subseteq Outcomes
      /\ Alike(frame[t], frame[t], {}) /\ UNCHANGED <<stack, masks>>
  BY DEF Outcomes, Alike, Policy
<1>4. CASE Evaluate(Current(t).op, Current(t).args) = "allow" /\ Moves(t, Deeper(t, frame[t])) /\ UNCHANGED calls
  <2>1. Within(t) /\ Sinks(t, {}) /\ Gains(t, 0, 0) /\ calls'[frame[t].call] = Current(t)
    BY <1>2, <1>3, <1>4, SinksFrom
  <2> QED BY <1>1, <1>4, <2>1
<1>5. CASE \E o \in {"denied", "silent", "unapproved"} : Moves(t, Answer(t, frame[t], o)) /\ UNCHANGED calls
  BY <1>1, <1>2, <1>3, <1>5, RisesFrom
<1>6. CASE /\ Moves(t, Deeper(t, frame[t]))
           /\ calls' = [calls EXCEPT ![frame[t].call].approved = TRUE]
  <2> DEFINE g == Deeper(t, frame[t])
             s == [Current(t) EXCEPT !["approved"] = TRUE]
  <2>1. /\ IsFrame(g) /\ g.phase = "down" /\ GoesBelow(t, g.at)
        /\ Alike(frame[t], g, {"phase", "time", "at"})
    BY <1>2, DeeperIs DEF Base
  <2>2. Current(t) \in CallRecs
    BY <1>2, PlacedIs
  <2>3. /\ s \in CallRecs /\ Kept(Current(t), s) /\ s.approved = TRUE
        /\ s.performed = Current(t).performed /\ s.granted = Current(t).granted
    BY <2>2, ApprovedChange
  <2>4. calls' = [calls EXCEPT ![frame[t].call] = s]
    BY <1>6, Zenon DEF Current
  <2> HIDE DEF g, s
  <2>5. g.call = frame[t].call /\ g.phase # "idle" /\ Moves(t, g)
    BY <1>6, <2>1 DEF Alike, g
  <2>6. Within(t) /\ frame'[t] = g /\ calls'[frame[t].call] = s
    BY <1>2, <1>3, <2>1, <2>3, <2>4, <2>5, SpendsIs
  <2>7. Gains(t, 0, 0)
    BY <2>2, <2>3, <2>6 DEF Gains, CallRecs
  <2> QED BY <1>1, <2>1, <2>3, <2>6, <2>7 DEF Sinks, Alike
<1> QED BY <1>4, <1>5, <1>6 DEF Policy

LEMMA DryRunIs ==
    ASSUME Base, NEW t \in Threads, DryRun(t)
    PROVE  /\ Within(t) /\ AtHandler(t, "dry-run") /\ frame[t].phase = "down" /\ Gains(t, 0, 0)
           /\ calls'[frame[t].call] = Current(t)
           /\ Rises(t, "mock") \/ Sinks(t, {})
<1>1. AtHandler(t, "dry-run") /\ frame[t].phase = "down"
  BY EnteringIs DEF DryRun, Entering
<1>2. Active(t) /\ frame[t].at > 0 /\ frame[t].at <= Len(stack) /\ IsFrame(frame[t])
  BY <1>1, PlacedIs DEF AtHandler
<1>3. "mock" \in Outcomes /\ Alike(frame[t], frame[t], {}) /\ UNCHANGED <<stack, masks, calls>>
  BY DEF Outcomes, Alike, DryRun
<1>4. \/ Moves(t, Answer(t, frame[t], "mock"))
      \/ Moves(t, Deeper(t, frame[t]))
  BY DEF DryRun
<1>5. CASE Moves(t, Answer(t, frame[t], "mock"))
  BY <1>1, <1>2, <1>3, <1>5, RisesFrom
<1>6. CASE Moves(t, Deeper(t, frame[t]))
  BY <1>1, <1>2, <1>3, <1>6, SinksFrom
<1> QED BY <1>4, <1>5, <1>6

LEMMA CacheLookupIs ==
    ASSUME Base, NEW t \in Threads, CacheLookup(t)
    PROVE  /\ Within(t) /\ AtHandler(t, "cache") /\ frame[t].phase = "down" /\ Gains(t, 0, 0)
           /\ calls'[frame[t].call] = Current(t) /\ CacheKey(t) \in Keys
           /\ \/ CacheKey(t) \in DOMAIN cached /\ Rises(t, cached[CacheKey(t)])
              \/ CacheKey(t) \notin DOMAIN cached /\ Sinks(t, {"key"}) /\ frame'[t].key = CacheKey(t)
<1>1. AtHandler(t, "cache") /\ frame[t].phase = "down"
  BY EnteringIs DEF CacheLookup, Entering
<1>2. Active(t) /\ frame[t].at > 0 /\ frame[t].at <= Len(stack) /\ IsFrame(frame[t])
  BY <1>1, PlacedIs DEF AtHandler
<1>3. UNCHANGED <<stack, masks, calls>>
  BY DEF CacheLookup
<1>4. CacheKey(t) \in Keys
  <2>1. Current(t).op \in Ops /\ Current(t).args \in Args
    BY <1>2, PlacedIs DEF CallRecs
  <2>2. frame[t].link \in Links
    BY <1>2 DEF IsFrame, Frames
  <2> QED BY <2>1, <2>2 DEF CacheKey, Keys
<1> DEFINE key == CacheKey(t)
           f == [frame[t] EXCEPT !["key"] = key]
<1>5. CASE key \in DOMAIN cached
  <2>1. cached[key] \in Outcomes
    BY <1>5 DEF Base, SharedInv
  <2>2. Moves(t, Answer(t, frame[t], cached[key]))
    BY <1>5 DEF CacheLookup
  <2> QED BY <1>1, <1>2, <1>3, <1>4, <1>5, <2>1, <2>2, RisesFrom
<1>6. CASE key \notin DOMAIN cached
  <2>1. IsFrame(f) /\ f.key = key /\ Alike(frame[t], f, {"key"})
    BY <1>2, <1>4, KeyChange
  <2>2. Moves(t, Deeper(t, f))
    <3>1. [frame[t] EXCEPT !.key = key] = f
      BY Zenon
    <3> QED BY <1>6, <3>1 DEF CacheLookup
  <2> HIDE DEF f, key
  <2>3. /\ Within(t) /\ Sinks(t, {"key"}) /\ Gains(t, 0, 0) /\ calls'[frame[t].call] = Current(t)
        /\ Alike(f, frame'[t], {"phase", "time", "at"})
    BY <1>2, <1>3, <2>1, <2>2, SinksFrom
  <2>4. frame'[t].key = key
    BY <2>1, <2>3 DEF Alike
  <2> QED BY <1>1, <1>4, <1>6, <2>3, <2>4 DEF key
<1> QED BY <1>5, <1>6

LEMMA CacheStoreIs ==
    ASSUME Base, NEW t \in Threads, CacheStore(t)
    PROVE  /\ Within(t) /\ AtHandler(t, "cache") /\ frame[t].phase = "up" /\ Gains(t, 0, 0)
           /\ calls'[frame[t].call] = Current(t) /\ Rises(t, frame[t].out)
<1>1. AtHandler(t, "cache") /\ frame[t].phase = "up"
  BY LeavingIs DEF CacheStore, Leaving
<1>2. Active(t) /\ frame[t].at > 0 /\ frame[t].out \in Outcomes
  BY <1>1, PlacedIs DEF AtHandler
<1>3. Moves(t, Answer(t, frame[t], frame[t].out)) /\ UNCHANGED <<stack, masks, calls>>
  BY DEF CacheStore
<1> QED BY <1>1, <1>2, <1>3, RisesFrom

LEMMA RetryEnterIs ==
    ASSUME Base, NEW t \in Threads, RetryEnter(t)
    PROVE  /\ Within(t) /\ AtHandler(t, "retry") /\ frame[t].phase = "down" /\ Gains(t, 0, 0)
           /\ calls'[frame[t].call] = Current(t) /\ Sinks(t, {"attempt"}) /\ frame'[t].attempt = 0
<1> DEFINE f == [frame[t] EXCEPT !["attempt"] = 0]
<1>1. AtHandler(t, "retry") /\ frame[t].phase = "down"
  BY EnteringIs DEF RetryEnter, Entering
<1>2. Active(t) /\ frame[t].at <= Len(stack) /\ IsFrame(frame[t])
  BY <1>1, PlacedIs DEF AtHandler
<1>3. IsFrame(f) /\ f.attempt = 0 /\ Alike(frame[t], f, {"attempt"})
  BY <1>2, AttemptChange
<1>4. Moves(t, Deeper(t, f)) /\ UNCHANGED <<stack, masks, calls>>
  <2>1. [frame[t] EXCEPT !.attempt = 0] = f
    BY Zenon
  <2> QED BY <2>1 DEF RetryEnter
<1> HIDE DEF f
<1>5. /\ Within(t) /\ Sinks(t, {"attempt"}) /\ Gains(t, 0, 0) /\ calls'[frame[t].call] = Current(t)
      /\ Alike(f, frame'[t], {"phase", "time", "at"})
  BY <1>2, <1>3, <1>4, SinksFrom
<1> QED BY <1>1, <1>3, <1>5 DEF Alike

LEMMA RetryLeaveIs ==
    ASSUME Base, NEW t \in Threads, RetryLeave(t)
    PROVE  /\ Within(t) /\ AtHandler(t, "retry") /\ frame[t].phase = "up" /\ Gains(t, 0, 0)
           /\ calls'[frame[t].call] = Current(t)
           /\ \/ frame[t].out # "transient" /\ Rises(t, frame[t].out)
              \/ LastAttempt(frame[t]) /\ Rises(t, frame[t].out)
              \/ /\ frame[t].out = "transient" /\ ~LastAttempt(frame[t])
                 /\ Stays(t, "backoff", {"time"})
<1>1. AtHandler(t, "retry") /\ frame[t].phase = "up"
  BY LeavingIs DEF RetryLeave, Leaving
<1>2. Active(t) /\ frame[t].at > 0 /\ frame[t].out \in Outcomes /\ IsFrame(frame[t])
  BY <1>1, PlacedIs DEF AtHandler
<1>3. UNCHANGED <<stack, masks, calls>>
  BY DEF RetryLeave
<1>4. CASE /\ frame[t].out # "transient" \/ LastAttempt(frame[t])
           /\ Moves(t, Answer(t, frame[t], frame[t].out))
  BY <1>1, <1>2, <1>3, <1>4, RisesFrom
<1>5. ASSUME frame[t].out = "transient", ~LastAttempt(frame[t]), NEW jitter \in Jitters,
             Moves(t, [frame[t] EXCEPT !.phase = "backoff",
                                       !.time = now + Backoff * 2^(frame[t].attempt) + jitter])
      PROVE  Within(t) /\ Gains(t, 0, 0) /\ calls'[frame[t].call] = Current(t) /\ Stays(t, "backoff", {"time"})
  <2> DEFINE time == now + Backoff * 2^(frame[t].attempt) + jitter
             g1 == [frame[t] EXCEPT !["phase"] = "backoff"]
             g == [g1 EXCEPT !["time"] = time]
  <2> HIDE DEF time
  <2>1. Moves(t, g)
    <3>1. [frame[t] EXCEPT !.phase = "backoff", !.time = time] = g
      BY Zenon
    <3> QED BY <1>5, <3>1 DEF time
  <2>2. IsFrame(g1) /\ g1.phase = "backoff" /\ Alike(frame[t], g1, {"phase"})
    <3>1. "backoff" \in Phases
      BY DEF Phases
    <3> QED BY <1>2, <3>1, PhaseChange
  <2> HIDE DEF g1
  <2>3. IsFrame(g) /\ Alike(g1, g, {"time"})
    BY <2>2, TimeChange
  <2> HIDE DEF g
  <2>4. g.phase = "backoff" /\ Alike(frame[t], g, {"phase"} \cup {"time"}) /\ g.call = frame[t].call
    BY <2>2, <2>3 DEF Alike
  <2>5. Within(t) /\ frame'[t] = g /\ Gains(t, 0, 0) /\ calls'[frame[t].call] = Current(t)
    BY <1>2, <1>3, <2>1, <2>3, <2>4, MovesIs
  <2> QED BY <2>4, <2>5 DEF Stays
<1> QED BY <1>1, <1>4, <1>5 DEF RetryLeave

LEMMA RetryAgainIs ==
    ASSUME Base, NEW t \in Threads, RetryAgain(t)
    PROVE  /\ Within(t) /\ AtHandler(t, "retry") /\ frame[t].phase = "backoff" /\ Gains(t, 0, 0)
           /\ calls'[frame[t].call] = Current(t)
           /\ Sinks(t, {"attempt"}) /\ frame'[t].attempt = frame[t].attempt + 1
<1> DEFINE n == frame[t].attempt + 1
           f == [frame[t] EXCEPT !["attempt"] = n]
<1>1. AtHandler(t, "retry") /\ frame[t].phase = "backoff"
  BY HeldIs DEF RetryAgain
<1>2. Active(t) /\ frame[t].at <= Len(stack) /\ IsFrame(frame[t]) /\ n \in Nat
  BY <1>1, PlacedIs DEF AtHandler
<1>3. Moves(t, Deeper(t, f)) /\ UNCHANGED <<stack, masks, calls>>
  <2>1. [frame[t] EXCEPT !.attempt = @ + 1] = f
    BY Zenon
  <2> QED BY <2>1 DEF RetryAgain
<1> HIDE DEF n
<1>4. IsFrame(f) /\ f.attempt = n /\ Alike(frame[t], f, {"attempt"})
  BY <1>2, AttemptChange
<1> HIDE DEF f
<1>5. /\ Within(t) /\ Sinks(t, {"attempt"}) /\ Gains(t, 0, 0) /\ calls'[frame[t].call] = Current(t)
      /\ Alike(f, frame'[t], {"phase", "time", "at"})
  BY <1>2, <1>3, <1>4, SinksFrom
<1> QED BY <1>1, <1>4, <1>5 DEF Alike, n

LEMMA RateClockIs ==
    ASSUME Base, NEW t \in Threads, RateClock(t)
    PROVE  /\ Within(t) /\ AtHandler(t, "rate-limit") /\ frame[t].phase = "down" /\ Gains(t, 0, 0)
           /\ calls'[frame[t].call] = Current(t)
           /\ Stays(t, "bucket", {"time"}) /\ frame'[t].time = now
<1> DEFINE g1 == [frame[t] EXCEPT !["phase"] = "bucket"]
           g == [g1 EXCEPT !["time"] = now]
<1>1. AtHandler(t, "rate-limit") /\ frame[t].phase = "down"
  BY EnteringIs DEF RateClock, Entering
<1>2. Active(t) /\ IsFrame(frame[t]) /\ "bucket" \in Phases
  BY <1>1, PlacedIs DEF AtHandler, Phases
<1>3. Moves(t, g) /\ UNCHANGED <<stack, masks, calls>>
  <2>1. [frame[t] EXCEPT !.phase = "bucket", !.time = now] = g
    BY Zenon
  <2> QED BY <2>1 DEF RateClock
<1>4. IsFrame(g1) /\ g1.phase = "bucket" /\ Alike(frame[t], g1, {"phase"})
  BY <1>2, PhaseChange
<1> HIDE DEF g1
<1>5. IsFrame(g) /\ g.time = now /\ Alike(g1, g, {"time"})
  BY <1>4, TimeChange
<1> HIDE DEF g
<1>6. g.phase = "bucket" /\ Alike(frame[t], g, {"phase"} \cup {"time"}) /\ g.call = frame[t].call
  BY <1>4, <1>5 DEF Alike
<1>7. Within(t) /\ frame'[t] = g /\ Gains(t, 0, 0) /\ calls'[frame[t].call] = Current(t)
  BY <1>2, <1>3, <1>5, <1>6, MovesIs
<1> QED BY <1>1, <1>5, <1>6, <1>7 DEF Stays

LEMMA RateTakeIs ==
    ASSUME Base, NEW t \in Threads, RateTake(t)
    PROVE  /\ Within(t) /\ AtHandler(t, "rate-limit") /\ frame[t].phase = "bucket"
           /\ calls'[frame[t].call].approved = Current(t).approved
           /\ \/ Gains(t, 0, 1) /\ Sinks(t, {})
              \/ /\ Gains(t, 0, 0) /\ calls'[frame[t].call] = Current(t) /\ Stays(t, "paying", {"time"})
<1> DEFINE tokens == Refilled(frame[t].time)
           g1 == [frame[t] EXCEPT !["phase"] = "paying"]
           time == now + TokenCost - tokens
           g == [g1 EXCEPT !["time"] = time]
<1>1. AtHandler(t, "rate-limit") /\ frame[t].phase = "bucket"
  BY HeldIs DEF RateTake
<1>2. Active(t) /\ IsFrame(frame[t]) /\ frame[t].at <= Len(stack) /\ "paying" \in Phases
  BY <1>1, PlacedIs DEF AtHandler, Phases
<1>3. \/ Moves(t, Deeper(t, frame[t])) /\ calls' = Granted(t)
      \/ Moves(t, [frame[t] EXCEPT !.phase = "paying", !.time = time]) /\ UNCHANGED calls
  BY DEF RateTake
<1>4. UNCHANGED <<stack, masks>>
  BY DEF RateTake
<1> HIDE DEF time
<1>5. CASE Moves(t, Deeper(t, frame[t])) /\ calls' = Granted(t)
  BY <1>1, <1>2, <1>4, <1>5, SinksGranted
<1>6. CASE Moves(t, [frame[t] EXCEPT !.phase = "paying", !.time = time]) /\ UNCHANGED calls
  <2>1. Moves(t, g)
    <3>1. [frame[t] EXCEPT !.phase = "paying", !.time = time] = g
      BY Zenon
    <3> QED BY <1>6, <3>1
  <2>2. IsFrame(g1) /\ g1.phase = "paying" /\ Alike(frame[t], g1, {"phase"})
    BY <1>2, PhaseChange
  <2> HIDE DEF g1
  <2>3. IsFrame(g) /\ Alike(g1, g, {"time"})
    BY <2>2, TimeChange
  <2> HIDE DEF g
  <2>4. g.phase = "paying" /\ Alike(frame[t], g, {"phase"} \cup {"time"}) /\ g.call = frame[t].call
    BY <2>2, <2>3 DEF Alike
  <2>5. Within(t) /\ frame'[t] = g /\ Gains(t, 0, 0) /\ calls'[frame[t].call] = Current(t)
    BY <1>2, <1>4, <1>6, <2>1, <2>3, <2>4, MovesIs
  <2> QED BY <1>1, <2>4, <2>5 DEF Stays
<1> QED BY <1>3, <1>5, <1>6

LEMMA RateSleptIs ==
    ASSUME Base, NEW t \in Threads, RateSlept(t)
    PROVE  /\ Within(t) /\ AtHandler(t, "rate-limit") /\ frame[t].phase = "paying" /\ Gains(t, 0, 1)
           /\ calls'[frame[t].call].approved = Current(t).approved /\ Sinks(t, {})
<1>1. AtHandler(t, "rate-limit") /\ frame[t].phase = "paying"
  BY HeldIs DEF RateSlept
<1>2. Active(t) /\ frame[t].at <= Len(stack)
  BY <1>1 DEF AtHandler
<1>3. Moves(t, Deeper(t, frame[t])) /\ calls' = Granted(t) /\ UNCHANGED <<stack, masks>>
  BY DEF RateSlept
<1> QED BY <1>1, <1>2, <1>3, SinksGranted

LEMMA RawIs ==
    ASSUME Base, NEW t \in Threads, NEW o \in {"result", "transient", "fatal"}, Raw(t, o)
    PROVE  /\ Within(t) /\ AtHandler(t, "raw") /\ frame[t].phase = "down" /\ Gains(t, 1, 0)
           /\ calls'[frame[t].call].approved = Current(t).approved /\ Rises(t, o)
<1>1. AtHandler(t, "raw") /\ frame[t].phase = "down"
  BY EnteringIs DEF Raw, Entering
<1>2. Active(t) /\ frame[t].at > 0 /\ o \in Outcomes
  BY <1>1 DEF AtHandler, Outcomes
<1>3. /\ Moves(t, Answer(t, frame[t], o)) /\ UNCHANGED <<stack, masks>>
      /\ calls' = [calls EXCEPT ![frame[t].call].performed = @ + 1]
  BY DEF Raw
<1> QED BY <1>1, <1>2, <1>3, RisesPerformed

LEMMA AuditEnterIs ==
    ASSUME Base, NEW t \in Threads, AuditEnter(t)
    PROVE  /\ Within(t) /\ AtHandler(t, "audit") /\ frame[t].phase = "down" /\ Gains(t, 0, 0)
           /\ calls'[frame[t].call] = Current(t) /\ Stays(t, "audit-op", {"lifted", "link"})
           /\ frame'[t].lifted = frame[t].link /\ frame'[t].link = Direct
<1> DEFINE g1 == [frame[t] EXCEPT !["phase"] = "audit-op"]
           g2 == [g1 EXCEPT !["lifted"] = frame[t].link]
           g == [g2 EXCEPT !["link"] = Direct]
<1>1. AtHandler(t, "audit") /\ frame[t].phase = "down"
  BY EnteringIs DEF AuditEnter, Entering
<1>2. Active(t) /\ IsFrame(frame[t]) /\ "audit-op" \in Phases /\ frame[t].link \in Links /\ Direct \in Links
  BY <1>1, PlacedIs DEF AtHandler, Phases, IsFrame, Frames, Links
<1>3. Moves(t, g) /\ UNCHANGED <<stack, masks, calls>>
  <2>1. [frame[t] EXCEPT !.phase = "audit-op", !.lifted = frame[t].link, !.link = Direct] = g
    BY Zenon
  <2> QED BY <2>1 DEF AuditEnter
<1>4. IsFrame(g1) /\ g1.phase = "audit-op" /\ Alike(frame[t], g1, {"phase"})
  BY <1>2, PhaseChange
<1> HIDE DEF g1
<1>5. IsFrame(g2) /\ g2.lifted = frame[t].link /\ Alike(g1, g2, {"lifted"})
  BY <1>2, <1>4, LinkChange
<1> HIDE DEF g2
<1>6. IsFrame(g) /\ g.link = Direct /\ Alike(g2, g, {"link"})
  BY <1>2, <1>5, LinkChange
<1> HIDE DEF g
<1>7. /\ g.phase = "audit-op" /\ Alike(frame[t], g, {"phase"} \cup {"lifted", "link"})
      /\ g.call = frame[t].call /\ g.lifted = frame[t].link
  BY <1>4, <1>5, <1>6 DEF Alike
<1>8. Within(t) /\ frame'[t] = g /\ Gains(t, 0, 0) /\ calls'[frame[t].call] = Current(t)
  BY <1>2, <1>3, <1>6, <1>7, MovesIs
<1> QED BY <1>1, <1>6, <1>7, <1>8 DEF Stays

LEMMA AuditReadOpIs ==
    ASSUME Base, NEW t \in Threads, AuditReadOp(t)
    PROVE  /\ Within(t) /\ AtHandler(t, "audit") /\ frame[t].phase = "audit-op" /\ Gains(t, 0, 0)
           /\ calls'[frame[t].call] = Current(t) /\ Sinks(t, {"op"}) /\ frame'[t].op = currentOp
<1> DEFINE f == [frame[t] EXCEPT !["op"] = currentOp]
<1>1. AtHandler(t, "audit") /\ frame[t].phase = "audit-op"
  BY HeldIs DEF AuditReadOp
<1>2. Active(t) /\ frame[t].at <= Len(stack) /\ IsFrame(frame[t]) /\ currentOp \in Ops \cup {"none"}
  BY <1>1, PlacedIs DEF AtHandler, Base, SharedInv
<1>3. IsFrame(f) /\ f.op = currentOp /\ Alike(frame[t], f, {"op"})
  BY <1>2, OpChange
<1>4. Moves(t, Deeper(t, f)) /\ UNCHANGED <<stack, masks, calls>>
  <2>1. [frame[t] EXCEPT !.op = currentOp] = f
    BY Zenon
  <2> QED BY <2>1 DEF AuditReadOp
<1> HIDE DEF f
<1>5. /\ Within(t) /\ Sinks(t, {"op"}) /\ Gains(t, 0, 0) /\ calls'[frame[t].call] = Current(t)
      /\ Alike(f, frame'[t], {"phase", "time", "at"})
  BY <1>2, <1>3, <1>4, SinksFrom
<1> QED BY <1>1, <1>3, <1>5 DEF Alike

LEMMA AuditReadHeadIs ==
    ASSUME Base, NEW t \in Threads, AuditReadHead(t)
    PROVE  /\ Within(t) /\ AtHandler(t, "audit") /\ frame[t].phase = "up" /\ Gains(t, 0, 0)
           /\ calls'[frame[t].call] = Current(t) /\ Stays(t, "audit-append", {"prev"})
           /\ frame'[t].prev = Len(entries)
<1> DEFINE n == Len(entries)
           g1 == [frame[t] EXCEPT !["phase"] = "audit-append"]
           g == [g1 EXCEPT !["prev"] = n]
<1>1. AtHandler(t, "audit") /\ frame[t].phase = "up"
  BY LeavingIs DEF AuditReadHead, Leaving
<1>2. Active(t) /\ IsFrame(frame[t]) /\ "audit-append" \in Phases /\ n \in Nat
  BY <1>1, PlacedIs DEF AtHandler, Phases, Base, SharedInv
<1> HIDE DEF n
<1>3. Moves(t, g) /\ UNCHANGED <<stack, masks, calls>>
  <2>1. [frame[t] EXCEPT !.phase = "audit-append", !.prev = n] = g
    BY Zenon
  <2> QED BY <2>1 DEF AuditReadHead, n
<1>4. IsFrame(g1) /\ g1.phase = "audit-append" /\ Alike(frame[t], g1, {"phase"})
  BY <1>2, PhaseChange
<1> HIDE DEF g1
<1>5. IsFrame(g) /\ g.prev = n /\ Alike(g1, g, {"prev"})
  BY <1>2, <1>4, PrevChange
<1> HIDE DEF g
<1>6. g.phase = "audit-append" /\ Alike(frame[t], g, {"phase"} \cup {"prev"}) /\ g.call = frame[t].call
  BY <1>4, <1>5 DEF Alike
<1>7. Within(t) /\ frame'[t] = g /\ Gains(t, 0, 0) /\ calls'[frame[t].call] = Current(t)
  BY <1>2, <1>3, <1>5, <1>6, MovesIs
<1> QED BY <1>1, <1>5, <1>6, <1>7 DEF Stays, n

LEMMA AuditAppendIs ==
    ASSUME Base, NEW t \in Threads, AuditAppend(t)
    PROVE  /\ Within(t) /\ AtHandler(t, "audit") /\ frame[t].phase = "audit-append" /\ Gains(t, 0, 0)
           /\ calls'[frame[t].call] = Current(t)
           /\ IF HasSink THEN Stays(t, "audit-sink", {}) ELSE Rises(t, frame[t].out)
<1> DEFINE g == [frame[t] EXCEPT !["phase"] = "audit-sink"]
<1>1. AtHandler(t, "audit") /\ frame[t].phase = "audit-append"
  BY HeldIs DEF AuditAppend
<1>2. Active(t) /\ IsFrame(frame[t]) /\ "audit-sink" \in Phases /\ frame[t].at > 0 /\ frame[t].out \in Outcomes
  BY <1>1, PlacedIs DEF AtHandler, Phases
<1>3. UNCHANGED <<stack, masks, calls>>
  BY DEF AuditAppend
<1>4. CASE ~HasSink
  <2>1. Moves(t, Answer(t, frame[t], frame[t].out))
    BY <1>4 DEF AuditAppend
  <2> QED BY <1>1, <1>2, <1>3, <1>4, <2>1, RisesFrom
<1>5. CASE HasSink
  <2>1. Moves(t, g)
    <3>1. [frame[t] EXCEPT !.phase = "audit-sink"] = g
      BY Zenon
    <3> QED BY <1>5, <3>1 DEF AuditAppend
  <2>2. IsFrame(g) /\ g.phase = "audit-sink" /\ Alike(frame[t], g, {"phase"})
    BY <1>2, PhaseChange
  <2> HIDE DEF g
  <2>3. g.call = frame[t].call /\ Alike(frame[t], g, {"phase"} \cup {})
    BY <2>2 DEF Alike
  <2>4. Within(t) /\ frame'[t] = g /\ Gains(t, 0, 0) /\ calls'[frame[t].call] = Current(t)
    BY <1>2, <1>3, <2>1, <2>2, <2>3, MovesIs
  <2> QED BY <1>1, <1>5, <2>2, <2>3, <2>4 DEF Stays
<1> QED BY <1>4, <1>5

LEMMA AuditSinkIs ==
    ASSUME Base, NEW t \in Threads, AuditSink(t)
    PROVE  /\ Within(t) /\ AtHandler(t, "audit") /\ frame[t].phase = "audit-sink" /\ Gains(t, 0, 0)
           /\ calls'[frame[t].call] = Current(t)
           /\ \/ Rises(t, frame[t].out) /\ archive' = Append(archive, frame[t].call)
              \/ Rises(t, "sink") /\ archive' = archive
<1>1. AtHandler(t, "audit") /\ frame[t].phase = "audit-sink"
  BY HeldIs DEF AuditSink
<1>2. Active(t) /\ frame[t].at > 0 /\ frame[t].out \in Outcomes /\ "sink" \in Outcomes
  BY <1>1, PlacedIs DEF AtHandler, Outcomes
<1>3. UNCHANGED <<stack, masks, calls>>
  BY DEF AuditSink
<1>4. CASE Moves(t, Answer(t, frame[t], frame[t].out)) /\ archive' = Append(archive, frame[t].call)
  BY <1>1, <1>2, <1>3, <1>4, RisesFrom
<1>5. CASE Moves(t, Answer(t, frame[t], "sink")) /\ archive' = archive
  BY <1>1, <1>2, <1>3, <1>5, RisesFrom
<1> QED BY <1>4, <1>5 DEF AuditSink

-----------------------------------------------------------------------------
(* A call begins, and it returns.                                          *)
LEMMA CallSet ==
    ASSUME NEW f, IsFrame(f), NEW n \in Nat
    PROVE  LET g == [f EXCEPT !["call"] = n] IN IsFrame(g) /\ g.call = n /\ Alike(f, g, {"call"})
BY DEF IsFrame, Frames, Alike

LEMMA IdleIs == IsFrame(Idle)
BY DEF IsFrame, Frames, Idle, Phases, Outcomes, Links

Begins(t) ==
    LET n == Len(calls) + 1 IN
    /\ ~Active(t) /\ stack' = stack /\ masks' = masks /\ UNCHANGED <<now, auditVars, cached, bucket>>
    /\ DOMAIN frame' = Threads /\ \A u \in Threads : u # t => frame'[u] = frame[u]
    /\ IsFrame(frame'[t]) /\ frame'[t].phase = "down" /\ frame'[t].call = n
    /\ frame'[t].at \in calls'[n].names /\ \A i \in calls'[n].names : frame'[t].at <= i
    /\ frame'[t].attempt = 0 /\ frame'[t].out = "none" /\ frame'[t].link = calls'[n].link
    /\ calls' \in Seq(CallRecs) /\ Len(calls') = n /\ n \in Nat /\ n <= MaxCalls
    /\ DOMAIN calls' = DOMAIN calls \cup {n} /\ n \notin DOMAIN calls
    /\ \A c \in DOMAIN calls : calls'[c] = calls[c]
    /\ calls'[n].performed = 0 /\ calls'[n].granted = 0 /\ calls'[n].end = "open"
    /\ calls'[n].before = Ended
    /\ calls'[n].names \subseteq DOMAIN stack /\ calls'[n].names # {}
    /\ \A h \in Handlers : Through(Len(calls), h)' <=> \E i \in calls'[n].names : stack[i] = h

LEMMA StartIs ==
    ASSUME Base, NEW t \in Threads, NEW first \in Nat, NEW o \in Ops, NEW a \in Args, NEW link \in Links,
           NEW names \in SUBSET (DOMAIN stack), Start(t, first, o, a, link, names),
           \A h \in Handlers :
              (\E i \in DOMAIN stack : /\ stack[i] = h /\ Covers(h, o)
                                       /\ \/ i >= first /\ h \notin MaskedNames(t)
                                          \/ i = first /\ i \in names)
              <=> \E i \in names : stack[i] = h
    PROVE  Begins(t)
<1> DEFINE n == Len(calls) + 1
           m == Min(names)
           r == [op |-> o, args |-> a, link |-> link, names |-> names,
                 first |-> first, own |-> masks[t], before |-> Ended, performed |-> 0,
                 granted |-> 0, approved |-> FALSE, end |-> "open"]
           g1 == [Idle EXCEPT !["phase"] = "down"]
           g2 == [g1 EXCEPT !["at"] = m]
           g3 == [g2 EXCEPT !["call"] = n]
           g == [g3 EXCEPT !["link"] = link]
<1>1. names # {} /\ names \subseteq Nat /\ ~Active(t) /\ n \in Nat /\ n <= MaxCalls /\ MaxCalls \in Nat
  BY StackIs, EffectConstantsOK DEF Start, Active
<1>2. m \in names /\ m \in Nat /\ \A i \in names : m <= i
  BY <1>1, MinIs
<1>3. Moves(t, g) /\ calls' = Append(calls, r)
  <2> HIDE DEF n, m
  <2>1. [Idle EXCEPT !.phase = "down", !.at = m, !.call = n, !.link = link] = g
    BY Zenon
  <2> QED BY <2>1 DEF Start, n, m
<1>4. r \in CallRecs
  <2>1. masks[t] \in Seq(MaskSets) /\ Ended \in SUBSET Nat
    BY StackIs DEF Base, TypeInv, Ended
  <2>2. names \in SUBSET Nat /\ 0 \in Nat /\ FALSE \in BOOLEAN
    BY <1>1
  <2> HIDE DEF n, m
  <2> QED BY <2>1, <2>2 DEF CallRecs
<1>5. /\ r.op = o /\ r.names = names /\ r.first = first /\ r.own = masks[t] /\ r.before = Ended
      /\ r.performed = 0 /\ r.granted = 0 /\ r.end = "open" /\ r.link = link
  OBVIOUS
<1> HIDE DEF m, r
<1>6. IsFrame(g1) /\ g1.phase = "down" /\ Alike(Idle, g1, {"phase"})
  <2>1. "down" \in Phases
    BY DEF Phases
  <2> QED BY <2>1, IdleIs, PhaseChange
<1> HIDE DEF g1
<1>7. IsFrame(g2) /\ g2.at = m /\ Alike(g1, g2, {"at"})
  BY <1>2, <1>6, AtChange
<1> HIDE DEF g2, n
<1>8. IsFrame(g3) /\ g3.call = n /\ Alike(g2, g3, {"call"})
  BY <1>1, <1>7, CallSet
<1> HIDE DEF g3
<1>9. IsFrame(g) /\ g.link = link /\ Alike(g3, g, {"link"})
  BY <1>8, LinkChange
<1> HIDE DEF g
<1>10. /\ g.phase = "down" /\ g.at = m /\ g.call = n
       /\ g.attempt = Idle.attempt /\ g.out = Idle.out
  BY <1>6, <1>7, <1>8, <1>9 DEF Alike
<1>11. Idle.attempt = 0 /\ Idle.out = "none"
  BY DEF Idle
<1>12. DOMAIN frame' = Threads /\ frame'[t] = g /\ \A u \in Threads : u # t => frame'[u] = frame[u]
  BY <1>3 DEF Moves, Base, TypeInv
<1>13. calls \in Seq(CallRecs) /\ DOMAIN calls = 1 .. Len(calls) /\ Len(calls) \in Nat
  BY StackIs DEF Base, TypeInv
<1>14. /\ calls' \in Seq(CallRecs) /\ Len(calls') = n /\ DOMAIN calls' = DOMAIN calls \cup {n}
       /\ n \notin DOMAIN calls /\ calls'[n] = r /\ \A c \in DOMAIN calls : calls'[c] = calls[c]
  BY <1>3, <1>4, <1>13 DEF n
<1>15. UNCHANGED <<now, stack, masks, auditVars, cached, bucket>>
  BY DEF Start
<1>16. \A h \in Handlers : Through(Len(calls), h)' <=> \E i \in names : stack[i] = h
  <2>1. calls'[n].op = o /\ calls'[n].first = first /\ calls'[n].names = names /\ calls'[n].own = masks[t]
    BY <1>5, <1>14
  <2>2. \A h :
           Through(Len(calls), h)' <=>
             \E i \in DOMAIN stack : /\ stack[i] = h /\ Covers(h, o)
                                     /\ \/ i >= first /\ h \notin UNION ToSet(masks[t])
                                        \/ i = first /\ i \in names
    <3> DEFINE new == calls'[n]
    <3>1. \A h : Through(Len(calls), h)' <=>
             \E i \in DOMAIN stack : /\ stack[i] = h /\ Covers(h, new.op)
                                     /\ \/ i >= new.first /\ h \notin UNION ToSet(new.own)
                                        \/ i = new.first /\ i \in new.names
      BY <1>14, <1>15 DEF Through, Covers, ToSet
    <3>2. new.op = o /\ new.first = first /\ new.names = names /\ new.own = masks[t]
      BY <2>1
    <3> HIDE DEF new
    <3> QED BY <3>1, <3>2
  <2> QED BY <2>2 DEF MaskedNames
<1> QED BY <1>1, <1>2, <1>5, <1>9, <1>10, <1>11, <1>12, <1>14, <1>15, <1>16 DEF Begins, n

LEMMA PerformIs ==
    ASSUME Base, NEW t \in Threads, NEW o \in Ops, NEW a \in Args, NEW link \in Links,
           Perform(t, o, a, link)
    PROVE  Begins(t)
<1>1. Start(t, 1, o, a, link, Candidates(t, o)) /\ Candidates(t, o) \in SUBSET (DOMAIN stack)
  BY DEF Perform, Candidates
<1>2. \A i \in DOMAIN stack : i >= 1 /\ i \in Nat
  BY StackIs
<1>3. \A h \in Handlers :
         (\E i \in DOMAIN stack : /\ stack[i] = h /\ Covers(h, o)
                                  /\ \/ i >= 1 /\ h \notin MaskedNames(t)
                                     \/ i = 1 /\ i \in Candidates(t, o))
         <=> \E i \in Candidates(t, o) : stack[i] = h
  BY <1>2 DEF Candidates
<1> QED BY <1>1, <1>3, StartIs

LEMMA NamedIs ==
    ASSUME Base, NEW t \in Threads, NEW p \in DOMAIN stack, NEW o \in Ops, NEW a \in Args, Named(t, p, o, a)
    PROVE  Begins(t)
<1> DEFINE N == CandidatesFrom(t, p, o)
<1>1. /\ Start(t, p, o, a, Direct, N) /\ N \in SUBSET (DOMAIN stack)
      /\ Covers(stack[p], o) /\ Direct \in Links
  BY DEF Named, Candidates, CandidatesFrom, Links
<1>2. \A i \in DOMAIN stack : i \in Nat
  BY StackIs
<1>3. \A i \in DOMAIN stack : i \in N <=> \/ i = p
                                          \/ i > p /\ Covers(stack[i], o) /\ stack[i] \notin MaskedNames(t)
  BY DEF Candidates, CandidatesFrom
<1>4. \A h \in Handlers :
         (\E i \in DOMAIN stack : /\ stack[i] = h /\ Covers(h, o)
                                  /\ \/ i >= p /\ h \notin MaskedNames(t)
                                     \/ i = p /\ i \in N)
         <=> \E i \in N : stack[i] = h
  <2> HIDE DEF N
  <2> QED BY <1>1, <1>2, <1>3
<1> HIDE DEF N
<1>5. p \in Nat
  BY <1>2
<1> QED BY <1>1, <1>4, <1>5, StartIs

Returns(t) ==
    /\ Active(t) /\ Placed(t) /\ frame[t].phase = "up" /\ frame[t].at = 0
    /\ stack' = stack /\ masks' = masks /\ UNCHANGED <<now, auditVars, cached, bucket>>
    /\ DOMAIN frame' = Threads /\ frame'[t] = Idle /\ \A u \in Threads : u # t => frame'[u] = frame[u]
    /\ calls' \in Seq(CallRecs) /\ Len(calls') = Len(calls) /\ DOMAIN calls' = DOMAIN calls
    /\ \A c \in DOMAIN calls : c # frame[t].call => calls'[c] = calls[c]
    /\ \A c \in DOMAIN calls :
          /\ calls'[c].op = calls[c].op /\ calls'[c].args = calls[c].args /\ calls'[c].link = calls[c].link
          /\ calls'[c].names = calls[c].names /\ calls'[c].first = calls[c].first
          /\ calls'[c].own = calls[c].own /\ calls'[c].before = calls[c].before
          /\ calls'[c].performed = calls[c].performed /\ calls'[c].granted = calls[c].granted
          /\ calls'[c].approved = calls[c].approved
    /\ calls'[frame[t].call].end = frame[t].out /\ frame[t].out # "open"

LEMMA ReturnIs ==
    ASSUME Base, NEW t \in Threads, Return(t)
    PROVE  Returns(t)
<1> DEFINE s == [Current(t) EXCEPT !["end"] = frame[t].out]
<1>1. Active(t)
  BY DEF Return, Active
<1>2. /\ Placed(t) /\ frame[t].call \in DOMAIN calls /\ Current(t) \in CallRecs
      /\ frame[t].out \in Outcomes
  BY <1>1, PlacedIs
<1>3. calls' = [calls EXCEPT ![frame[t].call] = s]
  BY Zenon DEF Return, Current
<1>4. /\ s \in CallRecs /\ s.end = frame[t].out
      /\ s.op = Current(t).op /\ s.args = Current(t).args /\ s.link = Current(t).link
      /\ s.names = Current(t).names /\ s.first = Current(t).first
      /\ s.own = Current(t).own /\ s.before = Current(t).before
      /\ s.performed = Current(t).performed /\ s.granted = Current(t).granted
      /\ s.approved = Current(t).approved
  <2> DEFINE o == frame[t].out
  <2>1. o \in {"open"} \cup Outcomes
    BY <1>2
  <2> HIDE DEF o
  <2>2. [Current(t) EXCEPT !["end"] = o] \in CallRecs
    BY <1>2, <2>1 DEF CallRecs
  <2> QED BY <1>2, <2>2 DEF CallRecs, o
<1> HIDE DEF s
<1>5. calls \in Seq(CallRecs)
  BY DEF Base, TypeInv
<1>6. /\ calls' \in Seq(CallRecs) /\ Len(calls') = Len(calls) /\ DOMAIN calls' = DOMAIN calls
      /\ calls'[frame[t].call] = s /\ \A c \in DOMAIN calls : c # frame[t].call => calls'[c] = calls[c]
  BY <1>2, <1>3, <1>4, <1>5
<1>7. DOMAIN frame' = Threads /\ frame'[t] = Idle /\ \A u \in Threads : u # t => frame'[u] = frame[u]
  BY DEF Return, Moves, Base, TypeInv
<1>8. frame[t].out # "open"
  BY <1>2 DEF Outcomes
<1> QED BY <1>1, <1>2, <1>4, <1>6, <1>7, <1>8 DEF Returns, Return, Current

-----------------------------------------------------------------------------
(* Types, and where the threads are, from step to step.                    *)
LEMMA WithinKeeps ==
    ASSUME Base, NEW t \in Threads, Within(t)
    PROVE  /\ Active(t)' /\ frame[t].call \in DOMAIN calls
           /\ Current(t)' = calls'[frame[t].call] /\ Kept(Current(t), Current(t)')
           /\ \A c \in DOMAIN calls : Kept(calls[c], calls'[c])
           /\ \A c \in DOMAIN calls : \A h : Passes(c, h)' <=> Passes(c, h)
           /\ \A u \in Threads : u # t =>
                 /\ frame'[u] = frame[u] /\ (Active(u)' <=> Active(u))
                 /\ Active(u) => /\ frame[u].call \in DOMAIN calls /\ frame[u].call # frame[t].call
                                 /\ Current(u)' = Current(u)
<1>1. frame[t].call \in DOMAIN calls /\ frame'[t].call = frame[t].call
  BY PlacedIs DEF Within
<1>2. Active(t)' /\ Current(t)' = calls'[frame[t].call]
  BY <1>1 DEF Within, Active, Current
<1>3. \A c \in DOMAIN calls : Kept(calls[c], calls'[c])
  BY <1>1 DEF Within, Kept, Current
<1>4. \A c \in DOMAIN calls : \A h : Passes(c, h)' <=> Passes(c, h)
  BY <1>3 DEF Passes, Kept, Within
<1>5. ASSUME NEW u \in Threads, u # t
      PROVE  /\ frame'[u] = frame[u] /\ (Active(u)' <=> Active(u))
             /\ Active(u) => /\ frame[u].call \in DOMAIN calls /\ frame[u].call # frame[t].call
                             /\ Current(u)' = Current(u)
  <2>1. frame'[u] = frame[u]
    BY <1>5 DEF Within
  <2>2. Active(u) => frame[u].call \in DOMAIN calls /\ frame[u].call # frame[t].call
    BY <1>5, PlacedIs DEF Base, Apart, Within
  <2> QED BY <2>1, <2>2 DEF Within, Active, Current
<1>6. Kept(Current(t), Current(t)')
  BY <1>1, <1>2, <1>3 DEF Current
<1> QED BY <1>1, <1>2, <1>3, <1>4, <1>5, <1>6

LEMMA ThroughKept ==
    ASSUME NEW c, stack' = stack, Kept(calls[c], calls'[c])
    PROVE  \A h : Through(c, h)' <=> Through(c, h)
BY DEF Through, Kept, Covers

(* Which clauses a thread is inside after it has moved.                    *)
LEMMA InsideSinks ==
    ASSUME Base, NEW t \in Threads, Within(t), NEW g, AtHandler(t, g), NEW S, Sinks(t, S)
    PROVE  \A h : Inside(t, h)' <=> Inside(t, h) \/ h = g
<1>1. /\ Current(t)'.names = Current(t).names /\ stack' = stack
      /\ Current(t).names \subseteq Nat /\ frame[t].at \in Nat /\ stack[frame[t].at] = g
      /\ frame[t].at \in Current(t).names
  BY WithinKeeps, PlacedIs, SMTT(20) DEF Kept, Within, AtHandler
<1> DEFINE b == frame'[t].at
<1>2. b \in Nat /\ b > frame[t].at /\ frame'[t].phase = "down"
  BY DEF Sinks, GoesBelow
<1>3. \A i \in Current(t).names : i < b <=> i <= frame[t].at
  BY <1>1, <1>2 DEF Sinks, GoesBelow
<1>4. \A h : Inside(t, h)' <=> \E i \in Current(t).names : stack[i] = h /\ i <= frame[t].at
  BY <1>1, <1>2, <1>3 DEF Inside
<1>5. \A i \in Current(t).names : i = frame[t].at => stack[i] = g
  BY <1>1
<1>6. IsInjective(stack) /\ Current(t).names \subseteq DOMAIN stack
  BY StackIs, PlacedIs DEF Within
<1>7. \A h : (\E i \in Current(t).names : stack[i] = h /\ i <= frame[t].at) <=> Inside(t, h) \/ h = g
  BY <1>1, <1>5 DEF Inside
<1> QED BY <1>4, <1>7

LEMMA InsideStays ==
    ASSUME Base, NEW t \in Threads, Within(t), NEW g, AtHandler(t, g), NEW p, p # "down",
           NEW S, "at" \notin S, Stays(t, p, S)
    PROVE  \A h : Inside(t, h)' <=> Inside(t, h) \/ h = g
<1>1. /\ Current(t)'.names = Current(t).names /\ stack' = stack
      /\ Current(t).names \subseteq Nat /\ frame[t].at \in Nat /\ stack[frame[t].at] = g
      /\ frame[t].at \in Current(t).names
  BY WithinKeeps, PlacedIs, SMTT(20) DEF Kept, Within, AtHandler
<1>2. frame'[t].at = frame[t].at /\ frame'[t].phase # "down"
  BY DEF Stays, Alike
<1> QED BY <1>1, <1>2 DEF Inside

LEMMA InsideRises ==
    ASSUME Base, NEW t \in Threads, Within(t), NEW o, Rises(t, o), NEW h \in {"audit", "cache", "retry"}
    PROVE  Inside(t, h)' <=> Inside(t, h) /\ ~AtHandler(t, h)
<1>1. /\ Current(t)'.names = Current(t).names /\ stack' = stack
      /\ Current(t).names \subseteq 1 .. Len(stack) /\ frame[t].at \in Nat
      /\ IsInjective(stack) /\ DOMAIN stack = 1 .. Len(stack) /\ Len(stack) \in Nat
      /\ frame[t].call \in DOMAIN calls /\ Placed(t) /\ Active(t)
  BY WithinKeeps, PlacedIs, StackIs DEF Kept, Within
<1>2. /\ frame'[t].at \in Nat /\ frame'[t].at < frame[t].at /\ frame'[t].phase = "up"
      /\ \A i \in Current(t).names : i < frame[t].at /\ stack[i] = h => i <= frame'[t].at
  BY DEF Rises, GoesAbove
<1>3. \A i \in 1 .. Len(stack) : stack[i] = h /\ stack[frame[t].at] = h /\ frame[t].at \in 1 .. Len(stack)
                                => i = frame[t].at
  BY <1>1 DEF IsInjective
<1>4. Inside(t, h)' <=> \E i \in Current(t).names : stack[i] = h /\ i <= frame'[t].at
  BY <1>1, <1>2 DEF Inside
<1>5. \A i \in Current(t).names : stack[i] = h => (i <= frame'[t].at <=> i < frame[t].at)
  BY <1>1, <1>2
<1>6. Inside(t, h) /\ ~AtHandler(t, h) => \E i \in Current(t).names : stack[i] = h /\ i < frame[t].at
  BY <1>1 DEF Inside, AtHandler
<1>7. ASSUME NEW i \in Current(t).names, stack[i] = h, i < frame[t].at
      PROVE  Inside(t, h) /\ ~AtHandler(t, h)
  BY <1>1, <1>3, <1>7 DEF Inside, AtHandler
<1> QED BY <1>4, <1>5, <1>6, <1>7

LEMMA SinksPlaced ==
    ASSUME Base, NEW t \in Threads, Within(t), NEW g, AtHandler(t, g), NEW S, Sinks(t, S),
           frame'[t].key \in Keys \/ ("key" \notin S /\ g # "cache")
    PROVE  Placed(t)'
<1>1. /\ Current(t)'.names = Current(t).names /\ Current(t)'.end = "open"
      /\ frame[t].call \in DOMAIN calls
  BY WithinKeeps DEF Kept, Within, Placed
<1>2. Inside(t, "cache")' => frame'[t].key \in Keys
  BY InsideSinks DEF Within, Placed, Sinks, Alike
<1> QED BY <1>1, <1>2 DEF Placed, Within, Sinks, GoesBelow

LEMMA RisesPlaced ==
    ASSUME Base, NEW t \in Threads, Within(t), NEW o, Rises(t, o)
    PROVE  Placed(t)'
<1>1. /\ Current(t)'.names = Current(t).names /\ Current(t)'.end = "open"
      /\ frame[t].call \in DOMAIN calls
  BY WithinKeeps DEF Kept, Within, Placed
<1>2. Inside(t, "cache")' => frame'[t].key \in Keys
  BY InsideRises DEF Within, Placed, Rises, Alike
<1> QED BY <1>1, <1>2 DEF Placed, Within, Rises, GoesAbove

LEMMA StaysPlaced ==
    ASSUME Base, NEW t \in Threads, Within(t), NEW h, AtHandler(t, h), NEW p, NEW S, Stays(t, p, S),
           "at" \notin S, "key" \notin S,
           \/ p \in {"audit-op", "audit-sink"} /\ h = "audit"
           \/ p = "audit-append" /\ h = "audit" /\ frame'[t].prev <= Len(entries)'
           \/ p = "bucket" /\ h = "rate-limit" /\ frame'[t].time \in Nat
           \/ p = "paying" /\ h = "rate-limit"
           \/ p = "backoff" /\ h = "retry" /\ frame'[t].out = "transient"
    PROVE  Placed(t)'
<1>1. /\ Current(t)'.names = Current(t).names /\ Current(t)'.end = "open"
      /\ frame[t].call \in DOMAIN calls
  BY WithinKeeps DEF Kept, Within, Placed
<1>2. frame'[t].at = frame[t].at /\ frame'[t].phase = p
  BY DEF Stays, Alike
<1>3. Inside(t, "cache")' => frame'[t].key \in Keys
  BY InsideStays DEF Within, Placed, Stays, Alike
<1> QED BY <1>1, <1>2, <1>3 DEF Placed, Within, AtHandler

LEMMA WithinBase ==
    ASSUME Base, NEW t \in Threads, Within(t), Placed(t)', SharedInv', Len(entries) <= Len(entries')
    PROVE  Base'
<1>1. TypeInv'
  BY DEF Base, TypeInv, Within
<1>2. ASSUME NEW u \in Threads PROVE Placed(u)'
  <2>1. CASE u = t
    BY <2>1
  <2>2. CASE u # t
    <3>1. frame'[u] = frame[u] /\ (Active(u)' <=> Active(u)) /\ (Active(u) => Current(u)' = Current(u))
      BY <2>2, WithinKeeps
    <3>2. Placed(u) /\ DOMAIN calls' = DOMAIN calls /\ stack' = stack
      BY DEF Base, Within
    <3>3. /\ Len(entries) \in Nat /\ Len(entries') \in Nat
      BY DEF Base, SharedInv
    <3>4. frame[u].prev \in Nat
      BY StackIs DEF IsFrame, Frames
    <3>5. Inside(u, "cache")' /\ Active(u) => Inside(u, "cache")
      BY <3>1, <3>2 DEF Inside
    <3> QED BY <3>1, <3>2, <3>3, <3>4, <3>5 DEF Placed
  <2> QED BY <2>1, <2>2
<1>3. Apart'
  BY WithinKeeps DEF Base, Apart, Within
<1>4. ASSUME NEW c \in DOMAIN calls' PROVE CallOK(c)'
  <2>1. c \in DOMAIN calls /\ CallOK(c) /\ stack' = stack
    BY DEF Within, Base
  <2>2. Kept(calls[c], calls'[c]) /\ \A h : Passes(c, h)' <=> Passes(c, h)
    BY <2>1, WithinKeeps
  <2>3. \A h : Through(c, h)' <=> Through(c, h)
    BY <2>1, <2>2, ThroughKept
  <2>4. \A d \in DOMAIN calls : calls'[d].end = calls[d].end
    BY WithinKeeps DEF Kept
  <2> QED BY <2>1, <2>2, <2>3, <2>4 DEF CallOK, Kept, Within
<1> QED BY <1>1, <1>2, <1>3, <1>4 DEF Base

sharedVars == <<now, entries, currentOp, archive, contended, cached, bucket>>

LEMMA SharedSame ==
    ASSUME SharedInv, UNCHANGED sharedVars, DOMAIN calls \subseteq DOMAIN calls'
    PROVE  SharedInv' /\ entries' = entries
BY DEF SharedInv, sharedVars

(* The bucket never holds more than its capacity, nor less than nothing.   *)
LEMMA BucketIs ==
    ASSUME Base, NEW time \in Nat
    PROVE  Left(Refilled(time)) \in 0 .. Capacity * TokenCost
<1> DEFINE m == Capacity * TokenCost
           gained == IF bucket.last = NoRead THEN 0 ELSE Most(0, time - bucket.last)
<1>1. m \in Nat /\ TokenCost \in Nat
  <2>1. Capacity \in Nat /\ TokenCost \in Nat
    BY EffectConstantsOK
  <2> QED BY <2>1
<1>2. bucket.tokens \in 0 .. m /\ bucket.last \in {NoRead} \cup Nat
  BY DEF Base, SharedInv
<1>3. gained \in Nat
  BY <1>2 DEF Most
<1> HIDE DEF m, gained
<1>4. Refilled(time) = Least(m, bucket.tokens + gained)
  BY DEF Refilled, m, gained
<1>5. Refilled(time) \in 0 .. m
  BY <1>1, <1>2, <1>3, <1>4 DEF Least
<1>6. Left(Refilled(time)) \in 0 .. m
  BY <1>1, <1>5 DEF Left
<1> QED BY <1>6 DEF m

LEMMA EntryIs ==
    ASSUME Base, NEW t \in Threads, Active(t)
    PROVE  /\ Entry(frame[t]) \in EntryRecs
           /\ Entry(frame[t]).call = frame[t].call /\ Entry(frame[t]).op = frame[t].op
           /\ Entry(frame[t]).link = frame[t].lifted /\ Entry(frame[t]).prev = frame[t].prev
           /\ (Entry(frame[t]).verdict = "error") = Raised(frame[t].out)
<1> DEFINE f == frame[t]
           v == IF Raised(f.out) THEN "error" ELSE "ok"
           e == [call |-> f.call, op |-> f.op, link |-> f.lifted, prev |-> f.prev, verdict |-> v]
<1>1. Entry(f) = e
  BY DEF Entry
<1>2. v \in {"ok", "error"} /\ (v = "error") = Raised(f.out)
  BY DEF Raised
<1>3. f.call \in Nat /\ f.op \in Ops \cup {"none"} /\ f.lifted \in Links /\ f.prev \in Nat
  BY StackIs DEF IsFrame, Frames
<1> HIDE DEF f, v
<1>4. /\ e \in EntryRecs /\ e.call = f.call /\ e.op = f.op
      /\ e.link = f.lifted /\ e.prev = f.prev /\ e.verdict = v
  BY <1>2, <1>3 DEF EntryRecs
<1> HIDE DEF e
<1>5. (e.verdict = "error") = Raised(f.out)
  BY <1>2, <1>4
<1> QED BY <1>1, <1>4, <1>5 DEF f

LEMMA MeetsKeeps ==
    ASSUME Base, NEW t \in Threads, Active(t), Meets(t)
    PROVE  contended' \subseteq DOMAIN calls
<1>1. \A u \in (InAudit \ {t}) \cup {t} : u \in Threads /\ frame[u].call \in DOMAIN calls
  BY PlacedIs DEF InAudit, Active
<1> QED BY <1>1 DEF Meets, Base, SharedInv

LEMMA QuietBase ==
    ASSUME Base, NEW t \in Threads, Within(t), UNCHANGED sharedVars, Placed(t)'
    PROVE  Base'
<1>1. SharedInv' /\ entries' = entries /\ Len(entries) \in Nat
  BY SharedSame DEF Base, Within, SharedInv
<1> QED BY <1>1, WithinBase

(* The actions of a thread in the middle of a call.                        *)
Going(t) == Step(t) /\ ~Return(t)

LEMMA GoingBase ==
    ASSUME Base, NEW t \in Threads, Going(t)
    PROVE  Base' /\ Within(t)
<1>1. /\ SharedInv /\ Len(entries) \in Nat /\ DOMAIN entries = 1 .. Len(entries) /\ now \in Nat
      /\ entries \in Seq(EntryRecs) /\ archive \in Seq(Nat)
  BY DEF Base, SharedInv
<1>2. CASE Bottom(t)
  BY <1>2, BottomIs, RisesPlaced, QuietBase DEF Bottom, sharedVars, auditVars
<1>3. CASE Policy(t)
  <2>1. UNCHANGED sharedVars
    BY <1>3 DEF Policy, sharedVars, auditVars
  <2>2. Within(t) /\ AtHandler(t, "policy") /\ (Sinks(t, {}) \/ \E o : Rises(t, o))
    BY <1>3, PolicyIs
  <2>3. Placed(t)'
    BY <2>2, RisesPlaced, SinksPlaced
  <2> QED BY <2>1, <2>2, <2>3, QuietBase
<1>4. CASE DryRun(t)
  BY <1>4, DryRunIs, RisesPlaced, SinksPlaced, QuietBase DEF DryRun, sharedVars, auditVars
<1>5. CASE CacheLookup(t)
  BY <1>5, CacheLookupIs, RisesPlaced, SinksPlaced, QuietBase DEF CacheLookup, sharedVars, auditVars
<1>6. CASE CacheStore(t)
  <2>1. Within(t) /\ Placed(t)' /\ Active(t) /\ frame[t].out \in Outcomes
    BY <1>6, CacheStoreIs, RisesPlaced, PlacedIs DEF Within
  <2>2. \/ cached' = cached
        \/ /\ ~Raised(frame[t].out)
           /\ cached' = [k \in DOMAIN cached \cup {frame[t].key} |->
                            IF k = frame[t].key THEN frame[t].out ELSE cached[k]]
    BY <1>6 DEF CacheStore
  <2>3. frame[t].key \in Keys
    <3>1. Inside(t, "cache")
      BY <1>6, CacheStoreIs DEF AtHandler, Inside
    <3> QED BY <2>1, <3>1 DEF Within, Placed
  <2>4. /\ DOMAIN cached' \subseteq Keys
        /\ \A k \in DOMAIN cached' : cached'[k] \in Outcomes /\ ~Raised(cached'[k])
    BY <1>1, <2>1, <2>2, <2>3 DEF SharedInv
  <2>5. UNCHANGED <<now, entries, currentOp, archive, contended, bucket>> /\ DOMAIN calls' = DOMAIN calls
    BY <1>6, <2>1 DEF CacheStore, auditVars, Within
  <2>6. SharedInv' /\ Len(entries) <= Len(entries')
    BY <1>1, <2>4, <2>5 DEF SharedInv
  <2> QED BY <2>1, <2>6, WithinBase
<1>7. CASE RetryEnter(t)
  BY <1>7, RetryEnterIs, SinksPlaced, QuietBase DEF RetryEnter, sharedVars, auditVars
<1>8. CASE RetryLeave(t)
  <2>1. UNCHANGED sharedVars
    BY <1>8 DEF RetryLeave, sharedVars, auditVars
  <2>2. CASE /\ frame[t].out = "transient" /\ ~LastAttempt(frame[t])
             /\ Stays(t, "backoff", {"time"})
    <3>1. frame'[t].out = "transient" /\ Within(t) /\ AtHandler(t, "retry")
      BY <1>8, <2>2, RetryLeaveIs DEF Stays, Alike
    <3> QED BY <2>1, <2>2, <3>1, StaysPlaced, QuietBase
  <2> QED BY <1>8, <2>1, <2>2, RetryLeaveIs, RisesPlaced, QuietBase
<1>9. CASE RetryAgain(t)
  BY <1>9, RetryAgainIs, SinksPlaced, QuietBase DEF RetryAgain, sharedVars, auditVars
<1>10. CASE RateClock(t)
  <2>1. UNCHANGED sharedVars
    BY <1>10 DEF RateClock, sharedVars, auditVars
  <2> QED BY <1>1, <1>10, <2>1, RateClockIs, StaysPlaced, QuietBase
<1>11. CASE RateTake(t)
  <2>1. Within(t) /\ AtHandler(t, "rate-limit") /\ frame[t].phase = "bucket" /\ Placed(t)'
    BY <1>11, RateTakeIs, SinksPlaced, StaysPlaced
  <2>2. frame[t].time \in Nat
    BY <2>1 DEF AtHandler, Placed
  <2>3. bucket' = [tokens |-> Left(Refilled(frame[t].time)), last |-> frame[t].time]
    BY <1>11 DEF RateTake
  <2>4. bucket'.tokens \in 0 .. Capacity * TokenCost /\ bucket'.last \in {NoRead} \cup Nat
    BY <2>2, <2>3, BucketIs
  <2>5. UNCHANGED <<now, entries, currentOp, archive, contended, cached>> /\ DOMAIN calls' = DOMAIN calls
    BY <1>11, <2>1 DEF RateTake, auditVars, Within
  <2>6. SharedInv' /\ Len(entries) <= Len(entries')
    BY <1>1, <2>4, <2>5 DEF SharedInv
  <2> QED BY <2>1, <2>6, WithinBase
<1>12. CASE RateSlept(t)
  BY <1>12, RateSleptIs, SinksPlaced, QuietBase DEF RateSlept, sharedVars, auditVars
<1>13. CASE \E o \in {"result", "transient", "fatal"} : Raw(t, o)
  BY <1>13, RawIs, RisesPlaced, QuietBase DEF Raw, sharedVars, auditVars
<1>14. CASE AuditEnter(t)
  <2>1. Within(t) /\ AtHandler(t, "audit") /\ Placed(t)' /\ Active(t)
    BY <1>14, AuditEnterIs, StaysPlaced DEF Within
  <2>2. currentOp' \in Ops /\ contended' \subseteq DOMAIN calls
    BY <1>14, <2>1, PlacedIs, MeetsKeeps DEF AuditEnter, CallRecs
  <2>3. UNCHANGED <<now, entries, archive, cached, bucket>> /\ DOMAIN calls' = DOMAIN calls
    BY <1>14, <2>1 DEF AuditEnter, Within
  <2>4. SharedInv' /\ Len(entries) <= Len(entries')
    BY <1>1, <2>2, <2>3 DEF SharedInv
  <2> QED BY <2>1, <2>4, WithinBase
<1>15. CASE AuditReadOp(t)
  BY <1>15, AuditReadOpIs, SinksPlaced, QuietBase DEF AuditReadOp, sharedVars, auditVars
<1>16. CASE AuditReadHead(t)
  <2>1. UNCHANGED <<now, entries, currentOp, archive, cached, bucket>>
    BY <1>16 DEF AuditReadHead
  <2>2. Within(t) /\ AtHandler(t, "audit") /\ Placed(t)' /\ Active(t) /\ DOMAIN calls' = DOMAIN calls
    <3>1. Within(t) /\ AtHandler(t, "audit") /\ Stays(t, "audit-append", {"prev"}) /\ frame'[t].prev = Len(entries)
      BY <1>16, AuditReadHeadIs
    <3>2. frame'[t].prev <= Len(entries)'
      BY <1>1, <2>1, <3>1
    <3>3. Placed(t)'
      BY <3>1, <3>2, StaysPlaced
    <3> QED BY <3>1, <3>3 DEF Within
  <2>3. contended' \subseteq DOMAIN calls
    BY <1>16, <2>2, MeetsKeeps DEF AuditReadHead
  <2>4. SharedInv' /\ Len(entries) <= Len(entries')
    BY <1>1, <2>1, <2>2, <2>3 DEF SharedInv
  <2> QED BY <2>2, <2>4, WithinBase
<1>17. CASE AuditAppend(t)
  <2>1. Within(t) /\ AtHandler(t, "audit") /\ frame[t].phase = "audit-append" /\ Placed(t)' /\ Active(t)
    BY <1>17, AuditAppendIs, RisesPlaced, StaysPlaced DEF Within
  <2>2. entries' = Append(entries, Entry(frame[t])) /\ UNCHANGED <<now, currentOp, archive, contended, cached, bucket>>
    BY <1>17 DEF AuditAppend
  <2>3. /\ Entry(frame[t]) \in EntryRecs /\ Entry(frame[t]).call \in DOMAIN calls
        /\ Entry(frame[t]).prev < Len(entries) + 1
    <3>1. frame[t].prev <= Len(entries) /\ frame[t].prev \in Nat
      BY <2>1, StackIs DEF AtHandler, Placed, IsFrame, Frames
    <3> QED BY <1>1, <2>1, <3>1, EntryIs DEF AtHandler
  <2> DEFINE e == Entry(frame[t])
  <2> HIDE DEF e
  <2>4. /\ entries' \in Seq(EntryRecs) /\ Len(entries) <= Len(entries')
        /\ \A i \in DOMAIN entries' : entries'[i].call \in DOMAIN calls /\ entries'[i].prev < i
    <3>1. entries' = Append(entries, e) /\ e \in EntryRecs /\ e.call \in DOMAIN calls /\ e.prev < Len(entries) + 1
      BY <2>2, <2>3 DEF e
    <3>2. \A i \in DOMAIN entries : entries[i].call \in DOMAIN calls /\ entries[i].prev < i
      BY <1>1 DEF SharedInv
    <3> QED BY <1>1, <3>1, <3>2
  <2>5. SharedInv'
    BY <1>1, <2>1, <2>2, <2>4 DEF SharedInv, Within
  <2> QED BY <2>1, <2>4, <2>5, WithinBase
<1>18. CASE AuditSink(t)
  <2>1. Within(t) /\ AtHandler(t, "audit") /\ Placed(t)' /\ frame[t].call \in DOMAIN calls
    BY <1>18, AuditSinkIs, RisesPlaced DEF AtHandler
  <2>2. /\ archive' = Append(archive, frame[t].call) \/ archive' = archive
        /\ UNCHANGED <<now, entries, currentOp, contended, cached, bucket>>
    BY <1>18 DEF AuditSink
  <2>3. /\ archive' \in Seq(Nat) /\ \A i \in DOMAIN archive' : archive'[i] \in DOMAIN calls
    <3> DEFINE c == frame[t].call
    <3>1. archive' = Append(archive, c) \/ archive' = archive
      BY <2>2
    <3>2. c \in Nat /\ c \in DOMAIN calls
      BY <2>1, StackIs
    <3> HIDE DEF c
    <3>3. \A i \in DOMAIN archive : archive[i] \in DOMAIN calls
      BY <1>1 DEF SharedInv
    <3>4. CASE archive' = archive
      BY <1>1, <3>3, <3>4
    <3>5. CASE archive' = Append(archive, c)
      <4>1. archive \in Seq(Nat)
        BY <1>1
      <4>2. archive' \in Seq(Nat) /\ Len(archive') = Len(archive) + 1
        BY <3>2, <3>5, <4>1
      <4>3. \A i \in DOMAIN archive' : archive'[i] = IF i = Len(archive) + 1 THEN c ELSE archive[i]
        BY <3>2, <3>5, <4>1
      <4>4. \A i \in DOMAIN archive' : i = Len(archive) + 1 \/ i \in DOMAIN archive
        BY <3>2, <3>5, <4>1
      <4>5. \A i \in DOMAIN archive' : archive'[i] \in DOMAIN calls
        BY <3>2, <3>3, <4>3, <4>4
      <4> QED BY <4>2, <4>5
    <3> QED BY <3>1, <3>4, <3>5
  <2>4. SharedInv' /\ Len(entries) <= Len(entries')
    BY <1>1, <2>1, <2>2, <2>3 DEF SharedInv, Within
  <2> QED BY <2>1, <2>4, WithinBase
<1> QED BY <1>2, <1>3, <1>4, <1>5, <1>6, <1>7, <1>8, <1>9, <1>10, <1>11, <1>12, <1>13,
           <1>14, <1>15, <1>16, <1>17, <1>18 DEF Going, Step

LEMMA BeginsKeeps ==
    ASSUME Base, NEW t \in Threads, Begins(t)
    PROVE  LET n == Len(calls) + 1 IN
           /\ Active(t)' /\ frame'[t].call = n /\ Current(t)' = calls'[n] /\ n \notin DOMAIN calls
           /\ DOMAIN calls' = DOMAIN calls \cup {n}
           /\ \A c \in DOMAIN calls : calls'[c] = calls[c] /\ \A h : Passes(c, h)' <=> Passes(c, h)
           /\ \A h : ~Inside(t, h)' /\ Before(t, h)'
           /\ \A u \in Threads : u # t =>
                 /\ frame'[u] = frame[u] /\ (Active(u)' <=> Active(u))
                 /\ Active(u) => /\ frame[u].call \in DOMAIN calls /\ Current(u)' = Current(u)
                                 /\ \A h : Inside(u, h)' <=> Inside(u, h)
<1> DEFINE n == Len(calls) + 1
<1>1. /\ frame'[t].phase = "down" /\ frame'[t].call = n /\ n \notin DOMAIN calls
      /\ DOMAIN calls' = DOMAIN calls \cup {n} /\ stack' = stack
      /\ \A i \in calls'[n].names : frame'[t].at <= i
      /\ calls'[n].names \subseteq DOMAIN stack /\ frame'[t].at \in calls'[n].names
      /\ \A c \in DOMAIN calls : calls'[c] = calls[c]
      /\ \A u \in Threads : u # t => frame'[u] = frame[u]
  BY DEF Begins
<1>2. \A i \in DOMAIN stack : i \in Nat
  BY StackIs
<1> HIDE DEF n
<1>3. Current(t)' = calls'[n]
  BY <1>1 DEF Current
<1>4. \A h : ~Inside(t, h)' /\ Before(t, h)'
  BY <1>1, <1>2, <1>3 DEF Inside, Before
<1>5. \A c \in DOMAIN calls : \A h : Passes(c, h)' <=> Passes(c, h)
  BY <1>1 DEF Passes
<1>6. ASSUME NEW u \in Threads, u # t
      PROVE  /\ frame'[u] = frame[u] /\ (Active(u)' <=> Active(u))
             /\ Active(u) => /\ frame[u].call \in DOMAIN calls /\ Current(u)' = Current(u)
                             /\ \A h : Inside(u, h)' <=> Inside(u, h)
  <2>1. frame'[u] = frame[u] /\ (Active(u)' <=> Active(u))
    BY <1>1, <1>6 DEF Active
  <2>2. Active(u) => frame[u].call \in DOMAIN calls
    BY PlacedIs
  <2>3. Active(u) => Current(u)' = Current(u)
    BY <1>1, <2>1, <2>2 DEF Current
  <2> QED BY <1>1, <2>1, <2>2, <2>3 DEF Inside
<1> QED BY <1>1, <1>3, <1>4, <1>5, <1>6 DEF Active, n

LEMMA BeginsBase ==
    ASSUME Base, NEW t \in Threads, Begins(t)
    PROVE  Base'
<1> DEFINE n == Len(calls) + 1
<1>1. /\ Active(t)' /\ frame'[t].call = n /\ Current(t)' = calls'[n] /\ n \notin DOMAIN calls
      /\ DOMAIN calls' = DOMAIN calls \cup {n}
      /\ \A c \in DOMAIN calls : calls'[c] = calls[c] /\ \A h : Passes(c, h)' <=> Passes(c, h)
      /\ ~Inside(t, "cache")'
      /\ \A u \in Threads : u # t =>
            /\ frame'[u] = frame[u] /\ (Active(u)' <=> Active(u))
            /\ Active(u) => /\ frame[u].call \in DOMAIN calls /\ Current(u)' = Current(u)
                            /\ \A h : Inside(u, h)' <=> Inside(u, h)
  BY BeginsKeeps
<1>2. /\ stack' = stack /\ masks' = masks /\ UNCHANGED sharedVars /\ frame'[t].phase = "down"
      /\ frame'[t].at \in calls'[n].names /\ calls'[n].end = "open" /\ calls'[n].before = Ended
      /\ calls'[n].names \subseteq DOMAIN stack /\ calls'[n].names # {} /\ Len(calls') = n
      /\ \A h \in Handlers : Through(Len(calls), h)' <=> \E i \in calls'[n].names : stack[i] = h
  BY DEF Begins, sharedVars, auditVars
<1>3. TypeInv'
  <2>1. /\ DOMAIN frame' = Threads /\ IsFrame(frame'[t]) /\ calls' \in Seq(CallRecs) /\ n <= MaxCalls
    BY DEF Begins
  <2>2. \A u \in Threads : IsFrame(frame'[u]) /\ (frame'[u].phase = "idle" => frame'[u].call = 0)
    BY <1>1, <1>2, <2>1 DEF Base, TypeInv
  <2> QED BY <1>2, <2>1, <2>2 DEF Base, TypeInv
<1>4. SharedInv'
  BY <1>1, <1>2, SharedSame DEF Base
<1> HIDE DEF n
<1>5. ASSUME NEW u \in Threads PROVE Placed(u)'
  <2>1. CASE u = t
    BY <1>1, <1>2, <2>1 DEF Placed
  <2>2. CASE u # t
    <3>1. Placed(u) /\ entries' = entries
      BY <1>2 DEF Base, sharedVars
    <3> QED BY <1>1, <1>2, <2>2, <3>1 DEF Placed
  <2> QED BY <2>1, <2>2
<1>6. Apart'
  BY <1>1 DEF Base, Apart
<1>7. ASSUME NEW c \in DOMAIN calls' PROVE CallOK(c)'
  <2>1. CASE c \in DOMAIN calls
    <3>1. CallOK(c) /\ Kept(calls[c], calls'[c])
      BY <1>1, <2>1 DEF Base, Kept
    <3>2. \A h : Through(c, h)' <=> Through(c, h)
      BY <1>2, <3>1, ThroughKept
    <3> QED BY <1>1, <1>2, <2>1, <3>1, <3>2 DEF CallOK
  <2>2. CASE c = n
    <3>1. \A h \in Handlers : Through(c, h)' <=> Passes(c, h)'
      BY <1>2, <2>2 DEF Passes
    <3>2. \A d \in calls'[c].before : d \in DOMAIN calls' /\ calls'[d].end # "open"
      BY <1>1, <1>2, <2>2 DEF Ended
    <3> QED BY <1>2, <2>2, <3>1, <3>2 DEF CallOK
  <2> QED BY <1>1, <2>1, <2>2
<1> QED BY <1>3, <1>4, <1>5, <1>6, <1>7 DEF Base

LEMMA ReturnsKeeps ==
    ASSUME Base, NEW t \in Threads, Returns(t)
    PROVE  /\ ~Active(t)' /\ frame[t].call \in DOMAIN calls
           /\ \A c \in DOMAIN calls : \A h : Passes(c, h)' <=> Passes(c, h)
           /\ \A u \in Threads : u # t =>
                 /\ frame'[u] = frame[u] /\ (Active(u)' <=> Active(u))
                 /\ Active(u) => /\ frame[u].call \in DOMAIN calls /\ frame[u].call # frame[t].call
                                 /\ Current(u)' = Current(u)
                                 /\ \A h : Inside(u, h)' <=> Inside(u, h)
<1>1. ~Active(t)' /\ frame[t].call \in DOMAIN calls /\ stack' = stack
  BY PlacedIs DEF Returns, Active, Idle
<1>2. \A c \in DOMAIN calls : \A h : Passes(c, h)' <=> Passes(c, h)
  BY <1>1 DEF Passes, Returns
<1>3. ASSUME NEW u \in Threads, u # t
      PROVE  /\ frame'[u] = frame[u] /\ (Active(u)' <=> Active(u))
             /\ Active(u) => /\ frame[u].call \in DOMAIN calls /\ frame[u].call # frame[t].call
                             /\ Current(u)' = Current(u)
                             /\ \A h : Inside(u, h)' <=> Inside(u, h)
  <2>1. frame'[u] = frame[u] /\ (Active(u)' <=> Active(u))
    BY <1>3 DEF Active, Returns
  <2>2. Active(u) => frame[u].call \in DOMAIN calls /\ frame[u].call # frame[t].call
    BY <1>3, PlacedIs DEF Returns, Base, Apart
  <2>3. Active(u) => Current(u)' = Current(u)
    BY <2>1, <2>2 DEF Current, Returns
  <2> QED BY <1>1, <2>1, <2>2, <2>3 DEF Inside
<1> QED BY <1>1, <1>2, <1>3

LEMMA ReturnsBase ==
    ASSUME Base, NEW t \in Threads, Returns(t)
    PROVE  Base'
<1>1. /\ ~Active(t)' /\ frame[t].call \in DOMAIN calls
      /\ \A c \in DOMAIN calls : \A h : Passes(c, h)' <=> Passes(c, h)
      /\ \A u \in Threads : u # t =>
            /\ frame'[u] = frame[u] /\ (Active(u)' <=> Active(u))
            /\ Active(u) => /\ frame[u].call \in DOMAIN calls /\ frame[u].call # frame[t].call
                            /\ Current(u)' = Current(u)
                            /\ \A h : Inside(u, h)' <=> Inside(u, h)
  BY ReturnsKeeps
<1>2. stack' = stack /\ masks' = masks /\ UNCHANGED sharedVars /\ DOMAIN calls' = DOMAIN calls
  BY DEF Returns, sharedVars, auditVars
<1>3. TypeInv'
  <2>1. \A u \in Threads : IsFrame(frame'[u]) /\ (frame'[u].phase = "idle" => frame'[u].call = 0)
    <3>1. IsFrame(frame'[t]) /\ frame'[t].call = 0
      BY IdleIs DEF Returns, Idle
    <3> QED BY <1>1, <3>1 DEF Base, TypeInv
  <2> QED BY <1>2, <2>1 DEF Base, TypeInv, Returns
<1>4. SharedInv'
  BY <1>2, SharedSame DEF Base
<1>5. ASSUME NEW u \in Threads PROVE Placed(u)'
  <2>1. CASE u = t
    BY <1>1, <2>1 DEF Placed
  <2>2. CASE u # t
    <3>1. Placed(u) /\ entries' = entries
      BY <1>2 DEF Base, sharedVars
    <3> QED BY <1>1, <1>2, <2>2, <3>1 DEF Placed
  <2> QED BY <2>1, <2>2
<1>6. Apart'
  BY <1>1 DEF Base, Apart
<1>7. ASSUME NEW c \in DOMAIN calls' PROVE CallOK(c)'
  <2>1. CallOK(c) /\ c \in DOMAIN calls
    BY <1>2 DEF Base
  <2>2. \A h : Through(c, h)' <=> Through(c, h)
    BY <1>2, <2>1 DEF Through, Covers, Returns
  <2>3. \A d \in DOMAIN calls : calls[d].end # "open" => calls'[d].end # "open"
    BY DEF Returns
  <2> QED BY <1>1, <1>2, <2>1, <2>2, <2>3 DEF CallOK, Returns
<1> QED BY <1>3, <1>4, <1>5, <1>6, <1>7 DEF Base

(* Time passes, masks come and go, or nothing happens.                     *)
Aside == /\ stack' = stack /\ frame' = frame /\ calls' = calls
         /\ UNCHANGED <<entries, currentOp, archive, contended, cached, bucket>>

LEMMA AsideBase ==
    ASSUME Base, Aside, now' \in Nat, masks' \in [Threads -> Seq(MaskSets)],
           \A t \in Threads : Len(masks'[t]) <= MaxMasks
    PROVE  Base'
<1>1. TypeInv' /\ SharedInv'
  BY DEF Base, TypeInv, SharedInv, Aside
<1>2. \A t \in Threads : Placed(t)'
  BY DEF Base, Placed, Aside, Active, Current, Inside
<1>3. Apart'
  BY DEF Base, Apart, Aside, Active
<1>4. \A c \in DOMAIN calls : CallOK(c)'
  <2> TAKE c \in DOMAIN calls
  <2>1. \A h : Through(c, h)' <=> Through(c, h)
    BY ThroughKept DEF Aside, Kept
  <2> QED BY <2>1 DEF Base, CallOK, Aside, Passes
<1> QED BY <1>1, <1>2, <1>3, <1>4 DEF Base, Aside

LEMMA NextIs ==
    ASSUME Base, [Next]_vars
    PROVE  Base' /\ (Aside \/ \E t \in Threads : Going(t) \/ Begins(t) \/ Returns(t))
<1>1. now \in Nat /\ masks \in [Threads -> Seq(MaskSets)] /\ \A t \in Threads : Len(masks[t]) <= MaxMasks
  BY DEF Base, TypeInv, SharedInv
<1>2. CASE UNCHANGED vars
  <2>1. Aside /\ now' = now /\ masks' = masks
    BY <1>2 DEF vars, auditVars, Aside
  <2> QED BY <1>1, <2>1, AsideBase
<1>3. CASE Tick
  <2>1. Aside /\ now' = now + 1 /\ masks' = masks
    BY <1>3 DEF Tick, auditVars, Aside
  <2> QED BY <1>1, <2>1, AsideBase
<1>4. ASSUME NEW t \in Threads, Step(t)
      PROVE  Base' /\ (Going(t) \/ Returns(t))
  BY <1>4, GoingBase, ReturnIs, ReturnsBase DEF Going
<1>5. ASSUME NEW t \in Threads, NEW names \in MaskSets, Mask(t, names)
      PROVE  Base' /\ Aside
  <2>1. Aside /\ now' = now
    BY <1>5 DEF Mask, auditVars, Aside
  <2>2. Len(masks[t]) < MaxMasks /\ masks' = [masks EXCEPT ![t] = Append(masks[t], names)]
    BY <1>5, Zenon DEF Mask
  <2>3. /\ Append(masks[t], names) \in Seq(MaskSets)
        /\ Len(Append(masks[t], names)) = Len(masks[t]) + 1 /\ Len(masks[t]) \in Nat
    BY <1>1
  <2>4. MaxMasks \in Nat
    BY EffectConstantsOK
  <2>5. masks' \in [Threads -> Seq(MaskSets)] /\ \A u \in Threads : Len(masks'[u]) <= MaxMasks
    BY <1>1, <2>2, <2>3, <2>4
  <2> QED BY <1>1, <2>1, <2>5, AsideBase
<1>6. ASSUME NEW t \in Threads, Unmask(t)
      PROVE  Base' /\ Aside
  <2>1. Aside /\ now' = now
    BY <1>6 DEF Unmask, auditVars, Aside
  <2>2. masks[t] # <<>> /\ masks' = [masks EXCEPT ![t] = Front(masks[t])]
    BY <1>6, Zenon DEF Unmask
  <2>3. /\ Front(masks[t]) \in Seq(MaskSets)
        /\ Len(Front(masks[t])) = Len(masks[t]) - 1 /\ Len(masks[t]) \in Nat
    <3> DEFINE q == masks[t]
    <3>1. q \in Seq(MaskSets) /\ q # <<>>
      BY <1>1, <2>2
    <3> HIDE DEF q
    <3>2. Len(q) \in Nat /\ Len(q) # 0 /\ Front(q) = [i \in 1 .. Len(q) - 1 |-> q[i]]
      BY <3>1 DEF Front
    <3> QED BY <3>1, <3>2 DEF q
  <2>4. MaxMasks \in Nat
    BY EffectConstantsOK
  <2>5. masks' \in [Threads -> Seq(MaskSets)] /\ \A u \in Threads : Len(masks'[u]) <= MaxMasks
    BY <1>1, <2>2, <2>3, <2>4
  <2> QED BY <1>1, <2>1, <2>5, AsideBase
<1>7. ASSUME NEW t \in Threads, NEW o \in Ops, NEW a \in Args,
             \/ \E link \in Links : Perform(t, o, a, link)
             \/ \E p \in DOMAIN stack : Named(t, p, o, a)
      PROVE  Base' /\ Begins(t)
  BY <1>7, PerformIs, NamedIs, BeginsBase
<1> QED BY <1>2, <1>3, <1>4, <1>5, <1>6, <1>7 DEF Next, Finished, Request

LEMMA InitBase == Init => Base
<1> SUFFICES ASSUME Init PROVE Base
  OBVIOUS
<1>1. Capacity * TokenCost \in 0 .. Capacity * TokenCost
  <2>1. Capacity \in Nat /\ TokenCost \in Nat
    BY EffectConstantsOK
  <2>2. Capacity * TokenCost \in Nat
    BY <2>1
  <2> QED BY <2>2
<1>2. TypeInv
  <2>1. \A t \in Threads : IsFrame(frame[t]) /\ frame[t].call = 0
    BY IdleIs DEF Init, Idle
  <2> QED BY <2>1, EffectConstantsOK DEF Init, TypeInv
<1>3. SharedInv
  BY <1>1 DEF Init, SharedInv
<1>4. \A t \in Threads : ~Active(t)
  BY DEF Init, Active, Idle
<1> QED BY <1>2, <1>3, <1>4 DEF Base, Placed, Apart, Init

-----------------------------------------------------------------------------
(* Above a handler, still and no longer.                                   *)
LEMMA BeforeSinks ==
    ASSUME Base, NEW t \in Threads, Within(t), NEW g, AtHandler(t, g), NEW S, Sinks(t, S), NEW h, h # g,
           Before(t, h)
    PROVE  Before(t, h)'
<1>1. Current(t)'.names = Current(t).names /\ stack' = stack /\ Current(t).names \subseteq Nat /\ frame[t].at \in Nat
  BY WithinKeeps, PlacedIs, SMTT(20) DEF Kept, Within
<1>2. \A i \in Current(t).names : stack[i] = h => frame[t].at < i
  BY <1>1 DEF Before, AtHandler
<1> QED BY <1>1, <1>2 DEF Before, Sinks, GoesBelow

LEMMA BeforeRises ==
    ASSUME Base, NEW t \in Threads, Within(t), NEW o, Rises(t, o), NEW h, Before(t, h)
    PROVE  Before(t, h)'
<1>1. Current(t)'.names = Current(t).names /\ stack' = stack /\ Current(t).names \subseteq Nat /\ frame[t].at \in Nat
  BY WithinKeeps, PlacedIs, SMTT(20) DEF Kept, Within
<1> QED BY <1>1 DEF Before, Rises, GoesAbove

LEMMA BeforeStays ==
    ASSUME Base, NEW t \in Threads, Within(t), NEW p, NEW S, "at" \notin S, Stays(t, p, S), NEW h, Before(t, h)
    PROVE  Before(t, h)'
<1>1. Current(t)'.names = Current(t).names /\ stack' = stack
  BY WithinKeeps DEF Kept, Within
<1> QED BY <1>1 DEF Before, Stays, Alike

LEMMA NotBelow ==
    ASSUME Base, NEW t \in Threads, NEW g, AtHandler(t, g), NEW h, Over(stack, h, g),
           Passes(frame[t].call, h)
    PROVE  ~Before(t, h) /\ Inside(t, h)
<1>1. PICK i \in Current(t).names : stack[i] = h
  BY DEF Passes, Current
<1>2. i \in DOMAIN stack /\ i \in Nat /\ frame[t].at \in Nat /\ frame[t].at \in DOMAIN stack /\ stack[frame[t].at] = g
  BY PlacedIs, StackIs DEF AtHandler
<1>3. i < frame[t].at
  BY <1>1, <1>2 DEF Over
<1> QED BY <1>1, <1>2, <1>3 DEF Before, Inside

-----------------------------------------------------------------------------
LEMMA RefusedSame ==
    ASSUME NEW c, calls'[c].op = calls[c].op, calls'[c].args = calls[c].args,
           calls'[c].approved = calls[c].approved, Passes(c, "policy")' <=> Passes(c, "policy")
    PROVE  Refused(c)' <=> Refused(c)
<1>1. Evaluate(calls'[c].op, calls'[c].args) = Evaluate(calls[c].op, calls[c].args)
  OBVIOUS
<1>2. Refused(c)' <=> /\ Passes(c, "policy")' /\ ~calls'[c].approved
                      /\ Evaluate(calls'[c].op, calls'[c].args) # "allow"
  BY DEF Refused, Evaluate
<1> QED BY <1>1, <1>2 DEF Refused

(* A refused call stays above policy, whatever its thread does next.       *)
LEMMA GateGoing ==
    ASSUME PolicyFirst, Base, GateInv, NEW t \in Threads, Going(t), Within(t), Refused(frame[t].call)'
    PROVE  /\ Before(t, "policy")' /\ (Returning(t)' => frame'[t].out \notin Served)
           /\ Gains(t, 0, 0) /\ Refused(frame[t].call)
<1> DEFINE Goal == /\ Before(t, "policy")' /\ (Returning(t)' => frame'[t].out \notin Served)
                   /\ Gains(t, 0, 0) /\ Refused(frame[t].call)
<1>1. /\ Active(t) /\ frame[t].call \in DOMAIN calls /\ Current(t) \in CallRecs
      /\ Kept(Current(t), calls'[frame[t].call]) /\ frame'[t].call = frame[t].call
      /\ \A h : Passes(frame[t].call, h)' <=> Passes(frame[t].call, h)
  BY WithinKeeps, PlacedIs DEF Within
<1>2. /\ Passes(frame[t].call, "policy") /\ calls'[frame[t].call].approved = FALSE
      /\ Evaluate(Current(t).op, Current(t).args) # "allow"
  <2>1. /\ Passes(frame[t].call, "policy") /\ ~calls'[frame[t].call].approved
        /\ Evaluate(Current(t).op, Current(t).args) # "allow"
    BY <1>1 DEF Refused, Kept, Evaluate, Current
  <2>2. calls'[frame[t].call] \in CallRecs
    BY <1>1 DEF Within
  <2> QED BY <2>1, <2>2 DEF CallRecs
<1>3. ASSUME calls'[frame[t].call].approved = Current(t).approved
      PROVE  /\ Before(t, "policy") /\ (Returning(t) => frame[t].out \notin Served)
             /\ Refused(frame[t].call)
             /\ \A g \in {"dry-run", "cache", "rate-limit", "raw"} : ~AtHandler(t, g)
  <2>1. Refused(frame[t].call)
    BY <1>2, <1>3 DEF Refused, Current
  <2>2. Before(t, "policy") /\ (Returning(t) => frame[t].out \notin Served)
    BY <1>1, <2>1 DEF GateInv, GateFrame
  <2>3. \A g \in {"dry-run", "cache", "rate-limit", "raw"} : Over(stack, "policy", g)
    BY DEF PolicyFirst, Base, TypeInv
  <2> QED BY <1>2, <2>1, <2>2, <2>3, NotBelow
<1>4. ASSUME NEW o, Rises(t, o), o \notin Served, calls'[frame[t].call].approved = Current(t).approved, Gains(t, 0, 0)
      PROVE  Goal
  BY <1>3, <1>4, BeforeRises DEF Rises
<1>5. ASSUME NEW g \in {"audit", "retry"}, AtHandler(t, g), NEW S, Sinks(t, S), Gains(t, 0, 0),
             calls'[frame[t].call].approved = Current(t).approved
      PROVE  Goal
  BY <1>3, <1>5, BeforeSinks DEF Sinks, Returning
<1>6. CASE Bottom(t)
  BY <1>4, <1>6, BottomIs DEF Served
<1>7. CASE Policy(t)
  <2>1. /\ Gains(t, 0, 0) /\ frame[t].phase = "down"
        /\ \/ Evaluate(Current(t).op, Current(t).args) = "allow"
           \/ calls'[frame[t].call].approved = TRUE
           \/ /\ calls'[frame[t].call] = Current(t)
              /\ \E o \in {"denied", "silent", "unapproved"} : Rises(t, o)
    BY <1>7, PolicyIs
  <2> QED BY <1>2, <1>4, <2>1 DEF Served
<1>8. CASE DryRun(t) \/ CacheLookup(t) \/ CacheStore(t) \/ RateClock(t) \/ RateTake(t) \/ RateSlept(t)
           \/ \E o \in {"result", "transient", "fatal"} : Raw(t, o)
  <2>1. /\ \E g \in {"dry-run", "cache", "rate-limit", "raw"} : AtHandler(t, g)
        /\ calls'[frame[t].call].approved = Current(t).approved
    BY <1>8, DryRunIs, CacheLookupIs, CacheStoreIs, RateClockIs, RateTakeIs, RateSleptIs, RawIs
  <2> QED BY <1>3, <2>1
<1>9. CASE RetryEnter(t) \/ RetryAgain(t) \/ AuditReadOp(t)
  BY <1>5, <1>9, RetryEnterIs, RetryAgainIs, AuditReadOpIs
<1>10. CASE RetryLeave(t)
  <2>1. /\ frame[t].phase = "up" /\ Gains(t, 0, 0) /\ calls'[frame[t].call] = Current(t)
        /\ Rises(t, frame[t].out) \/ Stays(t, "backoff", {"time"})
    BY <1>10, RetryLeaveIs
  <2>2. frame[t].out \notin Served /\ Before(t, "policy") /\ Refused(frame[t].call)
    BY <1>3, <2>1 DEF Returning
  <2>3. CASE Stays(t, "backoff", {"time"})
    <3>1. Before(t, "policy")'
      BY <2>2, <2>3, BeforeStays
    <3> QED BY <2>1, <2>2, <2>3, <3>1 DEF Stays, Returning
  <2> QED BY <1>4, <2>1, <2>2, <2>3
<1>11. CASE AuditEnter(t) \/ AuditReadHead(t)
  <2>1. /\ Gains(t, 0, 0) /\ calls'[frame[t].call] = Current(t)
        /\ \/ Stays(t, "audit-op", {"lifted", "link"})
           \/ frame[t].phase = "up" /\ Stays(t, "audit-append", {"prev"})
    BY <1>11, AuditEnterIs, AuditReadHeadIs
  <2>2. /\ Before(t, "policy") /\ (Returning(t) => frame[t].out \notin Served)
        /\ Refused(frame[t].call)
    BY <1>3, <2>1
  <2>3. Before(t, "policy")'
    BY <2>1, <2>2, BeforeStays
  <2> QED BY <2>1, <2>2, <2>3 DEF Stays, Alike, Returning
<1>12. CASE AuditAppend(t) \/ AuditSink(t)
  <2>1. /\ Gains(t, 0, 0) /\ calls'[frame[t].call] = Current(t) /\ Returning(t)
        /\ Stays(t, "audit-sink", {}) \/ Rises(t, frame[t].out) \/ Rises(t, "sink")
    BY <1>12, AuditAppendIs, AuditSinkIs DEF Returning
  <2>2. frame[t].out \notin Served /\ Before(t, "policy") /\ "sink" \notin Served /\ Refused(frame[t].call)
    BY <1>3, <2>1 DEF Served
  <2>3. CASE Stays(t, "audit-sink", {})
    <3>1. Before(t, "policy")'
      BY <2>2, <2>3, BeforeStays
    <3> QED BY <2>1, <2>2, <2>3, <3>1 DEF Stays, Alike
  <2> QED BY <1>4, <2>1, <2>2, <2>3
<1> QED BY <1>6, <1>7, <1>8, <1>9, <1>10, <1>11, <1>12 DEF Going, Step

LEMMA GateStep ==
    ASSUME PolicyFirst, Base, GateInv, [Next]_vars
    PROVE  GateInv'
<1>1. Aside \/ \E t \in Threads : Going(t) \/ Begins(t) \/ Returns(t)
  BY NextIs
<1>2. CASE Aside
  <2>1. \A c \in DOMAIN calls : Refused(c)' <=> Refused(c)
    BY <1>2 DEF Aside, Refused, Passes, Evaluate
  <2> QED BY <1>2, <2>1, PlacedIs DEF Aside, GateInv, GateCall, GateFrame, Active, Before, Returning, Current
<1>3. ASSUME NEW t \in Threads, Going(t) PROVE GateInv'
  <2>1. Within(t) /\ frame[t].call \in DOMAIN calls /\ DOMAIN calls' = DOMAIN calls
    BY <1>3, GoingBase, WithinKeeps DEF Within
  <2>2. \A c \in DOMAIN calls : c # frame[t].call => calls'[c] = calls[c] /\ (Refused(c)' <=> Refused(c))
    BY <2>1, WithinKeeps, RefusedSame DEF Within
  <2>3. ASSUME NEW c \in DOMAIN calls PROVE GateCall(c)'
    <3>1. CASE c # frame[t].call
      BY <2>2, <3>1 DEF GateInv, GateCall
    <3>2. CASE c = frame[t].call /\ Refused(c)'
      <4>1. /\ Gains(t, 0, 0) /\ Kept(Current(t), calls'[c]) /\ Current(t).end = "open"
            /\ Refused(c)
        BY <1>3, <2>1, <3>2, GateGoing DEF Within, Placed
      <4>2. Current(t).performed = 0 /\ Current(t).granted = 0
        BY <3>2, <4>1 DEF GateInv, GateCall, Current
      <4> QED BY <3>2, <4>1, <4>2 DEF GateCall, Gains, Kept, Served
    <3> QED BY <3>1, <3>2 DEF GateCall
  <2>4. ASSUME NEW u \in Threads PROVE GateFrame(u)'
    <3>1. CASE u = t
      <4>1. frame'[t].call = frame[t].call
        BY <2>1 DEF Within
      <4> QED BY <1>3, <2>1, <3>1, <4>1, GateGoing DEF GateFrame
    <3>2. CASE u # t
      <4>1. /\ frame'[u] = frame[u] /\ (Active(u)' <=> Active(u)) /\ stack' = stack
            /\ Active(u) => /\ frame[u].call \in DOMAIN calls /\ frame[u].call # frame[t].call
                            /\ Current(u)' = Current(u)
        BY <2>1, <3>2, WithinKeeps DEF Within
      <4>2. GateFrame(u)
        BY DEF GateInv
      <4> QED BY <2>2, <4>1, <4>2 DEF GateFrame, Before, Returning
    <3> QED BY <3>1, <3>2
  <2> QED BY <2>1, <2>3, <2>4 DEF GateInv
<1>4. ASSUME NEW t \in Threads, Begins(t) PROVE GateInv'
  <2> DEFINE n == Len(calls) + 1
  <2>1. /\ frame'[t].call = n /\ DOMAIN calls' = DOMAIN calls \cup {n} /\ Before(t, "policy")'
        /\ \A c \in DOMAIN calls : calls'[c] = calls[c] /\ \A h : Passes(c, h)' <=> Passes(c, h)
        /\ \A u \in Threads : u # t =>
              /\ frame'[u] = frame[u] /\ (Active(u)' <=> Active(u))
              /\ Active(u) => frame[u].call \in DOMAIN calls /\ Current(u)' = Current(u)
    BY <1>4, BeginsKeeps
  <2>2. /\ calls'[n].performed = 0 /\ calls'[n].granted = 0 /\ calls'[n].end = "open"
        /\ frame'[t].phase = "down" /\ stack' = stack
    BY <1>4 DEF Begins
  <2> HIDE DEF n
  <2>3. \A c \in DOMAIN calls : Refused(c)' <=> Refused(c)
    BY <2>1, RefusedSame
  <2>4. \A c \in DOMAIN calls' : GateCall(c)'
    BY <2>1, <2>2, <2>3 DEF GateInv, GateCall, Served
  <2>5. ASSUME NEW u \in Threads PROVE GateFrame(u)'
    <3>1. CASE u = t
      BY <2>1, <2>2, <3>1 DEF GateFrame, Returning
    <3>2. CASE u # t
      BY <2>1, <2>2, <2>3, <3>2 DEF GateInv, GateFrame, Before, Returning
    <3> QED BY <3>1, <3>2
  <2> QED BY <2>4, <2>5 DEF GateInv
<1>5. ASSUME NEW t \in Threads, Returns(t) PROVE GateInv'
  <2>1. /\ ~Active(t)' /\ frame[t].call \in DOMAIN calls
        /\ \A c \in DOMAIN calls : \A h : Passes(c, h)' <=> Passes(c, h)
        /\ \A u \in Threads : u # t =>
              /\ frame'[u] = frame[u] /\ (Active(u)' <=> Active(u))
              /\ Active(u) => frame[u].call \in DOMAIN calls /\ Current(u)' = Current(u)
    BY <1>5, ReturnsKeeps
  <2>2. \A c \in DOMAIN calls : Refused(c)' <=> Refused(c)
    BY <1>5, <2>1, RefusedSame DEF Returns
  <2>3. Refused(frame[t].call) => frame[t].out \notin Served
    BY <1>5 DEF GateInv, GateFrame, Returns, Returning
  <2>4. \A c \in DOMAIN calls : GateCall(c)'
    BY <1>5, <2>2, <2>3 DEF GateInv, GateCall, Returns
  <2>5. \A u \in Threads : GateFrame(u)'
    BY <1>5, <2>1, <2>2 DEF GateInv, GateFrame, Before, Returning, Returns
  <2> QED BY <1>5, <2>4, <2>5 DEF GateInv, Returns
<1> QED BY <1>1, <1>2, <1>3, <1>4, <1>5

-----------------------------------------------------------------------------
(* The first lemma of every theorem: Base holds always.                    *)
LEMMA BaseAlways == Spec => []Base
<1>1. Base /\ [Next]_vars => Base'
  BY NextIs
<1> QED BY <1>1, InitBase, PTL DEF Spec

(* "policy" outermost of what answers, spends or acts: what it refuses, or *)
(* nobody approves, is not performed, takes no token and is not answered   *)
(* by the mock, the cache or the vendor, however its calls and those of    *)
(* other threads are masked, named, retried or interleaved (policy.py).    *)
THEOREM RefusedNeverServed == ASSUME PolicyFirst PROVE Spec => []GateHolds
<1>1. Init => GateInv
  BY DEF Init, GateInv, GateFrame, Active, Idle
<1>2. Base /\ GateInv /\ [Next]_vars => GateInv'
  BY GateStep
<1>3. Base /\ GateInv => GateHolds
  <2> SUFFICES ASSUME Base, GateInv, NEW c \in DOMAIN calls, Through(c, "policy"), ~calls[c].approved,
                      Evaluate(calls[c].op, calls[c].args) # "allow"
               PROVE  /\ calls[c].performed = 0 /\ calls[c].granted = 0
                      /\ calls[c].end \notin {"result", "mock", "transient", "fatal"}
    BY DEF GateHolds
  <2>1. Passes(c, "policy")
    BY DEF Base, CallOK, Handlers
  <2> QED BY <2>1 DEF GateInv, GateCall, Refused, Served
<1> QED BY <1>1, <1>2, <1>3, BaseAlways, PTL DEF Spec

-----------------------------------------------------------------------------
(* The ways a call moves, but for audit's own clause.                      *)
Elsewhere(t) == frame[t].at \notin DOMAIN stack \/ stack[frame[t].at] # "audit"

Plain(t) ==
    /\ Active(t) /\ UNCHANGED <<entries, currentOp, archive, contended>>
    /\ \/ /\ frame[t].phase \in {"down", "up"} /\ Elsewhere(t)
          /\ \E o \in Outcomes : Rises(t, o) /\ (o # "sink" \/ o = frame[t].out)
       \/ /\ frame[t].phase \in {"down", "bucket", "paying", "backoff"}
          /\ \E g \in Handlers \ {"audit"} : AtHandler(t, g) /\ Sinks(t, {"key", "attempt"})
       \/ /\ frame[t].phase \in {"down", "bucket"} /\ AtHandler(t, "rate-limit")
          /\ \E p \in {"bucket", "paying"} : Stays(t, p, {"time"})
       \/ /\ frame[t].phase = "up" /\ AtHandler(t, "retry") /\ Stays(t, "backoff", {"time"})

InClause(t) == AuditEnter(t) \/ AuditReadOp(t) \/ AuditReadHead(t) \/ AuditAppend(t) \/ AuditSink(t)

LEMMA Widen ==
    ASSUME NEW t, NEW S, Sinks(t, S), S \subseteq {"key", "attempt"}
    PROVE  Sinks(t, {"key", "attempt"})
BY DEF Sinks, Alike

LEMMA PlainMoves ==
    ASSUME Base, NEW t \in Threads, Going(t)
    PROVE  Plain(t) \/ InClause(t)
<1>1. Within(t) /\ Active(t) /\ frame[t].out \in Outcomes
  BY GoingBase, PlacedIs DEF Within
<1>2. ASSUME NEW o \in Outcomes, Rises(t, o), o # "sink" \/ o = frame[t].out, Elsewhere(t),
             frame[t].phase \in {"down", "up"}, UNCHANGED <<entries, currentOp, archive, contended>>
      PROVE  Plain(t)
  BY <1>1, <1>2 DEF Plain
<1>3. ASSUME NEW g \in Handlers \ {"audit"}, AtHandler(t, g), NEW S, Sinks(t, S), S \subseteq {"key", "attempt"},
             frame[t].phase \in {"down", "bucket", "paying", "backoff"}, UNCHANGED <<entries, currentOp, archive, contended>>
      PROVE  Plain(t)
  <2>1. Sinks(t, {"key", "attempt"})
    BY <1>3, Widen
  <2> QED BY <1>1, <1>3, <2>1 DEF Plain
<1>4. CASE Bottom(t)
  <2>1. Rises(t, "unhandled") /\ frame[t].phase = "down" /\ UNCHANGED <<entries, currentOp, archive, contended>>
    BY <1>4, BottomIs DEF Bottom, auditVars
  <2>2. Elsewhere(t)
    BY <1>1, <1>4, StackIs DEF Elsewhere, Bottom
  <2>3. "unhandled" \in Outcomes
    BY DEF Outcomes
  <2> QED BY <1>2, <2>1, <2>3, <2>2
<1>5. CASE Policy(t)
  <2>1. /\ AtHandler(t, "policy") /\ frame[t].phase = "down" /\ UNCHANGED <<entries, currentOp, archive, contended>>
        /\ Sinks(t, {}) \/ \E o \in {"denied", "silent", "unapproved"} : Rises(t, o)
    BY <1>5, PolicyIs DEF Policy, auditVars
  <2>2. "policy" \in Handlers \ {"audit"} /\ {"denied", "silent", "unapproved"} \subseteq Outcomes
    BY DEF Handlers, Outcomes
  <2> QED BY <1>2, <1>3, <2>1, <2>2 DEF Elsewhere, AtHandler
<1>6. CASE DryRun(t)
  <2>1. /\ AtHandler(t, "dry-run") /\ frame[t].phase = "down" /\ UNCHANGED <<entries, currentOp, archive, contended>>
        /\ Sinks(t, {}) \/ Rises(t, "mock")
    BY <1>6, DryRunIs DEF DryRun, auditVars
  <2>2. "dry-run" \in Handlers \ {"audit"} /\ "mock" \in Outcomes
    BY DEF Handlers, Outcomes
  <2> QED BY <1>2, <1>3, <2>1, <2>2 DEF Elsewhere, AtHandler
<1>7. CASE CacheLookup(t)
  <2>1. /\ AtHandler(t, "cache") /\ frame[t].phase = "down" /\ UNCHANGED <<entries, currentOp, archive, contended>>
        /\ Sinks(t, {"key"}) \/ \E o \in Outcomes : Rises(t, o) /\ o # "sink"
    BY <1>7, CacheLookupIs DEF CacheLookup, auditVars, Base, SharedInv, Raised
  <2>2. "cache" \in Handlers \ {"audit"}
    BY DEF Handlers
  <2> QED BY <1>2, <1>3, <2>1, <2>2 DEF Elsewhere, AtHandler
<1>8. CASE CacheStore(t)
  BY <1>1, <1>2, <1>8, CacheStoreIs DEF CacheStore, auditVars, AtHandler, Elsewhere
<1>9. CASE RetryEnter(t) \/ RetryAgain(t)
  <2>1. /\ AtHandler(t, "retry") /\ frame[t].phase \in {"down", "backoff"} /\ UNCHANGED <<entries, currentOp, archive, contended>>
        /\ Sinks(t, {"attempt"})
    BY <1>9, RetryEnterIs, RetryAgainIs DEF RetryEnter, RetryAgain, auditVars
  <2>2. "retry" \in Handlers \ {"audit"}
    BY DEF Handlers
  <2> QED BY <1>3, <2>1, <2>2
<1>10. CASE RetryLeave(t)
  <2>1. /\ AtHandler(t, "retry") /\ frame[t].phase = "up" /\ UNCHANGED <<entries, currentOp, archive, contended>>
        /\ Stays(t, "backoff", {"time"}) \/ Rises(t, frame[t].out)
    BY <1>10, RetryLeaveIs DEF RetryLeave, auditVars
  <2>2. Elsewhere(t)
    BY <2>1 DEF AtHandler, Elsewhere
  <2> QED BY <1>1, <1>2, <2>1, <2>2 DEF Plain
<1>11. CASE RateClock(t)
  <2>1. /\ AtHandler(t, "rate-limit") /\ frame[t].phase = "down" /\ UNCHANGED <<entries, currentOp, archive, contended>>
        /\ Stays(t, "bucket", {"time"})
    BY <1>11, RateClockIs DEF RateClock, auditVars
  <2> QED BY <1>1, <2>1 DEF Plain
<1>12. CASE RateTake(t) \/ RateSlept(t)
  <2>1. /\ AtHandler(t, "rate-limit") /\ frame[t].phase \in {"bucket", "paying"} /\ UNCHANGED <<entries, currentOp, archive, contended>>
        /\ Sinks(t, {}) \/ (frame[t].phase = "bucket" /\ Stays(t, "paying", {"time"}))
    BY <1>12, RateTakeIs, RateSleptIs DEF RateTake, RateSlept, auditVars
  <2>2. "rate-limit" \in Handlers \ {"audit"}
    BY DEF Handlers
  <2>3. CASE Sinks(t, {})
    BY <1>3, <2>1, <2>2, <2>3
  <2>4. CASE frame[t].phase = "bucket" /\ Stays(t, "paying", {"time"})
    BY <1>1, <2>1, <2>4 DEF Plain
  <2> QED BY <2>1, <2>3, <2>4
<1>13. CASE \E o \in {"result", "transient", "fatal"} : Raw(t, o)
  <2>1. /\ frame[t].phase = "down" /\ UNCHANGED <<entries, currentOp, archive, contended>>
        /\ \E o \in {"result", "transient", "fatal"} : Rises(t, o)
        /\ Elsewhere(t)
    BY <1>13, RawIs DEF Raw, auditVars, AtHandler, Elsewhere
  <2>2. {"result", "transient", "fatal"} \subseteq Outcomes
    BY DEF Outcomes
  <2> QED BY <1>2, <2>1, <2>2
<1> QED BY <1>4, <1>5, <1>6, <1>7, <1>8, <1>9, <1>10, <1>11, <1>12, <1>13 DEF Going, Step, InClause

(* No two places of a stack have one handler.                              *)
LEMMA InsideOwn ==
    ASSUME Base, NEW t \in Threads, NEW g, AtHandler(t, g)
    PROVE  Inside(t, g) <=> frame[t].phase # "down"
<1>1. /\ \A i \in Current(t).names : i \in DOMAIN stack /\ i \in Nat
      /\ frame[t].at \in Current(t).names /\ stack[frame[t].at] = g /\ IsInjective(stack)
  BY PlacedIs, StackIs DEF AtHandler
<1>2. \A i \in Current(t).names : stack[i] = g => i = frame[t].at
  BY <1>1 DEF IsInjective
<1> QED BY <1>1, <1>2 DEF Inside

(* How a plain move changes what the thread is inside of.                  *)
LEMMA PlainInside ==
    ASSUME Base, NEW t \in Threads, Within(t), Plain(t)
    PROVE  /\ Inside(t, "audit")' => Inside(t, "audit")
           /\ frame'[t].link = frame[t].link /\ frame'[t].lifted = frame[t].lifted /\ frame'[t].op = frame[t].op
           /\ frame'[t].phase \notin {"audit-op", "audit-append", "audit-sink"}
           /\ frame[t].phase \notin {"audit-op", "audit-append", "audit-sink"}
           /\ Descending(t)' /\ ~Inside(t, "audit")' =>
                 ~Inside(t, "audit") /\ (Descending(t) \/ frame[t].phase = "backoff")
<1>1. CASE \E o \in Outcomes : Rises(t, o)
  BY <1>1, InsideRises DEF Rises, Alike, Descending, Plain
<1>2. ASSUME NEW g \in Handlers \ {"audit"}, AtHandler(t, g), Sinks(t, {"key", "attempt"}),
             frame[t].phase \in {"down", "bucket", "paying", "backoff"}
      PROVE  /\ Inside(t, "audit")' => Inside(t, "audit")
             /\ frame'[t].link = frame[t].link /\ frame'[t].lifted = frame[t].lifted /\ frame'[t].op = frame[t].op
             /\ frame'[t].phase \notin {"audit-op", "audit-append", "audit-sink"}
             /\ frame[t].phase \notin {"audit-op", "audit-append", "audit-sink"}
             /\ Descending(t)' /\ ~Inside(t, "audit")' =>
                   ~Inside(t, "audit") /\ (Descending(t) \/ frame[t].phase = "backoff")
  <2>1. \A h : Inside(t, h)' <=> Inside(t, h) \/ h = g
    BY <1>2, InsideSinks
  <2> QED BY <1>2, <2>1 DEF Sinks, Alike, Descending
<1>3. ASSUME NEW g \in Handlers \ {"audit"}, AtHandler(t, g),
             \/ /\ frame[t].phase \in {"down", "bucket"}
                /\ \E p \in {"bucket", "paying"} : Stays(t, p, {"time"})
             \/ frame[t].phase = "up" /\ Stays(t, "backoff", {"time"})
      PROVE  /\ Inside(t, "audit")' => Inside(t, "audit")
             /\ frame'[t].link = frame[t].link /\ frame'[t].lifted = frame[t].lifted /\ frame'[t].op = frame[t].op
             /\ frame'[t].phase \notin {"audit-op", "audit-append", "audit-sink"}
             /\ frame[t].phase \notin {"audit-op", "audit-append", "audit-sink"}
             /\ Descending(t)' /\ ~Inside(t, "audit")' =>
                   ~Inside(t, "audit") /\ (Descending(t) \/ frame[t].phase = "backoff")
  <2>1. \A h : Inside(t, h)' <=> Inside(t, h) \/ h = g
    BY <1>3, InsideStays
  <2> QED BY <1>3, <2>1 DEF Stays, Alike, Descending
<1> QED BY <1>1, <1>2, <1>3 DEF Plain, Handlers

-----------------------------------------------------------------------------
(* The commit a call came with is in args until audit lifts it out.        *)
LEMMA InsidePasses ==
    ASSUME NEW t, NEW h, Inside(t, h)
    PROVE  Passes(frame[t].call, h)
BY DEF Inside, Passes, Current

LEMMA LinkGoing ==
    ASSUME AuditOverRetry, Base, NEW t \in Threads, Links1(t), Going(t), Within(t)
    PROVE  Links1(t)'
<1>1. /\ Active(t) /\ Current(t)'.link = Current(t).link /\ frame'[t].call = frame[t].call
      /\ (Passes(frame[t].call, "audit")' <=> Passes(frame[t].call, "audit"))
  BY WithinKeeps DEF Within, Kept
<1>2. CASE Plain(t)
  <2>1. /\ Inside(t, "audit")' => Inside(t, "audit")
        /\ frame'[t].link = frame[t].link /\ frame'[t].lifted = frame[t].lifted
        /\ Descending(t)' /\ ~Inside(t, "audit")' =>
              ~Inside(t, "audit") /\ (Descending(t) \/ frame[t].phase = "backoff")
    BY <1>2, PlainInside
  <2>2. CASE frame'[t].phase = "backoff" /\ ~Inside(t, "audit")'
    <3>1. AtHandler(t, "retry") /\ Stays(t, "backoff", {"time"})
      BY <1>2, <2>2 DEF Plain, Sinks, Rises, Stays
    <3>2. ~Inside(t, "audit")
      BY <2>2, <3>1, InsideStays
    <3>3. ~Passes(frame[t].call, "audit")
      BY <3>1, <3>2, NotBelow DEF AuditOverRetry, Base, TypeInv
    <3> QED BY <1>1, <2>1, <2>2, <3>2, <3>3 DEF Links1
  <2>3. CASE ~Passes(frame[t].call, "audit")
    <3>1. ~Inside(t, "audit")
      BY <2>3, InsidePasses
    <3> QED BY <1>1, <2>1, <2>3, <3>1 DEF Links1
  <2> QED BY <1>1, <2>1, <2>2, <2>3 DEF Links1
<1>3. CASE AuditEnter(t)
  <2>1. /\ AtHandler(t, "audit") /\ frame[t].phase = "down" /\ Stays(t, "audit-op", {"lifted", "link"})
        /\ frame'[t].lifted = frame[t].link /\ frame'[t].link = Direct
    BY <1>3, AuditEnterIs
  <2>2. ~Inside(t, "audit") /\ Inside(t, "audit")'
    BY <2>1, InsideOwn, InsideStays
  <2> QED BY <1>1, <2>1, <2>2 DEF Links1, Descending
<1>4. CASE AuditReadOp(t)
  <2>1. AtHandler(t, "audit") /\ frame[t].phase = "audit-op" /\ Sinks(t, {"op"})
    BY <1>4, AuditReadOpIs
  <2>2. Inside(t, "audit") /\ Inside(t, "audit")'
    BY <2>1, InsideOwn, InsideSinks
  <2> QED BY <1>1, <2>1, <2>2 DEF Links1, Sinks, Alike
<1>5. CASE AuditReadHead(t) \/ AuditAppend(t) \/ AuditSink(t)
  <2>1. /\ AtHandler(t, "audit") /\ frame[t].phase \in {"up", "audit-append", "audit-sink"}
        /\ \/ \E p \in {"audit-append", "audit-sink"} : Stays(t, p, {"prev"})
           \/ \E o \in Outcomes : Rises(t, o)
    <3>1. frame[t].out \in Outcomes /\ "sink" \in Outcomes
      BY <1>1, PlacedIs DEF Outcomes
    <3>2. Stays(t, "audit-sink", {}) => Stays(t, "audit-sink", {"prev"})
      BY DEF Stays, Alike
    <3> QED BY <1>5, <3>1, <3>2, AuditReadHeadIs, AuditAppendIs, AuditSinkIs
  <2>2. Inside(t, "audit")
    BY <2>1, InsideOwn
  <2>3. ASSUME NEW p \in {"audit-append", "audit-sink"}, Stays(t, p, {"prev"}) PROVE Links1(t)'
    <3>1. Inside(t, "audit")'
      BY <2>1, <2>2, <2>3, InsideStays
    <3> QED BY <1>1, <2>2, <2>3, <3>1 DEF Links1, Stays, Alike
  <2>4. ASSUME NEW o \in Outcomes, Rises(t, o) PROVE Links1(t)'
    <3>1. ~Inside(t, "audit")' /\ Passes(frame[t].call, "audit")'
      BY <1>1, <2>1, <2>2, <2>4, InsideRises, InsidePasses
    <3> QED BY <1>1, <2>4, <3>1 DEF Links1, Rises, Descending
  <2> QED BY <2>1, <2>3, <2>4
<1> QED BY <1>2, <1>3, <1>4, <1>5, PlainMoves DEF InClause

LEMMA LinkStep ==
    ASSUME AuditOverRetry, Base, LinkInv, [Next]_vars
    PROVE  LinkInv'
<1>1. Aside \/ \E t \in Threads : Going(t) \/ Begins(t) \/ Returns(t)
  BY NextIs
<1>2. CASE Aside
  BY <1>2 DEF Aside, LinkInv, Links1, Active, Inside, Current, Descending, Passes
<1>3. ASSUME NEW t \in Threads, Going(t) PROVE LinkInv'
  <2>1. Within(t)
    BY <1>3, GoingBase
  <2>2. Links1(t)'
    BY <1>3, <2>1, LinkGoing DEF LinkInv
  <2>3. ASSUME NEW u \in Threads, u # t PROVE Links1(u)'
    <3>1. /\ frame'[u] = frame[u] /\ (Active(u)' <=> Active(u)) /\ stack' = stack
          /\ Active(u) => /\ Current(u)' = Current(u)
                          /\ (Passes(frame[u].call, "audit")' <=> Passes(frame[u].call, "audit"))
      BY <2>1, <2>3, WithinKeeps DEF Within
    <3> QED BY <3>1 DEF LinkInv, Links1, Inside, Descending
  <2> QED BY <2>2, <2>3 DEF LinkInv
<1>4. ASSUME NEW t \in Threads, Begins(t) PROVE LinkInv'
  <2>1. /\ Current(t)' = calls'[Len(calls) + 1] /\ ~Inside(t, "audit")'
        /\ frame'[t].link = calls'[Len(calls) + 1].link
        /\ \A u \in Threads : u # t =>
              /\ frame'[u] = frame[u] /\ (Active(u)' <=> Active(u))
              /\ Active(u) => /\ Current(u)' = Current(u)
                              /\ (Inside(u, "audit")' <=> Inside(u, "audit"))
                              /\ (Passes(frame[u].call, "audit")' <=> Passes(frame[u].call, "audit"))
    BY <1>4, BeginsKeeps DEF Begins
  <2> QED BY <2>1 DEF LinkInv, Links1, Descending
<1>5. ASSUME NEW t \in Threads, Returns(t) PROVE LinkInv'
  <2>1. /\ ~Active(t)'
        /\ \A u \in Threads : u # t =>
              /\ frame'[u] = frame[u] /\ (Active(u)' <=> Active(u))
              /\ Active(u) => /\ Current(u)' = Current(u)
                              /\ (Inside(u, "audit")' <=> Inside(u, "audit"))
                              /\ (Passes(frame[u].call, "audit")' <=> Passes(frame[u].call, "audit"))
    BY <1>5, ReturnsKeeps
  <2> QED BY <2>1 DEF LinkInv, Links1, Descending
<1> QED BY <1>1, <1>2, <1>3, <1>4, <1>5

-----------------------------------------------------------------------------
(* The log, unless two threads were in the unguarded lines.                *)
LEMMA MeetsIs ==
    ASSUME NEW t \in Threads, Meets(t)
    PROVE  /\ contended \subseteq contended'
           /\ \A u \in InAudit \ {t} : frame[u].call \in contended' /\ frame[t].call \in contended'
BY DEF Meets

LEMMA RacesGoing ==
    ASSUME Base, Races, NEW t \in Threads, Going(t), Within(t)
    PROVE  Races' /\ contended \subseteq contended'
<1>1. /\ DOMAIN frame' = Threads /\ frame'[t].call = frame[t].call
      /\ \A u \in Threads : u # t => frame'[u] = frame[u]
  BY DEF Within
<1>2. ASSUME frame'[t].phase \notin {"audit-op", "audit-append"}, contended' = contended
      PROVE  Races' /\ contended \subseteq contended'
  <2>1. \A u \in InAudit' : u \in InAudit /\ frame'[u] = frame[u]
    BY <1>1, <1>2 DEF InAudit
  <2>2. \A u, v \in InAudit' : u # v => frame'[u].call \in contended' /\ frame'[v].call \in contended'
    BY <1>2, <2>1 DEF Races
  <2> QED BY <1>2, <2>2 DEF Races
<1>3. ASSUME Meets(t)
      PROVE  Races' /\ contended \subseteq contended'
  <2>1. \A u \in InAudit' : u # t => u \in InAudit /\ frame'[u] = frame[u]
    BY <1>1 DEF InAudit
  <2>2. /\ contended \subseteq contended'
        /\ \A u \in InAudit \ {t} : frame[u].call \in contended' /\ frame[t].call \in contended'
    BY <1>3, MeetsIs
  <2>3. \A u \in InAudit' : u # t => frame'[u].call \in contended' /\ frame'[t].call \in contended'
    BY <1>1, <2>1, <2>2
  <2>4. \A u, v \in InAudit' : u # v => frame'[u].call \in contended' /\ frame'[v].call \in contended'
    <3> TAKE u, v \in InAudit'
    <3>1. CASE u = t \/ v = t
      BY <2>3, <3>1
    <3>2. CASE u # t /\ v # t /\ u # v
      <4>1. frame[u].call \in contended /\ frame[v].call \in contended
        BY <2>1, <3>2 DEF Races
      <4> QED BY <2>1, <2>2, <3>2, <4>1
    <3> QED BY <3>1, <3>2
  <2> QED BY <2>2, <2>4 DEF Races
<1>4. CASE Plain(t)
  <2>1. contended' = contended
    BY <1>4 DEF Plain
  <2>2. frame'[t].phase \notin {"audit-op", "audit-append"}
    BY <1>4, PlainInside
  <2> QED BY <1>2, <2>1, <2>2
<1>5. CASE AuditEnter(t) \/ AuditReadHead(t)
  BY <1>3, <1>5 DEF AuditEnter, AuditReadHead
<1>6. CASE AuditReadOp(t) \/ AuditAppend(t) \/ AuditSink(t)
  <2>1. contended' = contended
    BY <1>6 DEF AuditReadOp, AuditAppend, AuditSink, auditVars
  <2>2. frame'[t].phase \notin {"audit-op", "audit-append"}
    BY <1>6, AuditReadOpIs, AuditAppendIs, AuditSinkIs DEF Sinks, Rises, Stays
  <2> QED BY <1>2, <2>1, <2>2
<1> QED BY <1>4, <1>5, <1>6, PlainMoves DEF InClause

(* What the moving thread knows, and what the others still know.           *)
LEMMA AloneGoing ==
    ASSUME Base, LogInv, NEW t \in Threads, Going(t), Within(t)
    PROVE  Alone(t)'
<1>1. /\ Active(t) /\ Current(t)'.op = Current(t).op /\ frame'[t].call = frame[t].call
      /\ contended \subseteq contended' /\ Alone(t)
  BY WithinKeeps, RacesGoing DEF Within, Kept, LogInv
<1>2. CASE Plain(t)
  <2>1. /\ Inside(t, "audit")' => Inside(t, "audit")
        /\ frame'[t].op = frame[t].op
        /\ frame'[t].phase \notin {"audit-op", "audit-append"} /\ frame[t].phase # "audit-op"
    BY <1>2, PlainInside
  <2> QED BY <1>1, <2>1 DEF Alone
<1>3. CASE AuditEnter(t)
  BY <1>1, <1>3, AuditEnterIs DEF AuditEnter, Alone, Stays
<1>4. CASE AuditReadOp(t)
  <2>1. /\ AtHandler(t, "audit") /\ frame[t].phase = "audit-op" /\ frame'[t].op = currentOp
        /\ frame'[t].phase = "down"
    BY <1>4, AuditReadOpIs DEF Sinks
  <2>2. Inside(t, "audit")
    BY <2>1, InsideOwn
  <2> QED BY <1>1, <2>1, <2>2 DEF Alone
<1>5. CASE AuditReadHead(t) \/ AuditAppend(t)
  <2>1. /\ AtHandler(t, "audit") /\ frame[t].phase \in {"up", "audit-append"}
        /\ frame'[t].phase \in {"up", "audit-append", "audit-sink"} /\ frame'[t].op = frame[t].op
        /\ frame'[t].phase = "audit-append" => AuditReadHead(t)
    BY <1>5, AuditReadHeadIs, AuditAppendIs DEF Stays, Rises, Alike
  <2>2. Inside(t, "audit")
    BY <2>1, InsideOwn
  <2>3. AuditReadHead(t) => frame'[t].prev = Len(entries) /\ entries' = entries
    BY AuditReadHeadIs DEF AuditReadHead
  <2> QED BY <1>1, <2>1, <2>2, <2>3 DEF Alone
<1>6. CASE AuditSink(t)
  <2>1. /\ AtHandler(t, "audit") /\ frame[t].phase = "audit-sink"
        /\ frame'[t].phase = "up" /\ frame'[t].op = frame[t].op
    BY <1>6, AuditSinkIs DEF Rises, Alike
  <2>2. Inside(t, "audit")
    BY <2>1, InsideOwn
  <2> QED BY <1>1, <2>1, <2>2 DEF Alone
<1> QED BY <1>2, <1>3, <1>4, <1>5, <1>6, PlainMoves DEF InClause

LEMMA OthersAlone ==
    ASSUME Base, LogInv, NEW t \in Threads, Going(t), Within(t), NEW u \in Threads, u # t
    PROVE  Alone(u)'
<1>1. /\ frame'[u] = frame[u] /\ (Active(u)' <=> Active(u)) /\ stack' = stack
      /\ Active(u) => Current(u)' = Current(u)
      /\ contended \subseteq contended' /\ Alone(u)
  BY WithinKeeps, RacesGoing DEF Within, LogInv
<1>2. ASSUME Active(u), frame[u].call \notin contended'
      PROVE  /\ frame[u].phase = "audit-op" => currentOp' = currentOp
             /\ frame[u].phase = "audit-append" => entries' = entries
  <2>1. frame[u].phase = "audit-op" => ~AuditEnter(t)
    BY <1>2, MeetsIs DEF InAudit, AuditEnter
  <2>2. frame[u].phase = "audit-append" => ~AuditAppend(t)
    BY <1>1, <1>2 DEF InAudit, AuditAppend, LogInv, Races
  <2>3. Plain(t) \/ AuditReadOp(t) \/ AuditReadHead(t) \/ AuditAppend(t) \/ AuditSink(t) => currentOp' = currentOp
    BY DEF Plain, AuditReadOp, AuditReadHead, AuditAppend, AuditSink, auditVars
  <2>4. Plain(t) \/ AuditEnter(t) \/ AuditReadOp(t) \/ AuditReadHead(t) \/ AuditSink(t) => entries' = entries
    BY DEF Plain, AuditEnter, AuditReadOp, AuditReadHead, AuditSink, auditVars
  <2> QED BY <2>1, <2>2, <2>3, <2>4, PlainMoves DEF InClause
<1>3. Active(u) => (Inside(u, "audit")' <=> Inside(u, "audit"))
  BY <1>1 DEF Inside
<1> QED BY <1>1, <1>2, <1>3 DEF Alone

LEMMA EntriesFaithful ==
    ASSUME Base, LogInv, NEW t \in Threads, Going(t), Within(t)
    PROVE  LogFaithfulUnlessRaced'
<1>1. /\ entries \in Seq(EntryRecs) /\ Len(entries) \in Nat /\ DOMAIN entries = 1 .. Len(entries)
      /\ \A i \in DOMAIN entries : entries[i].call \in DOMAIN calls
      /\ contended \subseteq contended' /\ LogFaithfulUnlessRaced
      /\ \A c \in DOMAIN calls : calls'[c].op = calls[c].op /\ calls'[c].link = calls[c].link
  BY RacesGoing, WithinKeeps DEF Base, SharedInv, LogInv, Kept
<1>2. CASE entries' = entries
  BY <1>1, <1>2 DEF LogFaithfulUnlessRaced
<1>3. CASE AuditAppend(t)
  <2> DEFINE e == Entry(frame[t])
             c == frame[t].call
  <2>1. /\ AtHandler(t, "audit") /\ frame[t].phase = "audit-append" /\ Active(t) /\ c \in DOMAIN calls
    BY <1>3, AuditAppendIs DEF AtHandler
  <2>2. Inside(t, "audit")
    BY <2>1, InsideOwn
  <2>3. c \notin contended => /\ frame[t].prev = Len(entries) /\ frame[t].op = calls[c].op
                              /\ frame[t].lifted = calls[c].link
    BY <2>1, <2>2 DEF LogInv, Alone, LinkInv, Links1, Current
  <2>4. /\ e \in EntryRecs /\ e.call = c /\ e.op = frame[t].op /\ e.link = frame[t].lifted /\ e.prev = frame[t].prev
    BY <2>1, EntryIs
  <2>5. entries' = Append(entries, e) /\ contended' = contended
    BY <1>3 DEF AuditAppend
  <2> HIDE DEF e, c
  <2>6. /\ Len(entries') = Len(entries) + 1 /\ entries'[Len(entries) + 1] = e
        /\ \A i \in DOMAIN entries' : i = Len(entries) + 1 \/ i \in DOMAIN entries
        /\ \A i \in DOMAIN entries : entries'[i] = entries[i]
    BY <1>1, <2>4, <2>5
  <2>7. \A i \in DOMAIN entries' :
           entries'[i].call \notin contended' =>
             /\ entries'[i].prev = i - 1
             /\ entries'[i].op = calls'[entries'[i].call].op /\ entries'[i].link = calls'[entries'[i].call].link
    <3> TAKE i \in DOMAIN entries'
    <3>1. CASE i \in DOMAIN entries
      BY <1>1, <2>5, <2>6, <3>1 DEF LogFaithfulUnlessRaced
    <3>2. CASE i = Len(entries) + 1
      BY <1>1, <2>1, <2>3, <2>4, <2>5, <2>6, <3>2
    <3> QED BY <2>6, <3>1, <3>2
  <2> QED BY <2>7 DEF LogFaithfulUnlessRaced
<1>4. Plain(t) \/ AuditEnter(t) \/ AuditReadOp(t) \/ AuditReadHead(t) \/ AuditSink(t) => entries' = entries
  BY DEF Plain, AuditEnter, AuditReadOp, AuditReadHead, AuditSink, auditVars
<1> QED BY <1>2, <1>3, <1>4, PlainMoves DEF InClause

LEMMA LogStep ==
    ASSUME AuditOverRetry, Base, LogInv, [Next]_vars
    PROVE  LogInv'
<1>1. LinkInv'
  BY LinkStep DEF LogInv
<1>2. Aside \/ \E t \in Threads : Going(t) \/ Begins(t) \/ Returns(t)
  BY NextIs
<1>3. CASE Aside
  <2>1. Races'
    BY <1>3 DEF Aside, LogInv, Races, InAudit
  <2>2. \A t \in Threads : Alone(t)'
    BY <1>3 DEF Aside, LogInv, Alone, Active, Inside, Current
  <2>3. LogFaithfulUnlessRaced'
    BY <1>3 DEF Aside, LogInv, LogFaithfulUnlessRaced
  <2> QED BY <1>1, <2>1, <2>2, <2>3 DEF LogInv
<1>4. ASSUME NEW t \in Threads, Going(t) PROVE LogInv'
  <2>1. Within(t)
    BY <1>4, GoingBase
  <2>2. Races' /\ Alone(t)' /\ LogFaithfulUnlessRaced'
    BY <1>4, <2>1, RacesGoing, AloneGoing, EntriesFaithful DEF LogInv
  <2>3. \A u \in Threads : u # t => Alone(u)'
    BY <1>4, <2>1, OthersAlone
  <2> QED BY <1>1, <2>2, <2>3 DEF LogInv
<1>5. ASSUME NEW t \in Threads, Begins(t) \/ Returns(t) PROVE LogInv'
  <2>1. /\ UNCHANGED <<entries, currentOp, archive, contended>>
        /\ frame'[t].phase \in {"idle", "down"}
    BY <1>5 DEF Begins, Returns, auditVars, Idle
  <2>2. \A u \in Threads : u # t =>
           /\ frame'[u] = frame[u] /\ (Active(u)' <=> Active(u))
           /\ Active(u) => Current(u)' = Current(u) /\ (Inside(u, "audit")' <=> Inside(u, "audit"))
    BY <1>5, BeginsKeeps, ReturnsKeeps
  <2>3. \A c \in DOMAIN calls : calls'[c].op = calls[c].op /\ calls'[c].link = calls[c].link
    BY <1>5 DEF Begins, Returns
  <2>4. Races'
    <3>1. InAudit' \subseteq InAudit \ {t}
      BY <2>1, <2>2 DEF InAudit
    <3> QED BY <2>1, <2>2, <3>1 DEF LogInv, Races, InAudit
  <2>5. ~Active(t)' \/ ~Inside(t, "audit")'
    BY <1>5, BeginsKeeps, ReturnsKeeps
  <2>6. \A u \in Threads : Alone(u)'
    BY <2>1, <2>2, <2>5 DEF LogInv, Alone
  <2>7. LogFaithfulUnlessRaced'
    BY <2>1, <2>3 DEF LogInv, LogFaithfulUnlessRaced, Base, SharedInv
  <2> QED BY <1>1, <2>4, <2>6, <2>7 DEF LogInv
<1> QED BY <1>2, <1>3, <1>4, <1>5

(* With audit above retry, an entry follows the entry before it and names  *)
(* the operation and the commit of its own call, unless two threads were   *)
(* at the same time between the lines of audit.py that no lock guards: a   *)
(* call that waits below audit while others are audited does no harm.      *)
THEOREM EntriesNameTheirCalls == ASSUME AuditOverRetry PROVE Spec => []LogFaithfulUnlessRaced
<1>1. Init => LogInv
  BY DEF Init, LogInv, LinkInv, Links1, Races, InAudit, Alone, LogFaithfulUnlessRaced, Active, Idle
<1>2. Base /\ LogInv /\ [Next]_vars => LogInv'
  BY LogStep
<1>3. LogInv => LogFaithfulUnlessRaced
  BY DEF LogInv
<1> QED BY <1>1, <1>2, <1>3, BaseAlways, PTL DEF Spec

-----------------------------------------------------------------------------
(* What is written of a call stays as it is while others write.            *)
Untouched(c) ==
    /\ EntriesOf(c)' = EntriesOf(c) /\ Archived(c)' = Archived(c)
    /\ \A o : (Written(c, o)' <=> Written(c, o)) /\ (Sent(c, o)' <=> Sent(c, o))

LEMMA EntriesAppended ==
    ASSUME Base, NEW e \in EntryRecs, entries' = Append(entries, e), NEW c
    PROVE  /\ EntriesOf(c)' = EntriesOf(c) \cup (IF e.call = c THEN {Len(entries) + 1} ELSE {})
           /\ Len(entries) + 1 \in DOMAIN entries' /\ entries'[Len(entries) + 1] = e
           /\ DOMAIN entries \subseteq DOMAIN entries'
           /\ \A i \in DOMAIN entries : entries'[i] = entries[i]
<1> DEFINE n == Len(entries) + 1
<1>1. entries \in Seq(EntryRecs) /\ Len(entries) \in Nat /\ DOMAIN entries = 1 .. Len(entries)
  BY DEF Base, SharedInv
<1>2. /\ DOMAIN entries' = DOMAIN entries \cup {n} /\ n \notin DOMAIN entries /\ entries'[n] = e
      /\ \A i \in DOMAIN entries : entries'[i] = entries[i]
  BY <1>1
<1> HIDE DEF n
<1>3. EntriesOf(c)' = {i \in DOMAIN entries' : entries'[i].call = c}
  BY DEF EntriesOf
<1>4. EntriesOf(c)' = EntriesOf(c) \cup (IF e.call = c THEN {n} ELSE {})
  BY <1>2, <1>3 DEF EntriesOf
<1> QED BY <1>2, <1>4 DEF n

LEMMA ArchiveAppended ==
    ASSUME Base, NEW x \in Nat, archive' = Append(archive, x), NEW c
    PROVE  /\ Archived(c)' = Archived(c) \cup (IF x = c THEN {Len(archive) + 1} ELSE {})
           /\ DOMAIN archive' = DOMAIN archive \cup {Len(archive) + 1}
<1> DEFINE n == Len(archive) + 1
<1>1. archive \in Seq(Nat) /\ Len(archive) \in Nat /\ DOMAIN archive = 1 .. Len(archive)
  BY DEF Base, SharedInv
<1>2. /\ DOMAIN archive' = DOMAIN archive \cup {n} /\ n \notin DOMAIN archive /\ archive'[n] = x
      /\ \A i \in DOMAIN archive : archive'[i] = archive[i]
  BY <1>1
<1> HIDE DEF n
<1>3. Archived(c)' = {i \in DOMAIN archive' : archive'[i] = c}
  BY DEF Archived
<1>4. Archived(c)' = Archived(c) \cup (IF x = c THEN {n} ELSE {})
  BY <1>2, <1>3 DEF Archived
<1> QED BY <1>2, <1>4 DEF n

LEMMA NothingWritten ==
    ASSUME entries' = entries, archive' = archive, NEW c
    PROVE  Untouched(c)
BY DEF Untouched, EntriesOf, Archived, Written, Sent

LEMMA WrittenKept ==
    ASSUME NEW c, EntriesOf(c)' = EntriesOf(c), DOMAIN entries \subseteq DOMAIN entries',
           \A i \in DOMAIN entries : entries'[i] = entries[i]
    PROVE  \A o : Written(c, o)' <=> Written(c, o)
<1> TAKE o
<1>1. Written(c, o) => Written(c, o)'
  BY DEF Written
<1>2. ASSUME Written(c, o)' PROVE Written(c, o)
  <2>1. PICK i \in DOMAIN entries' : /\ EntriesOf(c)' = {i}
                                     /\ o = "sink" \/ (entries'[i].verdict = "error") = Raised(o)
    BY <1>2 DEF Written
  <2>2. i \in DOMAIN entries
    BY <2>1 DEF EntriesOf
  <2> QED BY <2>1, <2>2 DEF Written
<1> QED BY <1>1, <1>2

LEMMA SentKept ==
    ASSUME NEW c, Archived(c)' = Archived(c), DOMAIN archive \subseteq DOMAIN archive'
    PROVE  \A o : Sent(c, o)' <=> Sent(c, o)
<1> TAKE o
<1>1. (\E j \in DOMAIN archive' : Archived(c)' = {j}) <=> (\E j \in DOMAIN archive : Archived(c) = {j})
  BY DEF Archived
<1> QED BY <1>1 DEF Sent

LEMMA OthersUntouched ==
    ASSUME Base, NEW t \in Threads, Going(t), NEW c, c # frame[t].call
    PROVE  Untouched(c)
<1>1. CASE AuditAppend(t)
  <2>1. /\ entries' = Append(entries, Entry(frame[t])) /\ archive' = archive
        /\ Entry(frame[t]) \in EntryRecs /\ Entry(frame[t]).call = frame[t].call
    BY <1>1, AuditAppendIs, EntryIs DEF AuditAppend, Within
  <2>2. /\ EntriesOf(c)' = EntriesOf(c) /\ DOMAIN entries \subseteq DOMAIN entries'
        /\ \A i \in DOMAIN entries : entries'[i] = entries[i]
    BY <2>1, EntriesAppended, ZenonT(30)
  <2>3. \A o : Written(c, o)' <=> Written(c, o)
    BY <2>2, WrittenKept
  <2>4. Archived(c)' = Archived(c) /\ \A o : Sent(c, o)' <=> Sent(c, o)
    BY <2>1 DEF Archived, Sent
  <2> QED BY <2>2, <2>3, <2>4 DEF Untouched
<1>2. CASE AuditSink(t)
  <2>1. entries' = entries /\ (archive' = archive \/ archive' = Append(archive, frame[t].call))
        /\ frame[t].call \in Nat
    BY <1>2, AuditSinkIs, PlacedIs DEF AuditSink, IsFrame, Frames, Within
  <2>2. CASE archive' = archive
    BY <2>1, <2>2, NothingWritten
  <2>3. CASE archive' = Append(archive, frame[t].call)
    <3>1. PICK x \in Nat : archive' = Append(archive, x) /\ x # c
      BY <2>1, <2>3
    <3>2. /\ Archived(c)' = Archived(c) \cup (IF x = c THEN {Len(archive) + 1} ELSE {})
          /\ DOMAIN archive' = DOMAIN archive \cup {Len(archive) + 1}
      BY <3>1, ArchiveAppended
    <3>3. Archived(c)' = Archived(c) /\ DOMAIN archive \subseteq DOMAIN archive'
      BY <3>1, <3>2
    <3>4. \A o : Sent(c, o)' <=> Sent(c, o)
      BY <3>3, SentKept
    <3>5. EntriesOf(c)' = EntriesOf(c) /\ \A o : Written(c, o)' <=> Written(c, o)
      BY <2>1 DEF EntriesOf, Written
    <3> QED BY <3>4, <3>5, <3>3 DEF Untouched
  <2> QED BY <2>1, <2>2, <2>3
<1>3. Plain(t) \/ AuditEnter(t) \/ AuditReadOp(t) \/ AuditReadHead(t) => entries' = entries /\ archive' = archive
  BY DEF Plain, AuditEnter, AuditReadOp, AuditReadHead, auditVars
<1> QED BY <1>1, <1>2, <1>3, PlainMoves, NothingWritten DEF InClause

-----------------------------------------------------------------------------
(* With audit outermost, a call is inside its clause until it is written.  *)
LEMMA AuditAbove ==
    ASSUME AuditOutermost, Base, NEW t \in Threads, Active(t), frame[t].at > 0, Elsewhere(t),
           frame[t].at \in Current(t).names \cup {Len(stack) + 1}, Passes(frame[t].call, "audit")
    PROVE  \E i \in Current(t).names : stack[i] = "audit" /\ i < frame[t].at
<1>1. PICK i \in Current(t).names : stack[i] = "audit"
  BY DEF Passes, Current
<1>2. /\ Current(t).names \subseteq 1 .. Len(stack) /\ Len(stack) \in Nat /\ DOMAIN stack = 1 .. Len(stack)
      /\ stack \in Seq(Handlers) /\ stack \in Stacks /\ frame[t].at \in Nat
  BY PlacedIs, StackIs DEF Base, TypeInv
<1>3. CASE frame[t].at = Len(stack) + 1
  BY <1>1, <1>2, <1>3
<1>4. CASE frame[t].at \in Current(t).names
  <2>1. frame[t].at \in DOMAIN stack /\ stack[frame[t].at] \in Handlers \ {"audit"}
    BY <1>2, <1>4 DEF Elsewhere
  <2>2. Over(stack, "audit", stack[frame[t].at])
    BY <1>2, <2>1 DEF AuditOutermost
  <2> QED BY <1>1, <1>2, <2>1, <2>2 DEF Over
<1> QED BY <1>3, <1>4

LEMMA AuditFirst ==
    ASSUME AuditOutermost, Base, NEW t \in Threads, Within(t), AtHandler(t, "audit"), NEW o, Rises(t, o)
    PROVE  frame'[t].at = 0
<1>1. /\ Current(t).names \subseteq 1 .. Len(stack) /\ DOMAIN stack = 1 .. Len(stack)
      /\ stack \in Stacks /\ frame[t].at \in Nat /\ frame[t].at \in DOMAIN stack
      /\ stack[frame[t].at] = "audit" /\ IsInjective(stack)
  BY PlacedIs, StackIs DEF Base, TypeInv, AtHandler, Within
<1> DEFINE a == frame'[t].at
<1>2. /\ a \in Nat /\ a < frame[t].at
      /\ a # 0 => a \in Current(t).names /\ stack[a] \in {"audit", "cache", "retry"}
  BY DEF Rises, GoesAbove
<1>3. ASSUME a # 0 PROVE FALSE
  <2>1. a \in DOMAIN stack
    BY <1>1, <1>2, <1>3
  <2>2. stack[a] # "audit"
    BY <1>1, <1>2, <2>1 DEF IsInjective
  <2>3. Over(stack, "audit", stack[a])
    BY <1>1, <1>2, <1>3, <2>2 DEF AuditOutermost, Handlers
  <2> QED BY <1>1, <1>2, <2>1, <2>3 DEF Over
<1> QED BY <1>3

(* What a call writes in audit's clause.                                   *)
LEMMA WritesAppend ==
    ASSUME AuditOutermost, Base, NEW t \in Threads, Within(t), Writes(t), AuditAppend(t)
    PROVE  Writes(t)'
<1> SUFFICES ASSUME NEW c, c = frame[t].call, NEW o, o = frame[t].out, NEW e, e = Entry(frame[t])
             PROVE  Writes(t)'
  OBVIOUS
<1>1. /\ AtHandler(t, "audit") /\ frame[t].phase = "audit-append"
      /\ IF HasSink THEN Stays(t, "audit-sink", {}) ELSE Rises(t, frame[t].out)
  BY AuditAppendIs
<1>2. /\ Passes(c, "audit") /\ Active(t) /\ frame'[t].call = c /\ o # "sink" /\ frame'[t].out = o
      /\ EntriesOf(c) = {} /\ Archived(c) = {}
  BY <1>1 DEF AtHandler, Passes, Current, Writes, Within, Stays, Rises, Alike
<1>3. /\ e \in EntryRecs /\ e.call = c /\ (e.verdict = "error") = Raised(o)
      /\ entries' = Append(entries, e) /\ archive' = archive
  BY <1>2, EntryIs DEF AuditAppend
<1>4. /\ EntriesOf(c)' = {Len(entries) + 1} /\ Len(entries) + 1 \in DOMAIN entries'
      /\ entries'[Len(entries) + 1] = e
  BY <1>2, <1>3, EntriesAppended
<1>5. Written(c, o)'
  BY <1>3, <1>4 DEF Written
<1>6. Archived(c)' = {}
  BY <1>2, <1>3 DEF Archived
<1>7. CASE HasSink
  <2>1. frame'[t].phase = "audit-sink"
    BY <1>1, <1>7 DEF Stays
  <2> QED BY <1>2, <1>5, <1>6, <2>1 DEF Writes
<1>8. CASE ~HasSink
  <2>1. frame'[t].phase = "up" /\ frame'[t].at = 0
    BY <1>1, <1>8, AuditFirst DEF Rises
  <2>2. Sent(c, o)'
    BY <1>8 DEF Sent
  <2> QED BY <1>2, <1>5, <2>1, <2>2 DEF Writes
<1> QED BY <1>7, <1>8

LEMMA WritesSink ==
    ASSUME AuditOutermost, Base, NEW t \in Threads, Within(t), Writes(t), AuditSink(t)
    PROVE  Writes(t)'
<1> SUFFICES ASSUME NEW c, c = frame[t].call, NEW o, o = frame[t].out
             PROVE  Writes(t)'
  OBVIOUS
<1>1. /\ AtHandler(t, "audit") /\ frame[t].phase = "audit-sink" /\ entries' = entries
      /\ \/ Rises(t, o) /\ archive' = Append(archive, c)
         \/ Rises(t, "sink") /\ archive' = archive
  BY AuditSinkIs DEF AuditSink
<1>2. /\ Passes(c, "audit") /\ Active(t) /\ frame'[t].call = c /\ o # "sink" /\ c \in Nat
      /\ Written(c, o) /\ Archived(c) = {}
  BY <1>1, PlacedIs DEF AtHandler, Passes, Current, Writes, Within, IsFrame, Frames
<1>3. frame'[t].phase = "up" /\ frame'[t].at = 0
  BY <1>1, AuditFirst DEF Rises
<1>4. CASE Rises(t, o) /\ archive' = Append(archive, c)
  <2>1. Archived(c)' = {Len(archive) + 1} /\ Len(archive) + 1 \in DOMAIN archive'
    BY <1>2, <1>4, ArchiveAppended
  <2>2. frame'[t].out = o
    BY <1>4 DEF Rises
  <2>3. Written(c, o)'
    BY <1>1, <1>2 DEF Written, EntriesOf
  <2>4. Sent(c, o)'
    BY <1>2, <2>1 DEF Sent
  <2> QED BY <1>2, <1>3, <2>2, <2>3, <2>4 DEF Writes
<1>5. CASE Rises(t, "sink") /\ archive' = archive
  <2>1. Untouched(c)
    BY <1>1, <1>5, NothingWritten
  <2>2. frame'[t].out = "sink"
    BY <1>5 DEF Rises
  <2>3. Written(c, "sink")
    BY <1>2 DEF Written
  <2>4. Sent(c, "sink")
    BY <1>2 DEF Sent
  <2>5. Written(c, "sink")' /\ Sent(c, "sink")'
    BY <2>1, <2>3, <2>4 DEF Untouched
  <2> QED BY <1>2, <1>3, <2>2, <2>5 DEF Writes
<1> QED BY <1>1, <1>4, <1>5

(* Before that, nothing is written.                                        *)
LEMMA WritesNothing ==
    ASSUME AuditOutermost, Base, NEW t \in Threads, Within(t), Writes(t),
           Plain(t) \/ AuditEnter(t) \/ AuditReadOp(t) \/ AuditReadHead(t)
    PROVE  Writes(t)'
<1> SUFFICES ASSUME NEW c, c = frame[t].call
             PROVE  Writes(t)'
  OBVIOUS
<1>1. Active(t) /\ frame'[t].call = c /\ (Passes(c, "audit")' <=> Passes(c, "audit"))
  BY WithinKeeps DEF Within
<1>2. EntriesOf(c)' = EntriesOf(c) /\ Archived(c)' = Archived(c)
  BY DEF Plain, AuditEnter, AuditReadOp, AuditReadHead, auditVars, EntriesOf, Archived
<1>3. CASE Plain(t) /\ \E o \in Outcomes : Rises(t, o) /\ (o # "sink" \/ o = frame[t].out) /\ Elsewhere(t)
  <2>1. frame[t].at > 0 /\ frame[t].phase \in {"down", "up"} /\ frame'[t].phase = "up"
        /\ (frame'[t].out # "sink" \/ frame'[t].out = frame[t].out)
    <3>1. frame[t].at \in Nat /\ frame'[t].at \in Nat /\ frame'[t].at < frame[t].at
      BY <1>1, <1>3, PlacedIs DEF Rises, GoesAbove
    <3> QED BY <1>3, <3>1, PlainInside DEF Plain, Rises, Stays, Sinks
  <2>2. frame[t].out # "sink" /\ frame'[t].out # "sink"
    BY <1>1, <2>1 DEF Writes
  <2>3. Passes(c, "audit") => frame'[t].at # 0
    <3>1. frame[t].at \in Current(t).names \cup {Len(stack) + 1}
      BY <1>1, <2>1, PlacedIs DEF Placed
    <3>2. Passes(c, "audit") => \E i \in Current(t).names : stack[i] = "audit" /\ i < frame[t].at
      BY <1>1, <1>3, <2>1, <3>1, AuditAbove
    <3>3. \A i \in Current(t).names : i \in Nat /\ i > 0
      BY <1>1, PlacedIs, StackIs
    <3> QED BY <1>3, <3>2, <3>3 DEF Rises, GoesAbove
  <2>4. Passes(c, "audit") => EntriesOf(c) = {} /\ Archived(c) = {}
    BY <1>1, <2>1 DEF Writes
  <2> QED BY <1>1, <1>2, <2>1, <2>2, <2>3, <2>4 DEF Writes
<1>4. ASSUME NEW g \in Handlers, AtHandler(t, g), frame[t].phase # "audit-sink",
             frame'[t].phase \notin {"up", "audit-sink"}, frame'[t].out = frame[t].out
      PROVE  Writes(t)'
  <2>1. frame[t].at > 0 /\ frame[t].out # "sink"
    BY <1>1, <1>4 DEF Writes, AtHandler
  <2>2. Passes(c, "audit") => EntriesOf(c) = {} /\ Archived(c) = {}
    BY <1>1, <1>4, <2>1 DEF Writes
  <2> QED BY <1>1, <1>2, <1>4, <2>1, <2>2 DEF Writes
<1>5. CASE Plain(t) /\ ~\E o \in Outcomes : Rises(t, o) /\ (o # "sink" \/ o = frame[t].out) /\ Elsewhere(t)
  <2>1. "rate-limit" \in Handlers /\ "retry" \in Handlers
    BY DEF Handlers
  <2>2. PICK g \in Handlers : AtHandler(t, g) /\ \/ Sinks(t, {"key", "attempt"})
                                                 \/ \E p \in {"bucket", "paying", "backoff"} : Stays(t, p, {"time"})
    BY <1>5, <2>1 DEF Plain
  <2>3. frame[t].phase # "audit-sink"
    BY <1>5, PlainInside
  <2> QED BY <1>4, <2>2, <2>3 DEF Sinks, Stays, Alike
<1>6. CASE AuditEnter(t) \/ AuditReadOp(t) \/ AuditReadHead(t)
  <2>1. /\ AtHandler(t, "audit") /\ frame[t].phase \in {"down", "up", "audit-op"} /\ "audit" \in Handlers
        /\ \/ Sinks(t, {"op"})
           \/ Stays(t, "audit-op", {"lifted", "link"}) \/ Stays(t, "audit-append", {"prev"})
    BY <1>6, AuditEnterIs, AuditReadOpIs, AuditReadHeadIs DEF Handlers
  <2> QED BY <1>4, <2>1 DEF Sinks, Stays, Alike
<1> QED BY <1>3, <1>5, <1>6

LEMMA OthersWrite ==
    ASSUME Base, AuditInv, NEW u \in Threads, frame'[u] = frame[u], Active(u)' <=> Active(u),
           Active(u) => /\ Passes(frame[u].call, "audit")' <=> Passes(frame[u].call, "audit")
                        /\ Untouched(frame[u].call)
    PROVE  Writes(u)'
<1> SUFFICES ASSUME NEW c, c = frame[u].call, NEW o, o = frame[u].out, Active(u)
             PROVE  Writes(u)'
  BY DEF Writes
<1>1. /\ EntriesOf(c)' = EntriesOf(c) /\ Archived(c)' = Archived(c)
      /\ Written(c, o)' <=> Written(c, o)
      /\ Sent(c, o)' <=> Sent(c, o)
  BY DEF Untouched
<1>2. Writes(u)
  BY DEF AuditInv
<1> QED BY <1>1, <1>2 DEF Writes

LEMMA CallKept ==
    ASSUME NEW c, AuditCall(c), Untouched(c), Passes(c, "audit")' <=> Passes(c, "audit"),
           calls'[c].end = calls[c].end
    PROVE  AuditCall(c)'
<1> SUFFICES ASSUME NEW o, o = calls[c].end
             PROVE  AuditCall(c)'
  OBVIOUS
<1>1. /\ EntriesOf(c)' = EntriesOf(c)
      /\ Written(c, o)' <=> Written(c, o)
      /\ Sent(c, o)' <=> Sent(c, o)
  BY DEF Untouched
<1> QED BY <1>1 DEF AuditCall

LEMMA AuditGoing ==
    ASSUME AuditOutermost, Base, AuditInv, NEW t \in Threads, Going(t)
    PROVE  AuditInv'
<1>1. Within(t) /\ Placed(t)
  BY GoingBase DEF Base
<1>2. /\ frame[t].call \in DOMAIN calls /\ DOMAIN calls' = DOMAIN calls
      /\ \A c \in DOMAIN calls : /\ calls'[c].end = calls[c].end
                                 /\ Passes(c, "audit")' <=> Passes(c, "audit")
  BY <1>1, WithinKeeps DEF Kept, Within
<1>3. Writes(t)'
  <2>1. Writes(t)
    BY DEF AuditInv
  <2> QED BY <1>1, <2>1, PlainMoves, WritesNothing, WritesAppend, WritesSink DEF InClause
<1>4. ASSUME NEW u \in Threads, u # t PROVE Writes(u)'
  <2>1. /\ frame'[u] = frame[u] /\ (Active(u)' <=> Active(u))
        /\ Active(u) => frame[u].call \in DOMAIN calls /\ frame[u].call # frame[t].call
    BY <1>1, <1>4, WithinKeeps
  <2>2. Active(u) => Untouched(frame[u].call)
    BY <2>1, OthersUntouched
  <2> QED BY <1>2, <2>1, <2>2, OthersWrite
<1>5. ASSUME NEW c \in DOMAIN calls PROVE AuditCall(c)'
  <2>1. AuditCall(c)
    BY DEF AuditInv
  <2>2. CASE c # frame[t].call
    BY <1>2, <2>1, <2>2, OthersUntouched, CallKept
  <2>3. CASE c = frame[t].call /\ Passes(c, "audit")
    BY <1>1, <1>2, <2>3 DEF AuditCall, Placed, Current, Within
  <2>4. CASE c = frame[t].call /\ ~Passes(c, "audit")
    <3>1. ~AuditAppend(t)
      <4>1. AuditAppend(t) => AtHandler(t, "audit")
        BY AuditAppendIs
      <4> QED BY <2>4, <4>1 DEF AtHandler, Passes, Current
    <3>2. entries' = entries
      BY <3>1, PlainMoves DEF InClause, Plain, AuditEnter, AuditReadOp, AuditReadHead, AuditSink, auditVars
    <3> QED BY <1>2, <2>1, <2>4, <3>2 DEF AuditCall, EntriesOf
  <2> QED BY <2>2, <2>3, <2>4
<1> QED BY <1>2, <1>3, <1>4, <1>5 DEF AuditInv

LEMMA AuditStep ==
    ASSUME AuditOutermost, Base, AuditInv, [Next]_vars
    PROVE  AuditInv'
<1>1. Aside \/ \E t \in Threads : Going(t) \/ Begins(t) \/ Returns(t)
  BY NextIs
<1>2. CASE Aside
  <2>1. \A c : Untouched(c) /\ (Passes(c, "audit")' <=> Passes(c, "audit"))
    BY <1>2, NothingWritten DEF Aside, Passes
  <2>2. \A u \in Threads : Writes(u)'
    BY <1>2, <2>1, OthersWrite DEF Aside, Active
  <2>3. \A c \in DOMAIN calls : AuditCall(c)'
    BY <1>2, <2>1, CallKept DEF Aside, AuditInv
  <2> QED BY <1>2, <2>2, <2>3 DEF Aside, AuditInv
<1>3. CASE \E t \in Threads : Going(t)
  BY <1>3, AuditGoing
<1>4. ASSUME NEW t \in Threads, Begins(t) PROVE AuditInv'
  <2>1. PICK n : n = Len(calls) + 1
    OBVIOUS
  <2>2. /\ frame'[t].call = n /\ n \notin DOMAIN calls /\ DOMAIN calls' = DOMAIN calls \cup {n}
        /\ \A c \in DOMAIN calls : calls'[c] = calls[c] /\ (Passes(c, "audit")' <=> Passes(c, "audit"))
        /\ \A u \in Threads : u # t =>
              /\ frame'[u] = frame[u] /\ (Active(u)' <=> Active(u))
              /\ Active(u) => frame[u].call \in DOMAIN calls
    BY <1>4, <2>1, BeginsKeeps
  <2>3. /\ entries' = entries /\ archive' = archive
        /\ frame'[t].phase = "down" /\ frame'[t].out = "none" /\ calls'[n].end = "open"
    BY <1>4, <2>1 DEF Begins, auditVars
  <2>4. \A c : Untouched(c)
    BY <2>3, NothingWritten
  <2>5. EntriesOf(n)' = {} /\ Archived(n)' = {}
    BY <2>2, <2>3 DEF EntriesOf, Archived, Base, SharedInv
  <2>6. Writes(t)'
    BY <2>2, <2>3, <2>5 DEF Writes
  <2>7. \A u \in Threads : u # t => Writes(u)'
    BY <2>2, <2>4, OthersWrite
  <2>8. \A c \in DOMAIN calls : AuditCall(c)'
    BY <2>2, <2>4, CallKept DEF AuditInv
  <2>9. AuditCall(n)'
    BY <2>3, <2>5 DEF AuditCall
  <2> QED BY <2>2, <2>6, <2>7, <2>8, <2>9 DEF AuditInv
<1>5. ASSUME NEW t \in Threads, Returns(t) PROVE AuditInv'
  <2>1. /\ ~Active(t)' /\ frame[t].call \in DOMAIN calls
        /\ \A c \in DOMAIN calls : (Passes(c, "audit")' <=> Passes(c, "audit"))
        /\ \A u \in Threads : u # t =>
              /\ frame'[u] = frame[u] /\ (Active(u)' <=> Active(u))
              /\ Active(u) => frame[u].call \in DOMAIN calls
    BY <1>5, ReturnsKeeps
  <2>2. /\ entries' = entries /\ archive' = archive /\ Active(t)
        /\ frame[t].phase = "up" /\ frame[t].at = 0 /\ DOMAIN calls' = DOMAIN calls
        /\ calls'[frame[t].call].end = frame[t].out
        /\ \A c \in DOMAIN calls : c # frame[t].call => calls'[c] = calls[c]
    BY <1>5 DEF Returns, auditVars
  <2>3. \A c : Untouched(c)
    BY <2>2, NothingWritten
  <2>4. Writes(t)'
    BY <2>1 DEF Writes
  <2>5. \A u \in Threads : u # t => Writes(u)'
    BY <2>1, <2>3, OthersWrite
  <2>6. ASSUME NEW c \in DOMAIN calls, c = frame[t].call, NEW o, o = frame[t].out PROVE AuditCall(c)'
    <3>1. Passes(c, "audit") => Written(c, o) /\ Sent(c, o)
      BY <2>2, <2>6 DEF AuditInv, Writes
    <3>2. ~Passes(c, "audit") => EntriesOf(c) = {}
      BY DEF AuditInv, AuditCall
    <3>3. Passes(c, "audit") => Written(c, o)' /\ Sent(c, o)'
      BY <2>3, <3>1 DEF Untouched
    <3>4. ~Passes(c, "audit") => EntriesOf(c)' = {}
      BY <2>3, <3>2 DEF Untouched
    <3> QED BY <2>1, <2>2, <2>6, <3>3, <3>4 DEF AuditCall
  <2>7. \A c \in DOMAIN calls : AuditCall(c)'
    BY <2>1, <2>2, <2>3, <2>6, CallKept DEF AuditInv
  <2> QED BY <2>2, <2>4, <2>5, <2>7 DEF AuditInv
<1> QED BY <1>1, <1>2, <1>3, <1>4, <1>5

(* With audit outermost, every call that has ended has left one entry and  *)
(* one only, an error if and only if the call raised, unless its own       *)
(* thread masked audit: then it has left none, and the masks of the other  *)
(* threads make no difference (audit.py, runtime.py).  The sink has been   *)
(* sent the entry once, or it raised and the caller knows.                 *)
THEOREM EveryCallAuditedOnce == ASSUME AuditOutermost PROVE Spec => []AuditComplete
<1>1. Init => AuditInv
  BY DEF Init, AuditInv, Writes, Active, Idle
<1>2. Base /\ AuditInv /\ [Next]_vars => AuditInv'
  BY AuditStep
<1>3. Base /\ AuditInv => AuditComplete
  <2> SUFFICES ASSUME Base, AuditInv, NEW c \in DOMAIN calls, calls[c].end # "open"
               PROVE  IF Through(c, "audit")
                      THEN \E i \in DOMAIN entries :
                              /\ EntriesOf(c) = {i}
                              /\ \/ calls[c].end = "sink"
                                 \/ (entries[i].verdict = "error") = Raised(calls[c].end)
                              /\ HasSink => IF calls[c].end = "sink" THEN Archived(c) = {}
                                            ELSE \E j \in DOMAIN archive : Archived(c) = {j}
                      ELSE EntriesOf(c) = {}
    BY DEF AuditComplete, Ended
  <2>1. Through(c, "audit") <=> Passes(c, "audit")
    BY DEF Base, CallOK, Handlers
  <2>2. CASE ~Passes(c, "audit")
    BY <2>1, <2>2 DEF AuditInv, AuditCall
  <2>3. CASE Passes(c, "audit")
    <3>1. Written(c, calls[c].end) /\ Sent(c, calls[c].end)
      BY <2>3 DEF AuditInv, AuditCall
    <3> QED BY <2>1, <2>3, <3>1 DEF Written, Sent
  <2> QED BY <2>2, <2>3
<1> QED BY <1>1, <1>2, <1>3, BaseAlways, PTL DEF Spec

-----------------------------------------------------------------------------
(* What a move that is not of the cache, of retry or of the vendor leaves  *)
(* as it was for them.                                                     *)
Passing(t) ==
    /\ frame'[t].attempt = frame[t].attempt /\ frame'[t].key = frame[t].key /\ cached' = cached
    /\ calls'[frame[t].call].performed = Current(t).performed
    /\ \A h \in {"cache", "retry"} : Inside(t, h)' <=> Inside(t, h)
    /\ Before(t, "cache") => Before(t, "cache")'
    /\ \/ Descending(t) /\ Descending(t)'
       \/ Descending(t) /\ Returning(t)' /\ frame'[t].out \notin {"transient", "result"}
       \/ Returning(t) /\ Returning(t)' /\ frame'[t].out \in {frame[t].out, "sink"}

LEMMA PassingSinks ==
    ASSUME Base, NEW t \in Threads, Within(t), NEW g \in Handlers \ {"cache", "retry"}, AtHandler(t, g),
           NEW S, Sinks(t, S), S \subseteq {"op"}, Descending(t), cached' = cached,
           calls'[frame[t].call].performed = Current(t).performed
    PROVE  Passing(t)
<1>1. \A h \in {"cache", "retry"} : Inside(t, h)' <=> Inside(t, h)
  BY InsideSinks
<1>2. Before(t, "cache") => Before(t, "cache")'
  BY BeforeSinks
<1> QED BY <1>1, <1>2 DEF Passing, Sinks, Alike, Descending

LEMMA PassingStays ==
    ASSUME Base, NEW t \in Threads, Within(t), NEW g \in Handlers \ {"cache", "retry"}, AtHandler(t, g),
           NEW p \in Phases \ {"down"}, NEW S, Stays(t, p, S), S \subseteq {"time", "lifted", "link", "prev"},
           (Descending(t) /\ p \in {"audit-op", "bucket", "paying"})
             \/ (Returning(t) /\ p \in {"audit-append", "audit-sink"}),
           cached' = cached, calls'[frame[t].call].performed = Current(t).performed
    PROVE  Passing(t)
<1>1. \A h \in {"cache", "retry"} : Inside(t, h)' <=> Inside(t, h)
  BY InsideStays
<1>2. Before(t, "cache") => Before(t, "cache")'
  BY BeforeStays
<1> QED BY <1>1, <1>2 DEF Passing, Stays, Alike, Descending, Returning

LEMMA PassingRises ==
    ASSUME Base, NEW t \in Threads, Within(t), ~AtHandler(t, "cache"), ~AtHandler(t, "retry"),
           NEW o, Rises(t, o),
           (Descending(t) /\ o \notin {"transient", "result"}) \/ (Returning(t) /\ o \in {frame[t].out, "sink"}),
           cached' = cached, calls'[frame[t].call].performed = Current(t).performed
    PROVE  Passing(t)
<1>1. \A h \in {"cache", "retry"} : Inside(t, h)' <=> Inside(t, h)
  BY InsideRises
<1>2. Before(t, "cache") => Before(t, "cache")'
  BY BeforeRises
<1> QED BY <1>1, <1>2 DEF Passing, Rises, Alike, Descending, Returning

LEMMA PassesBy ==
    ASSUME Base, NEW t \in Threads, Going(t), Within(t)
    PROVE  \/ Passing(t)
           \/ CacheLookup(t) \/ CacheStore(t) \/ RetryEnter(t) \/ RetryLeave(t) \/ RetryAgain(t)
           \/ \E o \in {"result", "transient", "fatal"} : Raw(t, o)
<1>1. CASE Bottom(t)
  <2>1. /\ Rises(t, "unhandled") /\ Gains(t, 0, 0) /\ frame[t].phase = "down" /\ cached' = cached
        /\ frame[t].at > Len(stack) /\ Current(t) \in CallRecs
    BY <1>1, BottomIs, PlacedIs DEF Bottom, Within
  <2>2. ~AtHandler(t, "cache") /\ ~AtHandler(t, "retry")
    BY <2>1, StackIs DEF AtHandler
  <2> QED BY <2>1, <2>2, PassingRises DEF Gains, Descending, CallRecs
<1>2. CASE Policy(t) \/ DryRun(t)
  <2>1. PICK g \in {"policy", "dry-run"} :
          /\ AtHandler(t, g) /\ Gains(t, 0, 0) /\ frame[t].phase = "down" /\ cached' = cached
          /\ Current(t) \in CallRecs
          /\ \/ Sinks(t, {})
             \/ \E o \in {"denied", "silent", "unapproved", "mock"} : Rises(t, o)
    BY <1>2, PolicyIs, DryRunIs, PlacedIs DEF Policy, DryRun, Within
  <2>2. g \in Handlers \ {"cache", "retry"} /\ ~AtHandler(t, "cache") /\ ~AtHandler(t, "retry")
    BY <2>1 DEF AtHandler, Handlers
  <2>3. calls'[frame[t].call].performed = Current(t).performed /\ Descending(t)
    BY <2>1 DEF Gains, Descending, CallRecs
  <2>4. CASE Sinks(t, {})
    BY <2>1, <2>2, <2>3, <2>4, PassingSinks
  <2>5. CASE \E o \in {"denied", "silent", "unapproved", "mock"} : Rises(t, o)
    BY <2>1, <2>2, <2>3, <2>5, PassingRises
  <2> QED BY <2>1, <2>4, <2>5
<1>3. CASE RateClock(t) \/ RateTake(t) \/ RateSlept(t)
  <2>1. /\ AtHandler(t, "rate-limit") /\ frame[t].phase \in {"down", "bucket", "paying"} /\ cached' = cached
        /\ Current(t) \in CallRecs /\ \E n \in {0, 1} : Gains(t, 0, n)
        /\ Sinks(t, {}) \/ \E p \in {"bucket", "paying"} : Stays(t, p, {"time"})
    BY <1>3, RateClockIs, RateTakeIs, RateSleptIs, PlacedIs DEF RateClock, RateTake, RateSlept, Within
  <2>2. /\ "rate-limit" \in Handlers \ {"cache", "retry"} /\ {"bucket", "paying"} \subseteq Phases \ {"down"}
        /\ calls'[frame[t].call].performed = Current(t).performed /\ Descending(t)
    BY <2>1 DEF Handlers, Phases, Gains, Descending, CallRecs
  <2>3. CASE Sinks(t, {})
    BY <2>1, <2>2, <2>3, PassingSinks
  <2>4. CASE \E p \in {"bucket", "paying"} : Stays(t, p, {"time"})
    BY <2>1, <2>2, <2>4, PassingStays
  <2> QED BY <2>1, <2>3, <2>4
<1>4. CASE AuditEnter(t) \/ AuditReadOp(t)
  <2>1. /\ AtHandler(t, "audit") /\ frame[t].phase \in {"down", "audit-op"} /\ cached' = cached
        /\ Current(t) \in CallRecs /\ Gains(t, 0, 0)
        /\ Sinks(t, {"op"}) \/ Stays(t, "audit-op", {"lifted", "link"})
    BY <1>4, AuditEnterIs, AuditReadOpIs, PlacedIs DEF AuditEnter, AuditReadOp, Within
  <2>2. /\ "audit" \in Handlers \ {"cache", "retry"} /\ "audit-op" \in Phases \ {"down"}
        /\ calls'[frame[t].call].performed = Current(t).performed /\ Descending(t)
    BY <2>1 DEF Handlers, Phases, Gains, Descending, CallRecs
  <2>3. CASE Sinks(t, {"op"})
    BY <2>1, <2>2, <2>3, PassingSinks
  <2>4. CASE Stays(t, "audit-op", {"lifted", "link"})
    BY <2>1, <2>2, <2>4, PassingStays
  <2> QED BY <2>1, <2>3, <2>4
<1>5. CASE AuditReadHead(t) \/ AuditAppend(t) \/ AuditSink(t)
  <2>1. /\ AtHandler(t, "audit") /\ frame[t].phase \in {"up", "audit-append", "audit-sink"} /\ cached' = cached
        /\ Current(t) \in CallRecs /\ Gains(t, 0, 0)
        /\ \/ Stays(t, "audit-append", {"prev"}) \/ Stays(t, "audit-sink", {})
           \/ \E o \in {frame[t].out, "sink"} : Rises(t, o)
    BY <1>5, AuditReadHeadIs, AuditAppendIs, AuditSinkIs, PlacedIs DEF AuditReadHead, AuditAppend, AuditSink, Within
  <2>2. /\ "audit" \in Handlers \ {"cache", "retry"} /\ {"audit-append", "audit-sink"} \subseteq Phases \ {"down"}
        /\ calls'[frame[t].call].performed = Current(t).performed /\ Returning(t)
        /\ ~AtHandler(t, "cache") /\ ~AtHandler(t, "retry")
    BY <2>1 DEF Handlers, Phases, Gains, Returning, CallRecs, AtHandler
  <2>3. CASE Stays(t, "audit-append", {"prev"})
    BY <2>1, <2>2, <2>3, PassingStays
  <2>4. CASE Stays(t, "audit-sink", {})
    BY <2>1, <2>2, <2>4, PassingStays
  <2>5. CASE \E o \in {frame[t].out, "sink"} : Rises(t, o)
    BY <2>1, <2>2, <2>5, PassingRises
  <2> QED BY <2>1, <2>3, <2>4, <2>5
<1> QED BY <1>1, <1>2, <1>3, <1>4, <1>5 DEF Going, Step

-----------------------------------------------------------------------------
(* What a call has performed, by its attempts.                             *)
LEMMA OverRetry ==
    ASSUME VendorGuarded, Base, NEW t \in Threads, AtHandler(t, "raw"), Passes(frame[t].call, "retry")
    PROVE  Inside(t, "retry")
BY NotBelow DEF VendorGuarded, Base, TypeInv

LEMMA TriesGoing ==
    ASSUME VendorGuarded, Base, NEW t \in Threads, Tries(t), Going(t), Within(t)
    PROVE  Tries(t)'
<1>1. /\ Active(t) /\ frame'[t].call = frame[t].call /\ Current(t)' = calls'[frame[t].call]
      /\ Current(t) \in CallRecs /\ Current(t).performed \in Nat /\ frame[t].attempt \in Nat
      /\ (Passes(frame[t].call, "retry")' <=> Passes(frame[t].call, "retry"))
      /\ MaxAttempts \in Nat /\ MaxAttempts > 0 /\ frame[t].attempt < MaxAttempts
  <2>1. /\ Active(t) /\ frame'[t].call = frame[t].call /\ Current(t)' = calls'[frame[t].call]
        /\ Current(t) \in CallRecs /\ frame[t].attempt \in Nat
        /\ (Passes(frame[t].call, "retry")' <=> Passes(frame[t].call, "retry"))
    BY WithinKeeps, PlacedIs DEF Within
  <2>2. MaxAttempts \in Nat /\ MaxAttempts > 0
    BY EffectConstantsOK
  <2>3. frame[t].attempt < MaxAttempts
    BY <2>1 DEF Tries
  <2>4. Current(t).performed \in Nat
    BY <2>1 DEF CallRecs
  <2> QED BY <2>1, <2>2, <2>3, <2>4
<1>2. CASE Passing(t)
  <2>1. /\ frame'[t].attempt = frame[t].attempt /\ calls'[frame[t].call].performed = Current(t).performed
        /\ (Inside(t, "retry")' <=> Inside(t, "retry")) /\ frame'[t].phase # "backoff"
        /\ \/ Descending(t) /\ Descending(t)' /\ ~Returning(t)'
           \/ Descending(t) /\ Returning(t)' /\ ~Descending(t)' /\ frame'[t].out # "transient"
           \/ Returning(t) /\ Returning(t)' /\ ~Descending(t)' /\ frame'[t].out \in {frame[t].out, "sink"}
    BY <1>2 DEF Passing, Descending, Returning
  <2> QED BY <1>1, <2>1 DEF Tries
<1>3. CASE CacheLookup(t) \/ CacheStore(t)
  <2>1. /\ AtHandler(t, "cache") /\ frame[t].phase \in {"down", "up"}
        /\ calls'[frame[t].call] = Current(t)
        /\ \/ frame[t].phase = "down" /\ Sinks(t, {"key"})
           \/ frame[t].phase = "down" /\ \E o \in Outcomes : ~Raised(o) /\ Rises(t, o)
           \/ frame[t].phase = "up" /\ Rises(t, frame[t].out)
    BY <1>3, CacheLookupIs, CacheStoreIs DEF Base, SharedInv
  <2>2. Inside(t, "retry")' <=> Inside(t, "retry")
    <3>1. ~AtHandler(t, "retry")
      BY <2>1 DEF AtHandler
    <3> QED BY <2>1, <3>1, InsideSinks, InsideRises
  <2>3. /\ frame'[t].attempt = frame[t].attempt /\ frame'[t].phase # "backoff"
        /\ \/ Descending(t) /\ Descending(t)' /\ ~Returning(t)'
           \/ Descending(t) /\ Returning(t)' /\ ~Descending(t)' /\ frame'[t].out # "transient"
           \/ Returning(t) /\ Returning(t)' /\ ~Descending(t)' /\ frame'[t].out = frame[t].out
    BY <2>1 DEF Sinks, Rises, Alike, Descending, Returning, Raised
  <2> QED BY <1>1, <2>1, <2>2, <2>3 DEF Tries
<1>4. CASE RetryEnter(t) \/ RetryAgain(t)
  <2>1. /\ AtHandler(t, "retry") /\ calls'[frame[t].call] = Current(t) /\ Sinks(t, {"attempt"})
        /\ \/ frame[t].phase = "down" /\ frame'[t].attempt = 0
           \/ frame[t].phase = "backoff" /\ frame'[t].attempt = frame[t].attempt + 1
    BY <1>4, RetryEnterIs, RetryAgainIs
  <2>2. /\ Inside(t, "retry")' /\ (Inside(t, "retry") <=> frame[t].phase # "down")
        /\ Passes(frame[t].call, "retry")
    BY <2>1, InsideSinks, InsideOwn DEF AtHandler, Passes, Current
  <2>3. Descending(t)' /\ ~Returning(t)' /\ frame'[t].phase # "backoff" /\ (frame[t].phase = "down" => Descending(t))
    BY <2>1 DEF Sinks, Descending, Returning
  <2> QED BY <1>1, <2>1, <2>2, <2>3 DEF Tries
<1>5. CASE RetryLeave(t)
  <2>1. /\ AtHandler(t, "retry") /\ calls'[frame[t].call] = Current(t) /\ frame[t].phase = "up"
        /\ \/ (frame[t].out # "transient" \/ frame[t].attempt = MaxAttempts - 1) /\ Rises(t, frame[t].out)
           \/ /\ frame[t].out = "transient" /\ frame[t].attempt # MaxAttempts - 1
              /\ Stays(t, "backoff", {"time"})
    BY <1>5, RetryLeaveIs DEF LastAttempt
  <2>2. Inside(t, "retry") /\ Passes(frame[t].call, "retry") /\ Returning(t)
    BY <2>1, InsideOwn DEF AtHandler, Passes, Current, Returning
  <2>3. /\ Current(t).performed <= frame[t].attempt + 1
        /\ frame[t].out = "transient" => Current(t).performed = frame[t].attempt + 1
    BY <1>1, <2>2 DEF Tries
  <2>4. CASE (frame[t].out # "transient" \/ frame[t].attempt = MaxAttempts - 1) /\ Rises(t, frame[t].out)
    <3>1. ~Inside(t, "retry")'
      BY <2>1, <2>4, InsideRises
    <3>2. /\ frame'[t].phase = "up" /\ frame'[t].out = frame[t].out /\ frame'[t].attempt = frame[t].attempt
      BY <2>4 DEF Rises, Alike
    <3>3. ~Descending(t)'
      BY <3>2 DEF Descending
    <3> QED BY <1>1, <2>1, <2>3, <2>4, <3>1, <3>2, <3>3 DEF Tries
  <2>5. CASE frame[t].out = "transient" /\ frame[t].attempt # MaxAttempts - 1 /\ Stays(t, "backoff", {"time"})
    <3>1. Inside(t, "retry")'
      BY <2>1, <2>2, <2>5, InsideStays
    <3>2. /\ frame'[t].phase = "backoff" /\ frame'[t].attempt = frame[t].attempt
          /\ ~Descending(t)' /\ ~Returning(t)'
      BY <2>5 DEF Stays, Alike, Descending, Returning
    <3>3. frame[t].attempt + 1 < MaxAttempts
      BY <1>1, <2>5
    <3> QED BY <1>1, <2>1, <2>3, <2>5, <3>1, <3>2, <3>3 DEF Tries
  <2> QED BY <2>1, <2>4, <2>5
<1>6. CASE \E o \in {"result", "transient", "fatal"} : Raw(t, o)
  <2>1. /\ AtHandler(t, "raw") /\ frame[t].phase = "down" /\ Gains(t, 1, 0)
        /\ \E o \in {"result", "transient", "fatal"} : Rises(t, o)
    BY <1>6, RawIs
  <2>2. Passes(frame[t].call, "retry") => Inside(t, "retry") /\ Inside(t, "retry")'
    <3>1. ~AtHandler(t, "retry")
      BY <2>1 DEF AtHandler
    <3> QED BY <2>1, <3>1, OverRetry, InsideRises
  <2>3. /\ Descending(t) /\ ~Descending(t)' /\ Returning(t)' /\ frame'[t].phase # "backoff"
        /\ frame'[t].attempt = frame[t].attempt
    BY <2>1 DEF Rises, Alike, Descending, Returning
  <2>4. calls'[frame[t].call].performed = Current(t).performed + 1
    BY <2>1 DEF Gains
  <2> QED BY <1>1, <2>2, <2>3, <2>4 DEF Tries
<1> QED BY <1>2, <1>3, <1>4, <1>5, <1>6, PassesBy

-----------------------------------------------------------------------------
(* What a call has been granted: a token, and then the vendor.             *)
LEMMA ToVendor ==
    ASSUME VendorGuarded, Base, NEW t \in Threads, Within(t), NEW g, AtHandler(t, g), NEW S, Sinks(t, S),
           Passes(frame[t].call, "rate-limit"), Passes(frame[t].call, "raw"), g # "raw"
    PROVE  AtVendor(t)' <=> g = "rate-limit"
<1>1. PICK i \in Current(t).names : stack[i] = "rate-limit"
  BY DEF Passes, Current
<1>2. PICK j \in Current(t).names : stack[j] = "raw"
  BY DEF Passes, Current
<1>3. /\ Current(t).names \subseteq 1 .. Len(stack) /\ DOMAIN stack = 1 .. Len(stack) /\ Len(stack) \in Nat
      /\ stack \in Stacks /\ IsInjective(stack) /\ frame[t].at \in Nat /\ stack' = stack
      /\ frame[t].at \in Current(t).names /\ stack[frame[t].at] = g
  BY PlacedIs, StackIs DEF Base, TypeInv, Within, AtHandler
<1>4. j = i + 1 /\ \A k \in DOMAIN stack : (stack[k] = "raw" => k = j) /\ (stack[k] = "rate-limit" => k = i)
  BY <1>1, <1>2, <1>3 DEF VendorGuarded, IsInjective
<1> DEFINE b == frame'[t].at
<1>5. /\ b \in Nat /\ b \in Current(t).names \cup {Len(stack) + 1} /\ b > frame[t].at
      /\ \A k \in Current(t).names : k > frame[t].at => b <= k
      /\ frame'[t].phase = "down"
  BY DEF Sinks, GoesBelow
<1>6. AtVendor(t)' <=> b \in DOMAIN stack /\ stack[b] = "raw"
  BY <1>3, <1>5 DEF AtVendor
<1> HIDE DEF b
<1>7. AtVendor(t)' <=> b = j
  BY <1>2, <1>3, <1>4, <1>6
<1>8. g = "rate-limit" <=> frame[t].at = i
  BY <1>1, <1>3, <1>4
<1>9. frame[t].at # j
  BY <1>2, <1>3
<1>10. frame[t].at = i => b = j
  BY <1>2, <1>3, <1>4, <1>5
<1>11. b = j => frame[t].at = i
  BY <1>1, <1>3, <1>4, <1>5, <1>9
<1> QED BY <1>7, <1>8, <1>10, <1>11

LEMMA PaidSame ==
    ASSUME Base, NEW t \in Threads, Within(t), Paid(t), Gains(t, 0, 0), ~AtVendor(t),
           Passes(frame[t].call, "rate-limit") /\ Passes(frame[t].call, "raw") => ~AtVendor(t)'
    PROVE  Paid(t)'
<1>1. /\ Active(t) /\ frame'[t].call = frame[t].call /\ Current(t)' = calls'[frame[t].call]
      /\ Current(t) \in CallRecs
      /\ \A h : Passes(frame[t].call, h)' <=> Passes(frame[t].call, h)
  BY WithinKeeps, PlacedIs DEF Within
<1>2. Current(t).performed \in Nat /\ Current(t).granted \in Nat
  BY <1>1 DEF CallRecs
<1>3. /\ calls'[frame[t].call].performed = Current(t).performed
      /\ calls'[frame[t].call].granted = Current(t).granted
  BY <1>2 DEF Gains
<1> QED BY <1>1, <1>2, <1>3 DEF Paid

LEMMA PaidGoing ==
    ASSUME VendorGuarded, Base, NEW t \in Threads, Paid(t), Going(t), Within(t)
    PROVE  Paid(t)'
<1>1. /\ Active(t) /\ frame'[t].call = frame[t].call /\ Current(t)' = calls'[frame[t].call]
      /\ Current(t) \in CallRecs /\ Current(t).performed \in Nat /\ Current(t).granted \in Nat
      /\ \A h : Passes(frame[t].call, h)' <=> Passes(frame[t].call, h)
  BY WithinKeeps, PlacedIs DEF Within, CallRecs
<1>2. ASSUME NEW g, AtHandler(t, g), g \notin {"raw", "rate-limit"}, Gains(t, 0, 0),
             \/ \E S : Sinks(t, S)
             \/ frame'[t].phase # "down"
      PROVE  Paid(t)'
  <2>1. ~AtVendor(t)
    BY <1>2 DEF AtHandler, AtVendor
  <2>2. Passes(frame[t].call, "rate-limit") /\ Passes(frame[t].call, "raw") => ~AtVendor(t)'
    BY <1>2, ToVendor DEF AtVendor
  <2> QED BY <2>1, <2>2, <1>2, PaidSame
<1>3. CASE Bottom(t)
  <2>1. Gains(t, 0, 0) /\ frame'[t].phase = "up" /\ frame[t].at \notin DOMAIN stack
    BY <1>3, BottomIs, StackIs DEF Rises, Bottom
  <2> QED BY <2>1, PaidSame DEF AtVendor
<1>4. CASE \/ Policy(t) \/ DryRun(t) \/ CacheLookup(t) \/ CacheStore(t)
           \/ RetryEnter(t) \/ RetryLeave(t) \/ RetryAgain(t)
  <2>1. \E g \in {"policy", "dry-run", "cache", "retry"} : AtHandler(t, g) /\ Gains(t, 0, 0)
    BY <1>4, PolicyIs, DryRunIs, CacheLookupIs, CacheStoreIs, RetryEnterIs, RetryLeaveIs, RetryAgainIs
  <2>2. (\E S : Sinks(t, S)) \/ (\E o : Rises(t, o)) \/ Stays(t, "backoff", {"time"})
    BY <1>4, PolicyIs, DryRunIs, CacheLookupIs, CacheStoreIs, RetryEnterIs, RetryLeaveIs, RetryAgainIs
  <2>3. (\E o : Rises(t, o)) \/ Stays(t, "backoff", {"time"}) => frame'[t].phase # "down"
    BY DEF Rises, Stays
  <2> QED BY <1>2, <2>1, <2>2, <2>3
<1>5. CASE AuditEnter(t) \/ AuditReadOp(t) \/ AuditReadHead(t) \/ AuditAppend(t) \/ AuditSink(t)
  <2>1. AtHandler(t, "audit") /\ Gains(t, 0, 0)
    BY <1>5, AuditEnterIs, AuditReadOpIs, AuditReadHeadIs, AuditAppendIs, AuditSinkIs
  <2>2. (\E S : Sinks(t, S)) \/ (\E o : Rises(t, o))
        \/ \E p \in {"audit-op", "audit-append", "audit-sink"} : \E S : Stays(t, p, S)
    BY <1>5, AuditEnterIs, AuditReadOpIs, AuditReadHeadIs, AuditAppendIs, AuditSinkIs
  <2>3. (\E o : Rises(t, o)) \/ (\E p \in {"audit-op", "audit-append", "audit-sink"} : \E S : Stays(t, p, S))
        => frame'[t].phase # "down"
    BY DEF Rises, Stays
  <2> QED BY <1>2, <2>1, <2>2, <2>3
<1>6. CASE RateClock(t) \/ RateTake(t) \/ RateSlept(t)
  <2>1. /\ AtHandler(t, "rate-limit")
        /\ \/ Gains(t, 0, 1) /\ Sinks(t, {})
           \/ Gains(t, 0, 0) /\ \E p \in {"bucket", "paying"} : Stays(t, p, {"time"})
    BY <1>6, RateClockIs, RateTakeIs, RateSleptIs
  <2>2. ~AtVendor(t)
    BY <2>1 DEF AtHandler, AtVendor
  <2>3. CASE Gains(t, 0, 1) /\ Sinks(t, {})
    <3>1. Passes(frame[t].call, "rate-limit") /\ Passes(frame[t].call, "raw") => AtVendor(t)'
      BY <2>1, <2>3, ToVendor
    <3>2. /\ calls'[frame[t].call].performed = Current(t).performed
          /\ calls'[frame[t].call].granted = Current(t).granted + 1
      BY <1>1, <2>3 DEF Gains
    <3> QED BY <1>1, <2>2, <3>1, <3>2 DEF Paid
  <2>4. CASE Gains(t, 0, 0) /\ \E p \in {"bucket", "paying"} : Stays(t, p, {"time"})
    <3>1. ~AtVendor(t)'
      BY <2>4 DEF Stays, AtVendor
    <3> QED BY <2>2, <2>4, <3>1, PaidSame
  <2> QED BY <2>1, <2>3, <2>4
<1>7. CASE \E o \in {"result", "transient", "fatal"} : Raw(t, o)
  <2>1. /\ AtHandler(t, "raw") /\ frame[t].phase = "down" /\ Gains(t, 1, 0)
        /\ \E o \in {"result", "transient", "fatal"} : Rises(t, o)
    BY <1>7, RawIs
  <2>2. AtVendor(t) /\ ~AtVendor(t)'
    BY <2>1 DEF AtHandler, AtVendor, Rises
  <2>3. /\ calls'[frame[t].call].performed = Current(t).performed + 1
        /\ calls'[frame[t].call].granted = Current(t).granted
    BY <1>1, <2>1 DEF Gains
  <2> QED BY <1>1, <2>2, <2>3 DEF Paid
<1> QED BY <1>3, <1>4, <1>5, <1>6, <1>7 DEF Going, Step

-----------------------------------------------------------------------------
(* What the cache remembers, and of which calls.                           *)
Settled ==
    /\ stack' = stack /\ DOMAIN calls \subseteq DOMAIN calls' /\ DOMAIN cached \subseteq DOMAIN cached'
    /\ \A c \in DOMAIN calls :
          /\ calls'[c].op = calls[c].op /\ calls'[c].args = calls[c].args /\ calls'[c].link = calls[c].link
          /\ calls'[c].names = calls[c].names /\ calls'[c].before = calls[c].before
          /\ calls[c].end # "open" => calls'[c].end = calls[c].end

LEMMA KeyKept ==
    ASSUME NEW c, stack' = stack, calls'[c].op = calls[c].op, calls'[c].args = calls[c].args,
           calls'[c].link = calls[c].link, calls'[c].names = calls[c].names
    PROVE  KeyIs(c)' = KeyIs(c) /\ \A h : Passes(c, h)' <=> Passes(c, h)
<1>1. \A h : Passes(c, h)' <=> Passes(c, h)
  BY DEF Passes
<1>2. AuditedFirst' <=> AuditedFirst
  BY DEF AuditedFirst
<1>3. KeyIs(c)' = <<calls'[c].op, calls'[c].args,
                    IF Passes(c, "audit")' /\ AuditedFirst' THEN Direct ELSE calls'[c].link>>
  BY DEF KeyIs
<1> QED BY <1>1, <1>2, <1>3 DEF KeyIs

LEMMA RememberedKept ==
    ASSUME Base, Settled, NEW c \in DOMAIN calls
    PROVE  /\ Remembered(c)' <=> Remembered(c)
           /\ \A h : Passes(c, h)' <=> Passes(c, h)
           /\ KeyIs(c)' = KeyIs(c)
           /\ Known(c) => Known(c)'
<1>1. \A d \in DOMAIN calls : KeyIs(d)' = KeyIs(d) /\ \A h : Passes(d, h)' <=> Passes(d, h)
  BY KeyKept DEF Settled
<1>2. /\ calls'[c].before = calls[c].before
      /\ \A d \in calls[c].before : d \in DOMAIN calls /\ calls'[d].end = calls[d].end
  BY DEF Base, CallOK, Settled
<1>3. Remembered(c)' <=> Remembered(c)
  BY <1>1, <1>2 DEF Remembered
<1>4. Known(c) => Known(c)'
  BY <1>1 DEF Known, Settled
<1> QED BY <1>1, <1>3, <1>4

LEMMA GoingSettles ==
    ASSUME Base, NEW t \in Threads, Going(t), Within(t)
    PROVE  Settled
<1>1. DOMAIN cached \subseteq DOMAIN cached'
  <2>1. CASE CacheStore(t)
    BY <2>1 DEF CacheStore
  <2>2. CASE ~CacheStore(t)
    BY <2>2 DEF Going, Step, Bottom, Policy, DryRun, CacheLookup, RetryEnter, RetryLeave, RetryAgain,
                RateClock, RateTake, RateSlept, Raw, AuditEnter, AuditReadOp, AuditReadHead, AuditAppend, AuditSink
  <2> QED BY <2>1, <2>2
<1>2. \A c \in DOMAIN calls : Kept(calls[c], calls'[c])
  BY WithinKeeps
<1> QED BY <1>1, <1>2 DEF Settled, Kept, Within

(* At the cache, the key is the one that is expected there.                *)
LEMMA KeyAtCache ==
    ASSUME Base, LinkInv, NEW t \in Threads, AtHandler(t, "cache"), frame[t].phase = "down"
    PROVE  CacheKey(t) = KeyIs(frame[t].call)
<1>1. /\ \A i \in Current(t).names : i \in DOMAIN stack /\ i \in Nat
      /\ frame[t].at \in Current(t).names /\ frame[t].at \in DOMAIN stack /\ stack[frame[t].at] = "cache"
      /\ IsInjective(stack) /\ Active(t) /\ frame[t].at \in Nat
  BY PlacedIs, StackIs DEF AtHandler
<1>2. /\ Inside(t, "audit") => frame[t].link = Direct
      /\ ~Inside(t, "audit") => frame[t].link = Current(t).link
  BY <1>1 DEF LinkInv, Links1, Descending
<1>3. ASSUME Inside(t, "audit") PROVE Passes(frame[t].call, "audit") /\ AuditedFirst
  <2>1. PICK i \in Current(t).names : stack[i] = "audit" /\ frame[t].at >= i
    BY <1>1, <1>3 DEF Inside
  <2> QED BY <1>1, <1>3, <2>1, InsidePasses DEF AuditedFirst
<1>4. ASSUME Passes(frame[t].call, "audit"), AuditedFirst PROVE Inside(t, "audit")
  <2>1. PICK i \in Current(t).names : stack[i] = "audit"
    BY <1>4 DEF Passes, Current
  <2>2. PICK a, b \in DOMAIN stack : a < b /\ stack[a] = "audit" /\ stack[b] = "cache"
    BY <1>4 DEF AuditedFirst
  <2>3. a = i /\ b = frame[t].at
    BY <1>1, <2>1, <2>2 DEF IsInjective
  <2> QED BY <2>1, <2>2, <2>3 DEF Inside
<1> QED BY <1>2, <1>3, <1>4 DEF CacheKey, KeyIs, Current

(* Moves that the cache has no part in.                                    *)
Recalling(t) ==
    /\ frame'[t].key = frame[t].key
    /\ Inside(t, "cache")' <=> Inside(t, "cache")
    /\ Before(t, "cache") => Before(t, "cache")'
    /\ Returning(t)' /\ frame'[t].out = "result" =>
          (Returning(t) /\ frame[t].out = "result") \/ Inside(t, "cache") \/ ~Passes(frame[t].call, "cache")

LEMMA RecallingIs ==
    ASSUME VendorGuarded, Base, NEW t \in Threads, Going(t), Within(t), ~CacheLookup(t), ~CacheStore(t)
    PROVE  Recalling(t)
<1>1. CASE Passing(t)
  BY <1>1 DEF Passing, Recalling, Descending, Returning
<1>2. CASE RetryEnter(t) \/ RetryAgain(t) \/ RetryLeave(t)
  <2>1. /\ AtHandler(t, "retry")
        /\ \/ Sinks(t, {"attempt"})
           \/ frame[t].phase = "up" /\ Rises(t, frame[t].out)
           \/ Stays(t, "backoff", {"time"})
    BY <1>2, RetryEnterIs, RetryAgainIs, RetryLeaveIs
  <2>2. /\ Inside(t, "cache")' <=> Inside(t, "cache")
        /\ Before(t, "cache") => Before(t, "cache")'
    <3>1. ~AtHandler(t, "cache")
      BY <2>1 DEF AtHandler
    <3>2. CASE Sinks(t, {"attempt"})
      BY <2>1, <3>2, InsideSinks, BeforeSinks
    <3>3. CASE Rises(t, frame[t].out)
      BY <3>1, <3>3, InsideRises, BeforeRises
    <3>4. CASE Stays(t, "backoff", {"time"})
      BY <2>1, <3>4, InsideStays, BeforeStays
    <3> QED BY <2>1, <3>2, <3>3, <3>4
  <2> QED BY <2>1, <2>2 DEF Recalling, Sinks, Rises, Stays, Alike, Returning
<1>3. CASE \E o \in {"result", "transient", "fatal"} : Raw(t, o)
  <2>1. AtHandler(t, "raw") /\ \E o \in {"result", "transient", "fatal"} : Rises(t, o)
    BY <1>3, RawIs
  <2>2. ~AtHandler(t, "cache")
    BY <2>1 DEF AtHandler
  <2>3. Passes(frame[t].call, "cache") => Inside(t, "cache")
    BY <2>1, NotBelow DEF VendorGuarded, Base, TypeInv
  <2>4. /\ Inside(t, "cache")' <=> Inside(t, "cache")
        /\ Before(t, "cache") => Before(t, "cache")'
    BY <2>1, <2>2, InsideRises, BeforeRises
  <2> QED BY <2>1, <2>3, <2>4 DEF Recalling, Rises, Alike
<1> QED BY <1>1, <1>2, <1>3, PassesBy

LEMMA RecallsGoing ==
    ASSUME VendorGuarded, Base, LinkInv, NEW t \in Threads, Recalls(t), Going(t), Within(t),
           \A c \in DOMAIN calls : PaidCall(c)
    PROVE  Recalls(t)'
<1> SUFFICES ASSUME NEW c, c = frame[t].call
             PROVE  Recalls(t)'
  OBVIOUS
<1>1. /\ Active(t) /\ frame'[t].call = c /\ c \in DOMAIN calls
      /\ (Passes(c, "cache")' <=> Passes(c, "cache"))
      /\ (Remembered(c)' <=> Remembered(c)) /\ KeyIs(c)' = KeyIs(c) /\ (Known(c) => Known(c)')
  BY WithinKeeps, GoingSettles, RememberedKept DEF Within
<1>2. CASE ~CacheLookup(t) /\ ~CacheStore(t)
  BY <1>1, <1>2, RecallingIs DEF Recalling, Recalls
<1>3. CASE CacheLookup(t)
  <2>1. /\ AtHandler(t, "cache") /\ frame[t].phase = "down" /\ CacheKey(t) = KeyIs(c)
        /\ \/ CacheKey(t) \in DOMAIN cached /\ \E o : Rises(t, o)
           \/ CacheKey(t) \notin DOMAIN cached /\ Sinks(t, {"key"}) /\ frame'[t].key = CacheKey(t)
    BY <1>3, CacheLookupIs, KeyAtCache
  <2>2. ~Inside(t, "cache") /\ Passes(c, "cache")
    BY <2>1, InsideOwn DEF AtHandler, Passes, Current
  <2>3. CASE CacheKey(t) \in DOMAIN cached /\ \E o : Rises(t, o)
    <3>1. ~Inside(t, "cache")'
      BY <2>2, <2>3, InsideRises
    <3>2. Before(t, "cache") => Before(t, "cache")'
      BY <2>3, BeforeRises
    <3>3. Known(c)
      BY <2>1, <2>3 DEF Known
    <3> QED BY <1>1, <2>2, <3>1, <3>2, <3>3 DEF Recalls
  <2>4. CASE CacheKey(t) \notin DOMAIN cached /\ Sinks(t, {"key"}) /\ frame'[t].key = CacheKey(t)
    <3>1. ~Known(c)
      BY <2>1, <2>4 DEF Known
    <3>2. ~Remembered(c)
      <4>1. ASSUME Remembered(c) PROVE FALSE
        <5>1. PICK d \in calls[c].before : Passes(d, "cache") /\ KeyIs(d) = KeyIs(c) /\ calls[d].end = "result"
          BY <4>1 DEF Remembered
        <5>2. d \in DOMAIN calls
          BY <1>1 DEF Base, CallOK
        <5>3. Known(d)
          BY <5>1, <5>2 DEF PaidCall
        <5> QED BY <3>1, <5>1, <5>3 DEF Known
      <4> QED BY <4>1
    <3>3. ~Returning(t)'
      BY <2>4 DEF Sinks, Returning
    <3>4. frame'[t].key = KeyIs(c)
      BY <2>1, <2>4
    <3> QED BY <1>1, <3>2, <3>3, <3>4 DEF Recalls
  <2> QED BY <2>1, <2>3, <2>4
<1>4. CASE CacheStore(t)
  <2>1. /\ AtHandler(t, "cache") /\ frame[t].phase = "up" /\ Rises(t, frame[t].out)
        /\ ~Raised(frame[t].out) => frame[t].key \in DOMAIN cached'
    BY <1>4, CacheStoreIs DEF CacheStore
  <2>2. Inside(t, "cache") /\ Passes(c, "cache")
    BY <2>1, InsideOwn DEF AtHandler, Passes, Current
  <2>3. frame[t].key = KeyIs(c)
    BY <1>1, <2>2 DEF Recalls
  <2>4. frame[t].out = "result" => Known(c)'
    BY <1>1, <2>1, <2>3 DEF Known, Raised
  <2>5. /\ ~Inside(t, "cache")' /\ (Before(t, "cache") => Before(t, "cache")')
        /\ frame'[t].out = frame[t].out
    BY <2>1, InsideRises, BeforeRises DEF Rises
  <2> QED BY <1>1, <2>2, <2>4, <2>5 DEF Recalls
<1> QED BY <1>2, <1>3, <1>4

(* What is remembered is neither performed again nor paid for again.       *)
LEMMA RememberedSpends ==
    ASSUME VendorGuarded, Base, NEW t \in Threads, Recalls(t), Going(t), Remembered(frame[t].call)
    PROVE  Gains(t, 0, 0)
<1>1. ASSUME NEW g \in {"rate-limit", "raw"}, AtHandler(t, g) PROVE FALSE
  <2>1. Active(t) /\ Passes(frame[t].call, "cache")
    BY <1>1 DEF AtHandler, Remembered
  <2>2. ~Before(t, "cache")
    BY <1>1, <2>1, NotBelow DEF VendorGuarded, Base, TypeInv
  <2> QED BY <2>1, <2>2 DEF Recalls
<1>2. ~RateTake(t) /\ ~RateSlept(t) /\ \A o \in {"result", "transient", "fatal"} : ~Raw(t, o)
  BY <1>1, RateTakeIs, RateSleptIs, RawIs
<1> QED BY <1>2, BottomIs, PolicyIs, DryRunIs, CacheLookupIs, CacheStoreIs, RetryEnterIs, RetryLeaveIs, RetryAgainIs,
           RateClockIs, AuditEnterIs, AuditReadOpIs, AuditReadHeadIs, AuditAppendIs, AuditSinkIs DEF Going, Step

-----------------------------------------------------------------------------
LEMMA PaidOthers ==
    ASSUME Base, PaidInv, Settled, NEW u \in Threads, frame'[u] = frame[u], Active(u)' <=> Active(u),
           Active(u) => Current(u)' = Current(u)
    PROVE  Paid(u)' /\ Tries(u)' /\ Recalls(u)'
<1> SUFFICES ASSUME NEW c, c = frame[u].call, Active(u)
             PROVE  Paid(u)' /\ Tries(u)' /\ Recalls(u)'
  BY DEF Paid, Tries, Recalls
<1>1. c \in DOMAIN calls
  BY PlacedIs
<1>2. /\ \A h : Passes(c, h)' <=> Passes(c, h)
      /\ (Remembered(c)' <=> Remembered(c)) /\ KeyIs(c)' = KeyIs(c) /\ (Known(c) => Known(c)')
  BY <1>1, RememberedKept
<1>3. /\ AtVendor(u)' <=> AtVendor(u)
      /\ \A h : Inside(u, h)' <=> Inside(u, h)
      /\ Before(u, "cache")' <=> Before(u, "cache")
      /\ Descending(u)' <=> Descending(u)
      /\ Returning(u)' <=> Returning(u)
  BY DEF Settled, AtVendor, Inside, Before, Descending, Returning
<1>4. Paid(u) /\ Tries(u) /\ Recalls(u)
  BY DEF PaidInv
<1>5. Paid(u)'
  BY <1>2, <1>3, <1>4 DEF Paid
<1>6. Tries(u)'
  BY <1>2, <1>3, <1>4 DEF Tries
<1>7. Recalls(u)'
  BY <1>2, <1>3, <1>4 DEF Recalls
<1> QED BY <1>5, <1>6, <1>7

LEMMA PaidCallKept ==
    ASSUME Base, Settled, NEW c \in DOMAIN calls, PaidCall(c), calls'[c].end = calls[c].end,
           calls'[c].performed = calls[c].performed, calls'[c].granted = calls[c].granted
    PROVE  PaidCall(c)'
<1>1. /\ Remembered(c)' <=> Remembered(c)
      /\ \A h : Passes(c, h)' <=> Passes(c, h)
      /\ Known(c) => Known(c)'
  BY RememberedKept
<1> QED BY <1>1 DEF PaidCall

LEMMA PaidStart ==
    ASSUME VendorGuarded, Base, NEW t \in Threads, Begins(t), NEW n, n = Len(calls) + 1
    PROVE  Paid(t)' /\ Tries(t)' /\ Recalls(t)' /\ PaidCall(n)'
<1>1. /\ frame'[t].call = n /\ Current(t)' = calls'[n]
      /\ \A h : ~Inside(t, h)' /\ Before(t, h)'
  BY BeginsKeeps
<1>2. /\ frame'[t].phase = "down" /\ frame'[t].attempt = 0 /\ stack' = stack
      /\ calls'[n].performed = 0 /\ calls'[n].granted = 0 /\ calls'[n].end = "open"
      /\ frame'[t].at \in calls'[n].names /\ \A i \in calls'[n].names : frame'[t].at <= i
      /\ calls'[n].names \subseteq DOMAIN stack
  BY DEF Begins
<1>3. /\ IsInjective(stack) /\ stack \in Stacks /\ DOMAIN stack = 1 .. Len(stack) /\ Len(stack) \in Nat
  BY StackIs DEF Base, TypeInv
<1>4. ASSUME Passes(n, "rate-limit")', Passes(n, "raw")' PROVE ~AtVendor(t)'
  <2>1. PICK i \in calls'[n].names : stack[i] = "rate-limit"
    BY <1>2, <1>4 DEF Passes
  <2>2. ASSUME stack[frame'[t].at] = "raw" PROVE FALSE
    <3>1. frame'[t].at = i + 1 /\ frame'[t].at <= i /\ i \in Nat
      BY <1>2, <1>3, <2>1, <2>2 DEF VendorGuarded
    <3> QED BY <3>1
  <2> QED BY <1>2, <2>2 DEF AtVendor
<1>5. Descending(t)' /\ ~Returning(t)'
  BY <1>2 DEF Descending, Returning
<1>6. Paid(t)'
  BY <1>1, <1>2, <1>4 DEF Paid
<1>7. Tries(t)'
  <2>1. 0 < MaxAttempts
    BY EffectConstantsOK
  <2> QED BY <1>1, <1>2, <1>5, <2>1 DEF Tries
<1>8. Recalls(t)'
  BY <1>1, <1>5 DEF Recalls
<1> QED BY <1>2, <1>6, <1>7, <1>8 DEF PaidCall

LEMMA PaidStep ==
    ASSUME VendorGuarded, AuditOverRetry, Base, PaidInv, [Next]_vars
    PROVE  PaidInv'
<1>1. LinkInv'
  BY LinkStep DEF PaidInv
<1>2. Aside \/ \E t \in Threads : Going(t) \/ Begins(t) \/ Returns(t)
  BY NextIs
<1>3. CASE Aside
  <2>1. Settled
    BY <1>3 DEF Aside, Settled
  <2>2. \A u \in Threads : Paid(u)' /\ Tries(u)' /\ Recalls(u)'
    BY <1>3, <2>1, PaidOthers DEF Aside, Active, Current
  <2>3. \A c \in DOMAIN calls : PaidCall(c)'
    BY <1>3, <2>1, PaidCallKept DEF Aside, PaidInv
  <2> QED BY <1>1, <1>3, <2>2, <2>3 DEF Aside, PaidInv
<1>4. ASSUME NEW t \in Threads, Going(t) PROVE PaidInv'
  <2>1. Within(t)
    BY <1>4, GoingBase
  <2>2. Settled
    BY <1>4, <2>1, GoingSettles
  <2>3. /\ frame[t].call \in DOMAIN calls /\ DOMAIN calls' = DOMAIN calls
        /\ calls'[frame[t].call].end = "open" /\ calls[frame[t].call].end = "open"
        /\ \A c \in DOMAIN calls : c # frame[t].call => calls'[c] = calls[c]
        /\ \A u \in Threads : u # t =>
              /\ frame'[u] = frame[u] /\ (Active(u)' <=> Active(u))
              /\ Active(u) => Current(u)' = Current(u)
    BY <2>1, WithinKeeps, ZenonT(30) DEF Within, Placed, Kept, Current
  <2>4. Paid(t)' /\ Tries(t)' /\ Recalls(t)'
    BY <1>4, <2>1, PaidGoing, TriesGoing, RecallsGoing DEF PaidInv
  <2>5. \A u \in Threads : u # t => Paid(u)' /\ Tries(u)' /\ Recalls(u)'
    BY <2>2, <2>3, PaidOthers
  <2>6. ASSUME NEW c \in DOMAIN calls PROVE PaidCall(c)'
    <3>1. PaidCall(c)
      BY DEF PaidInv
    <3>2. CASE c # frame[t].call
      BY <2>2, <2>3, <3>1, <3>2, PaidCallKept
    <3>3. CASE c = frame[t].call /\ ~Remembered(c)
      <4>1. ~Remembered(c)'
        BY <2>2, <3>3, RememberedKept
      <4> QED BY <2>3, <3>3, <4>1 DEF PaidCall
    <3>4. CASE c = frame[t].call /\ Remembered(c)
      <4>1. Gains(t, 0, 0)
        BY <1>4, <3>4, RememberedSpends DEF PaidInv
      <4>2. calls[c].performed = 0 /\ calls[c].granted = 0
        BY <3>1, <3>4 DEF PaidCall
      <4> QED BY <2>3, <3>4, <4>1, <4>2 DEF PaidCall, Gains, Current
    <3> QED BY <3>2, <3>3, <3>4
  <2> QED BY <1>1, <2>3, <2>4, <2>5, <2>6 DEF PaidInv
<1>5. ASSUME NEW t \in Threads, Begins(t) PROVE PaidInv'
  <2>1. PICK n : n = Len(calls) + 1
    OBVIOUS
  <2>2. /\ DOMAIN calls' = DOMAIN calls \cup {n}
        /\ \A c \in DOMAIN calls : calls'[c] = calls[c]
        /\ \A u \in Threads : u # t =>
              /\ frame'[u] = frame[u] /\ (Active(u)' <=> Active(u))
              /\ Active(u) => Current(u)' = Current(u)
    BY <1>5, <2>1, BeginsKeeps
  <2>3. Settled
    BY <1>5, <2>2 DEF Begins, Settled
  <2>4. Paid(t)' /\ Tries(t)' /\ Recalls(t)' /\ PaidCall(n)'
    BY <1>5, <2>1, PaidStart
  <2>5. \A u \in Threads : u # t => Paid(u)' /\ Tries(u)' /\ Recalls(u)'
    BY <2>2, <2>3, PaidOthers
  <2>6. \A c \in DOMAIN calls : PaidCall(c)'
    BY <2>2, <2>3, PaidCallKept DEF PaidInv
  <2> QED BY <1>1, <2>2, <2>4, <2>5, <2>6 DEF PaidInv
<1>6. ASSUME NEW t \in Threads, Returns(t) PROVE PaidInv'
  <2>1. /\ ~Active(t)' /\ frame[t].call \in DOMAIN calls
        /\ \A u \in Threads : u # t =>
              /\ frame'[u] = frame[u] /\ (Active(u)' <=> Active(u))
              /\ Active(u) => Current(u)' = Current(u)
    BY <1>6, ReturnsKeeps
  <2>2. Settled
    BY <1>6 DEF Returns, Settled, Placed, Current
  <2>3. Paid(t)' /\ Tries(t)' /\ Recalls(t)'
    BY <2>1 DEF Paid, Tries, Recalls
  <2>4. \A u \in Threads : u # t => Paid(u)' /\ Tries(u)' /\ Recalls(u)'
    BY <2>1, <2>2, PaidOthers
  <2>5. ASSUME NEW c \in DOMAIN calls, c = frame[t].call PROVE PaidCall(c)'
    <3>1. /\ calls'[c].end = frame[t].out /\ calls'[c].performed = Current(t).performed
          /\ calls'[c].granted = Current(t).granted /\ Current(t) = calls[c]
          /\ frame[t].phase = "up" /\ frame[t].at = 0 /\ Active(t)
      BY <1>6, <2>5 DEF Returns, Current
    <3>2. Returning(t) /\ ~AtVendor(t) /\ \A h : ~Inside(t, h)
      <4>1. \A i \in Current(t).names : i \in Nat /\ i > 0
        BY <3>1, PlacedIs, StackIs
      <4> QED BY <3>1, <4>1 DEF Returning, AtVendor, Inside
    <3>3. /\ Paid(t) /\ Tries(t) /\ Recalls(t) /\ PaidCall(c)
      BY DEF PaidInv
    <3>4. /\ Remembered(c)' <=> Remembered(c)
          /\ \A h : Passes(c, h)' <=> Passes(c, h)
          /\ Known(c) => Known(c)'
      BY <2>2, RememberedKept
    <3>5. Passes(c, "rate-limit") /\ Passes(c, "raw") => calls[c].granted = calls[c].performed
      <4>1. calls[c].performed \in Nat
        BY <3>1, PlacedIs DEF CallRecs
      <4> QED BY <2>5, <3>1, <3>2, <3>3, <4>1 DEF Paid
    <3>6. /\ Passes(c, "retry") => calls[c].performed <= MaxAttempts
          /\ Passes(c, "retry") /\ frame[t].out = "transient" => calls[c].performed = MaxAttempts
      BY <2>5, <3>1, <3>2, <3>3 DEF Tries
    <3>7. Passes(c, "cache") /\ frame[t].out = "result" => Known(c)
      BY <2>5, <3>1, <3>2, <3>3 DEF Recalls
    <3> QED BY <3>1, <3>3, <3>4, <3>5, <3>6, <3>7 DEF PaidCall
  <2>6. \A c \in DOMAIN calls : c # frame[t].call => PaidCall(c)'
    BY <1>6, <2>2, PaidCallKept DEF PaidInv, Returns
  <2> QED BY <1>1, <1>6, <2>3, <2>4, <2>5, <2>6 DEF PaidInv, Returns
<1> QED BY <1>2, <1>3, <1>4, <1>5, <1>6

LEMMA TypesOK == ASSUME Base PROVE TypeOK
<1>1. /\ now \in Nat /\ stack \in Stacks /\ contended \subseteq DOMAIN calls /\ Len(calls) <= MaxCalls
      /\ bucket.tokens \in 0 .. Capacity * TokenCost /\ bucket.last \in {NoRead} \cup Nat
      /\ \A k \in DOMAIN cached : k \in Ops \X Args \X Links
  BY DEF Base, TypeInv, SharedInv, Keys
<1>2. ASSUME NEW t \in Threads
      PROVE  /\ Len(masks[t]) <= MaxMasks
             /\ frame[t].phase \in Phases /\ frame[t].out \in Outcomes
             /\ frame[t].call \in 0 .. Len(calls)
             /\ frame[t].attempt \in Nat
  <2>1. /\ frame[t].phase \in Phases /\ frame[t].out \in Outcomes /\ frame[t].attempt \in Nat
        /\ Len(masks[t]) <= MaxMasks
    BY DEF Base, TypeInv, IsFrame, Frames
  <2>2. frame[t].call = 0 \/ frame[t].call \in 1 .. Len(calls)
    BY StackIs DEF Base, TypeInv, Placed, Active
  <2>3. Len(calls) \in Nat
    BY StackIs
  <2> QED BY <2>1, <2>2, <2>3
<1>3. ASSUME NEW e \in ToSet(entries) PROVE e.call \in DOMAIN calls /\ e.prev < Len(entries)
  <2>1. PICK i \in DOMAIN entries : e = entries[i]
    BY DEF ToSet
  <2>2. entries \in Seq(EntryRecs) /\ entries[i].call \in DOMAIN calls /\ entries[i].prev < i
    BY DEF Base, SharedInv
  <2>3. i \in Nat /\ i <= Len(entries) /\ Len(entries) \in Nat /\ entries[i] \in EntryRecs
    BY <2>2
  <2>4. entries[i].prev \in Nat
    BY <2>3 DEF EntryRecs
  <2> QED BY <2>1, <2>2, <2>3, <2>4
<1> QED BY <1>1, <1>2, <1>3 DEF TypeOK

(* The types, for every stack and every order of its handlers.             *)
THEOREM TypeCorrect == Spec => []TypeOK
BY BaseAlways, TypesOK, PTL

(* With the bucket right above the vendor, and the cache and retry above   *)
(* both: every attempt that reaches the vendor has a token of its own, no  *)
(* call is tried more than max_attempts times, and a transient error is    *)
(* answered only after the last (retry.py, rate_limit.py).  What was       *)
(* answered before by the vendor, to a direct call or to a commit that     *)
(* replays it, is not performed and not paid for again (cache.py).         *)
THEOREM PaidOnceThenRemembered == ASSUME VendorGuarded, AuditOverRetry PROVE Spec => []PaidOrRemembered
<1>1. Init => PaidInv
  BY DEF Init, PaidInv, LinkInv, Links1, Paid, Tries, Recalls, Active, Idle
<1>2. Base /\ PaidInv /\ [Next]_vars => PaidInv'
  BY PaidStep
<1>3. Base /\ PaidInv => PaidOrRemembered
  <2> SUFFICES ASSUME Base, PaidInv PROVE EveryAttemptPaid /\ HitAfterAnswer
    BY TypesOK DEF PaidOrRemembered
  <2>1. \A c \in DOMAIN calls : PaidCall(c) /\ \A h \in Handlers : Through(c, h) <=> Passes(c, h)
    BY DEF PaidInv, Base, CallOK
  <2>2. EveryAttemptPaid
    BY <2>1 DEF EveryAttemptPaid, Ended, PaidCall, Handlers
  <2>3. \A c \in DOMAIN calls : KeyOf(c) = KeyIs(c)
    BY <2>1 DEF KeyOf, KeyIs, Handlers
  <2>4. HitAfterAnswer
    <3> SUFFICES ASSUME NEW d \in DOMAIN calls, NEW c \in calls[d].before,
                        Through(c, "cache"), Through(d, "cache"), KeyOf(c) = KeyOf(d), calls[c].end = "result"
                 PROVE  calls[d].performed = 0 /\ calls[d].granted = 0
      BY DEF HitAfterAnswer
    <3>1. c \in DOMAIN calls
      BY DEF Base, CallOK
    <3>2. Remembered(d)
      BY <2>1, <2>3, <3>1 DEF Remembered, Handlers
    <3> QED BY <2>1, <3>2 DEF PaidCall
  <2> QED BY <2>2, <2>4
<1> QED BY <1>1, <1>2, <1>3, BaseAlways, PTL DEF Spec

=============================================================================
