---------------------------- MODULE EffectStack ----------------------------
(***************************************************************************)
(* persistence.effect: the handler stack that every effect goes through.   *)
(* Runtime.perform walks the handlers that cover the operation and are not *)
(* masked, outermost first; each may answer, refuse, or pass on, and acts  *)
(* again on the way back.  Threads share one Runtime and with it the state *)
(* that the handlers keep: the audit log and its "current operation", the  *)
(* cache, the token bucket.  Only the bucket is guarded by a lock, so      *)
(* every other access to shared state is a step of its own.                *)
(*                                                                         *)
(* Each handler occurs at most once in a stack.  The clock, sleep and      *)
(* random effects that handlers perform go to handlers of their own, below *)
(* or beside the stack, that no stack of the repository audits; they are   *)
(* the variable now and a deadline.  An audit entry is known by its place. *)
(***************************************************************************)
EXTENDS Integers, SequencesExt

CONSTANTS
    Threads,       \* threads that share the Runtime
    Ops, Args,     \* operations, and argument dictionaries
    Stacks,        \* stacks to consider: handler names, outermost first
    Wraps,         \* per handler name, the operations it has a clause for
    Addressed,     \* names that named() is called with
    MaskSets,      \* sets of names that mask() is called with
    Rules,         \* the rules of the policy, see Evaluate
    Mode,          \* mode of the dry-run handler
    Mocks,         \* operations with a mock
    AllowLive,     \* operations that a dry run lets through
    MaxAttempts,   \* max_attempts of retry
    Backoff,       \* base_backoff_ms, in ticks
    Jitters,       \* samples of the jitter
    Capacity,      \* of the bucket, in tokens
    TokenCost,     \* ticks of refill that make a token
    HasSink,       \* whether audit has a sink_name
    Commits,       \* dosync commits that replay effects
    MaxCalls,      \* bound: calls of perform
    MaxMasks,      \* bound: nested masks of a thread
    MaxTime        \* bound: time at which only sleepers advance the clock

Direct   == "no commit"       \* txn_commit of a call outside a replay
NoRead   == -1                \* ctx["last"] before the first call
Handlers == {"audit", "policy", "dry-run", "cache", "retry", "rate-limit", "raw"}
Links    == Commits \cup {Direct}

ASSUME EffectConstantsOK ==
    /\ \A s \in Stacks : s \in Seq(Handlers) /\ IsInjective(s)
    /\ Wraps \in [Handlers -> SUBSET Ops] /\ Direct \notin Commits
    /\ MaxAttempts \in Nat \ {0} /\ Capacity \in Nat /\ TokenCost \in Nat \ {0}
    /\ Backoff \in Nat /\ Jitters \subseteq Nat /\ HasSink \in BOOLEAN
    /\ MaxCalls \in Nat /\ MaxTime \in Nat /\ MaxMasks \in Nat

VARIABLES
    now,           \* what :clock/now answers
    stack,         \* Runtime.handlers, outermost first
    masks,         \* per thread, the frames of its mask
    frame,         \* per thread, where its call is
    entries,       \* the audit log
    currentOp,     \* ctx["_current_op"] of audit
    archive,       \* what the sink received
    cached,        \* the store of the cache
    bucket,        \* the token bucket
    calls,         \* history: every call, with what it did
    contended      \* history: calls whose audit work met another thread's

auditVars == <<entries, currentOp, archive, contended>>
vars == <<now, stack, masks, frame, auditVars, cached, bucket, calls>>

Outcomes == {"none", "result", "silent", "mock", "transient", "fatal",
             "denied", "unapproved", "unhandled", "sink"}
Raised(o) == o \in {"transient", "fatal", "denied", "unapproved", "unhandled", "sink"}
Idle == [phase |-> "idle", call |-> 0, at |-> 0, attempt |-> 0, link |-> Direct,
         op |-> "none", lifted |-> Direct, key |-> <<>>, prev |-> 0, time |-> 0,
         out |-> "none"]
Phases == {"idle", "down", "up", "audit-op", "audit-append", "audit-sink",
           "bucket", "paying", "backoff"}

TypeOK ==
    /\ now \in Nat /\ stack \in Stacks
    /\ \A t \in Threads : /\ Len(masks[t]) <= MaxMasks
                          /\ frame[t].phase \in Phases /\ frame[t].out \in Outcomes
                          /\ frame[t].call \in 0 .. Len(calls)
                          /\ frame[t].attempt \in Nat
    /\ bucket.tokens \in 0 .. Capacity * TokenCost /\ bucket.last \in {NoRead} \cup Nat
    /\ \A e \in ToSet(entries) : e.call \in DOMAIN calls /\ e.prev < Len(entries)
    /\ \A k \in DOMAIN cached : k \in Ops \X Args \X Links
    /\ contended \subseteq DOMAIN calls /\ Len(calls) <= MaxCalls
-----------------------------------------------------------------------------
Init ==
    /\ now = 0 /\ stack \in Stacks
    /\ masks = [t \in Threads |-> <<>>] /\ frame = [t \in Threads |-> Idle]
    /\ entries = <<>> /\ currentOp = "none" /\ archive = <<>> /\ contended = {}
    /\ cached = <<>> /\ calls = <<>>
    /\ bucket = [tokens |-> Capacity * TokenCost, last |-> NoRead]

MaskedNames_Leak(t) ==              \* seeded fault: one mask for all threads
    UNION {UNION ToSet(masks[u]) : u \in Threads}

MaskedNames(t) == UNION ToSet(masks[t])

Covers(h, o) == o \in Wraps[h]

(* The places of the candidates of perform and, from a handler that is     *)
(* named, of named_perform: the named one counts even when it is masked.   *)
Candidates(t, o) ==
    {i \in DOMAIN stack : Covers(stack[i], o) /\ stack[i] \notin MaskedNames(t)}

CandidatesFrom(t, p, o) == {p} \cup {i \in Candidates(t, o) : i > p}

Current(t) == calls[frame[t].call]

(* The thread is about to run the clause of handler h.                     *)
Entering(t, h) ==
    /\ frame[t].phase = "down" /\ frame[t].at <= Len(stack)
    /\ stack[frame[t].at] = h

(* The thread comes back to the clause of handler h.                       *)
Leaving(t, h) == frame[t].phase = "up" /\ frame[t].at > 0 /\ stack[frame[t].at] = h

(* k(args): on to the next candidate, or past the last one.                *)
Below(t) == {i \in Current(t).names : i > frame[t].at}

Deeper(t, f) ==
    [f EXCEPT !.phase = "down", !.time = 0,
              !.at = IF Below(t) = {} THEN Len(stack) + 1 ELSE Min(Below(t))]

(* A clause answers or raises: on to the next clause above that does       *)
(* something with what comes back.                                         *)
Above(t) == {i \in Current(t).names :
                 i < frame[t].at /\ stack[i] \in {"audit", "cache", "retry"}}

Answer(t, f, o) ==
    [f EXCEPT !.phase = "up", !.out = o,
              !.at = IF Above(t) = {} THEN 0 ELSE Max(Above(t))]

Moves(t, f) == frame' = [frame EXCEPT ![t] = f]
-----------------------------------------------------------------------------
(* with mask(...): frames of this thread only, left in reverse order.      *)
Mask(t, names) ==
    /\ frame[t].phase = "idle" /\ Len(masks[t]) < MaxMasks /\ Len(calls) < MaxCalls
    /\ masks' = [masks EXCEPT ![t] = Append(@, names)]
    /\ UNCHANGED <<now, stack, frame, auditVars, cached, bucket, calls>>

Unmask(t) ==
    /\ frame[t].phase = "idle" /\ masks[t] # <<>>
    /\ masks' = [masks EXCEPT ![t] = Front(@)]
    /\ UNCHANGED <<now, stack, frame, auditVars, cached, bucket, calls>>

Ended == {c \in DOMAIN calls : calls[c].end # "open"}

Start(t, first, o, a, link, names) ==
    /\ frame[t].phase = "idle" /\ Len(calls) < MaxCalls
    /\ names # {}
    /\ calls' = Append(calls, [op |-> o, args |-> a, link |-> link, names |-> names,
                   first |-> first, own |-> masks[t], before |-> Ended, performed |-> 0,
                   granted |-> 0, approved |-> FALSE, end |-> "open"])
    /\ Moves(t, [Idle EXCEPT !.phase = "down", !.at = Min(names), !.call = Len(calls) + 1,
                             !.link = link])
    /\ UNCHANGED <<now, stack, masks, auditVars, cached, bucket>>

(* perform(op, ...), and Runtime.perform with txn_commit in a replay.      *)
Perform(t, o, a, link) == Start(t, 1, o, a, link, Candidates(t, o))

(* named(name, op, ...): refused when the handler lacks the operation.     *)
Named(t, p, o, a) ==
    /\ stack[p] \in Addressed /\ Covers(stack[p], o)
    /\ Start(t, p, o, a, Direct, CandidatesFrom(t, p, o))

(* The last continuation: no candidate is left.                            *)
Bottom(t) ==
    /\ frame[t].phase = "down" /\ frame[t].at > Len(stack)
    /\ Moves(t, Answer(t, frame[t], "unhandled"))
    /\ UNCHANGED <<now, stack, masks, auditVars, cached, bucket, calls>>

Return(t) ==
    /\ frame[t].phase = "up" /\ frame[t].at = 0
    /\ calls' = [calls EXCEPT ![frame[t].call].end = frame[t].out]
    /\ Moves(t, Idle)
    /\ UNCHANGED <<now, stack, masks, auditVars, cached, bucket>>
-----------------------------------------------------------------------------
(* The first rule that fires decides: "when" matches and "require", if     *)
(* there is one, does not.  Predicates are sets of <<operation, args>>.    *)
Evaluate(o, a) ==
    LET fires == {i \in DOMAIN Rules : <<o, a>> \in Rules[i].when \ Rules[i].require}
    IN  IF fires = {} THEN "allow"
        ELSE Rules[CHOOSE i \in fires : \A j \in fires : i <= j].onFail

Policy_NobodyAsked(t) ==            \* seeded fault: no approval_fn means yes
    /\ Entering(t, "policy")
    /\ Moves(t, CASE Evaluate(Current(t).op, Current(t).args) = "deny" -> Answer(t, frame[t], "denied")
                  [] Evaluate(Current(t).op, Current(t).args) = "deny-silently" ->
                        Answer(t, frame[t], "silent")
                  [] OTHER -> Deeper(t, frame[t]))
    /\ UNCHANGED <<now, stack, masks, auditVars, cached, bucket, calls>>

Policy(t) ==
    /\ Entering(t, "policy")
    /\ LET verdict == Evaluate(Current(t).op, Current(t).args) IN
       \/ /\ verdict = "allow" /\ Moves(t, Deeper(t, frame[t])) /\ UNCHANGED calls
       \/ /\ verdict = "deny" /\ Moves(t, Answer(t, frame[t], "denied")) /\ UNCHANGED calls
       \/ /\ verdict = "deny-silently" /\ Moves(t, Answer(t, frame[t], "silent"))
          /\ UNCHANGED calls
       \/ /\ verdict = "require-approval" /\ Moves(t, Deeper(t, frame[t]))
          /\ calls' = [calls EXCEPT ![frame[t].call].approved = TRUE]
       \/ /\ verdict = "require-approval" /\ Moves(t, Answer(t, frame[t], "unapproved"))
          /\ UNCHANGED calls
    /\ UNCHANGED <<now, stack, masks, auditVars, cached, bucket>>

Mocked(o) == Mode = "dry-run" /\ o \notin AllowLive /\ o \in Mocks

DryRun(t) ==
    /\ Entering(t, "dry-run")
    /\ Moves(t, IF Mocked(Current(t).op) THEN Answer(t, frame[t], "mock")
                                         ELSE Deeper(t, frame[t]))
    /\ UNCHANGED <<now, stack, masks, auditVars, cached, bucket, calls>>

CacheKey_WithCommit(t) ==           \* seeded fault: commit in the key
    <<Current(t).op, Current(t).args, Current(t).link>>

(* The key is the hash of what is in args now: above audit that includes   *)
(* the commit.                                                             *)
CacheKey(t) == <<Current(t).op, Current(t).args, frame[t].link>>

CacheLookup(t) ==
    /\ Entering(t, "cache")
    /\ LET key == CacheKey(t) IN
       Moves(t, IF key \in DOMAIN cached THEN Answer(t, frame[t], cached[key])
                ELSE Deeper(t, [frame[t] EXCEPT !.key = key]))
    /\ UNCHANGED <<now, stack, masks, auditVars, cached, bucket, calls>>

CacheStore(t) ==
    /\ Leaving(t, "cache")
    /\ cached' = IF Raised(frame[t].out) THEN cached
                 ELSE [k \in DOMAIN cached \cup {frame[t].key} |->
                          IF k = frame[t].key THEN frame[t].out ELSE cached[k]]
    /\ Moves(t, Answer(t, frame[t], frame[t].out))
    /\ UNCHANGED <<now, stack, masks, auditVars, bucket, calls>>
-----------------------------------------------------------------------------
RetryEnter(t) ==
    /\ Entering(t, "retry")
    /\ Moves(t, Deeper(t, [frame[t] EXCEPT !.attempt = 0]))
    /\ UNCHANGED <<now, stack, masks, auditVars, cached, bucket, calls>>

LastAttempt_OneMore(f) ==           \* seeded fault: off by one
    f.attempt = MaxAttempts

LastAttempt(f) == f.attempt = MaxAttempts - 1

(* Only a transient error of an attempt that is not the last is caught;    *)
(* the backoff doubles each time.                                          *)
RetryLeave(t) ==
    /\ Leaving(t, "retry")
    /\ \/ /\ frame[t].out # "transient" \/ LastAttempt(frame[t])
          /\ Moves(t, Answer(t, frame[t], frame[t].out))
       \/ /\ frame[t].out = "transient" /\ ~LastAttempt(frame[t])
          /\ \E jitter \in Jitters :
                Moves(t, [frame[t] EXCEPT !.phase = "backoff",
                                          !.time = now + Backoff * 2^(frame[t].attempt) + jitter])
    /\ UNCHANGED <<now, stack, masks, auditVars, cached, bucket, calls>>

RetryAgain(t) ==
    /\ frame[t].phase = "backoff" /\ now >= frame[t].time
    /\ Moves(t, Deeper(t, [frame[t] EXCEPT !.attempt = @ + 1]))
    /\ UNCHANGED <<now, stack, masks, auditVars, cached, bucket, calls>>
-----------------------------------------------------------------------------
(* The clock is read before the lock is asked for.                         *)
RateClock(t) ==
    /\ Entering(t, "rate-limit")
    /\ Moves(t, [frame[t] EXCEPT !.phase = "bucket", !.time = now])
    /\ UNCHANGED <<now, stack, masks, auditVars, cached, bucket, calls>>

Least(a, b) == IF a < b THEN a ELSE b
Most(a, b)  == IF a < b THEN b ELSE a

(* The bucket as it is refilled at the time that was read.                 *)
Refilled(time) ==
    Least(Capacity * TokenCost,
          bucket.tokens + IF bucket.last = NoRead THEN 0 ELSE Most(0, time - bucket.last))

Left_Debt(tokens) ==                \* seeded fault: negative bucket
    tokens - TokenCost

(* What a call leaves in the bucket: one that has to wait takes it all.    *)
Left(tokens) == IF tokens < TokenCost THEN 0 ELSE tokens - TokenCost

Granted(t) == [calls EXCEPT ![frame[t].call].granted = @ + 1]

(* With the lock: take a token, or take what there is and sleep for the    *)
(* rest after the lock is released.                                        *)
RateTake(t) ==
    /\ frame[t].phase = "bucket"
    /\ LET tokens == Refilled(frame[t].time) IN
       /\ bucket' = [tokens |-> Left(tokens), last |-> frame[t].time]
       /\ \/ /\ tokens >= TokenCost
             /\ calls' = Granted(t)
             /\ Moves(t, Deeper(t, frame[t]))
          \/ /\ tokens < TokenCost
             /\ Moves(t, [frame[t] EXCEPT !.phase = "paying", !.time = now + TokenCost - tokens])
             /\ UNCHANGED calls
    /\ UNCHANGED <<now, stack, masks, auditVars, cached>>

RateSlept(t) ==
    /\ frame[t].phase = "paying" /\ now >= frame[t].time
    /\ calls' = Granted(t)
    /\ Moves(t, Deeper(t, frame[t]))
    /\ UNCHANGED <<now, stack, masks, auditVars, cached, bucket>>

(* The handler at the bottom: the vendor answers or fails.                 *)
Raw(t, o) ==
    /\ Entering(t, "raw")
    /\ calls' = [calls EXCEPT ![frame[t].call].performed = @ + 1]
    /\ Moves(t, Answer(t, frame[t], o))
    /\ UNCHANGED <<now, stack, masks, auditVars, cached, bucket>>
-----------------------------------------------------------------------------
(* Threads whose audit work other threads can see half done.               *)
InAudit == {t \in Threads : frame[t].phase \in {"audit-op", "audit-append"}}

Meets(t) ==
    LET others == InAudit \ {t} IN
    contended' = contended \cup IF others = {} THEN {}
                               ELSE {frame[u].call : u \in others \cup {t}}

(* The commit leaves args, for the handlers below too, and the operation   *)
(* is put where every thread puts it.                                      *)
AuditEnter(t) ==
    /\ Entering(t, "audit")
    /\ currentOp' = Current(t).op
    /\ Moves(t, [frame[t] EXCEPT !.phase = "audit-op", !.lifted = frame[t].link, !.link = Direct])
    /\ Meets(t)
    /\ UNCHANGED <<now, stack, masks, entries, archive, cached, bucket, calls>>

AuditReadOp(t) ==
    /\ frame[t].phase = "audit-op"
    /\ Moves(t, Deeper(t, [frame[t] EXCEPT !.op = currentOp]))
    /\ UNCHANGED <<now, stack, masks, auditVars, cached, bucket, calls>>

(* The finally block: the head of the chain is read, then hashed into an   *)
(* entry that is appended.                                                 *)
AuditReadHead(t) ==
    /\ Leaving(t, "audit")
    /\ Moves(t, [frame[t] EXCEPT !.phase = "audit-append", !.prev = Len(entries)])
    /\ Meets(t)
    /\ UNCHANGED <<now, stack, masks, entries, currentOp, archive, cached, bucket, calls>>

Entry_OpAtEnd(f) ==                 \* seeded fault: ctx read in finally
    [call |-> f.call, op |-> currentOp, link |-> f.lifted, prev |-> f.prev,
     verdict |-> IF Raised(f.out) THEN "error" ELSE "ok"]

Entry(f) == [call |-> f.call, op |-> f.op, link |-> f.lifted, prev |-> f.prev,
             verdict |-> IF Raised(f.out) THEN "error" ELSE "ok"]

AuditAppend(t) ==
    /\ frame[t].phase = "audit-append"
    /\ entries' = Append(entries, Entry(frame[t]))
    /\ Moves(t, IF HasSink THEN [frame[t] EXCEPT !.phase = "audit-sink"]
                           ELSE Answer(t, frame[t], frame[t].out))
    /\ UNCHANGED <<now, stack, masks, currentOp, archive, contended, cached, bucket, calls>>

(* The sink gets the entry under a mask of audit; when it raises, that is  *)
(* what the caller sees, whatever the effect did.                          *)
AuditSink(t) ==
    /\ frame[t].phase = "audit-sink"
    /\ \/ /\ archive' = Append(archive, frame[t].call)
          /\ Moves(t, Answer(t, frame[t], frame[t].out))
       \/ /\ Moves(t, Answer(t, frame[t], "sink")) /\ UNCHANGED archive
    /\ UNCHANGED <<now, stack, masks, entries, currentOp, contended, cached, bucket, calls>>

(* Time passes, beyond the bound only for a thread that sleeps.            *)
Sleeping(t) == frame[t].phase \in {"paying", "backoff"} /\ frame[t].time > now

Tick ==
    /\ now < MaxTime \/ \E t \in Threads : Sleeping(t)
    /\ now' = now + 1
    /\ UNCHANGED <<stack, masks, frame, auditVars, cached, bucket, calls>>
-----------------------------------------------------------------------------
(* What a thread in the middle of a call does next.                        *)
Step(t) ==
    \/ Bottom(t) \/ Return(t) \/ Policy(t) \/ DryRun(t)
    \/ CacheLookup(t) \/ CacheStore(t)
    \/ RetryEnter(t) \/ RetryLeave(t) \/ RetryAgain(t)
    \/ RateClock(t) \/ RateTake(t) \/ RateSlept(t)
    \/ \E o \in {"result", "transient", "fatal"} : Raw(t, o)
    \/ AuditEnter(t) \/ AuditReadOp(t) \/ AuditReadHead(t) \/ AuditAppend(t) \/ AuditSink(t)

Request(t) ==
    \/ \E names \in MaskSets : Mask(t, names)
    \/ Unmask(t)
    \/ \E o \in Ops, a \in Args :
          \/ \E link \in Links : Perform(t, o, a, link)
          \/ \E p \in DOMAIN stack : Named(t, p, o, a)

Finished == /\ Len(calls) = MaxCalls /\ \A t \in Threads : frame[t].phase = "idle"
            /\ UNCHANGED vars

Next == Tick \/ Finished \/ \E t \in Threads : Step(t) \/ Request(t)

Spec == Init /\ [][Next]_vars
-----------------------------------------------------------------------------
(* The orders of handlers that the properties rest on; the demo's has all. *)
Over(s, g, h) == \A i, j \in DOMAIN s : s[i] = g /\ s[j] = h => i < j

PolicyFirst == \A s \in Stacks : \A h \in {"dry-run", "cache", "rate-limit", "raw"} : Over(s, "policy", h)
AuditOverRetry == \A s \in Stacks : Over(s, "audit", "retry")
AuditOutermost == \A s \in Stacks : \A h \in Handlers \ {"audit"} : Over(s, "audit", h)
VendorGuarded ==
    \A s \in Stacks :
        /\ Over(s, "cache", "rate-limit") /\ Over(s, "cache", "raw") /\ Over(s, "retry", "raw")
        /\ \A i, j \in DOMAIN s : s[i] = "rate-limit" /\ s[j] = "raw" => j = i + 1

(* Whether call c goes through handler h, by the masks of its own thread.  *)
Through(c, h) ==
    LET call == calls[c] IN
    \E i \in DOMAIN stack :
       /\ stack[i] = h /\ Covers(h, call.op)
       /\ \/ i >= call.first /\ h \notin UNION ToSet(call.own)
          \/ i = call.first /\ i \in call.names

EntriesOf(c) == {i \in DOMAIN entries : entries[i].call = c}

Archived(c) == {i \in DOMAIN archive : archive[i] = c}

(* With audit above retry (the order of the demo and of test_composition)  *)
(* every call that reaches audit leaves exactly one entry, an error when   *)
(* it raised, however often it was tried and whichever handler ended it;   *)
(* a call masked by its own thread leaves none, and what another thread    *)
(* masks does not matter.  The sink gets each entry once or the call fails.*)
AuditComplete ==
    \A c \in Ended :
        IF Through(c, "audit")
        THEN \E i \in DOMAIN entries :
               /\ EntriesOf(c) = {i}
               /\ \/ calls[c].end = "sink"
                  \/ (entries[i].verdict = "error") = Raised(calls[c].end)
               /\ HasSink => IF calls[c].end = "sink" THEN Archived(c) = {}
                             ELSE \E j \in DOMAIN archive : Archived(c) = {j}
        ELSE EntriesOf(c) = {}

(* An entry is chained to the one before it and names the operation and    *)
(* the commit of its own call, unless two threads were in the unguarded    *)
(* parts of the audit clause at the same time: calls that merely overlap,  *)
(* one waiting in retry while the other is audited, keep the chain whole.  *)
LogFaithfulUnlessRaced ==
    \A i \in DOMAIN entries :
        LET e == entries[i] IN
        e.call \notin contended =>
            /\ e.prev = i - 1
            /\ e.op = calls[e.call].op /\ e.link = calls[e.call].link

AuditedFirst == \E i, j \in DOMAIN stack : i < j /\ stack[i] = "audit" /\ stack[j] = "cache"

KeyOf(c) == <<calls[c].op, calls[c].args,
              IF Through(c, "audit") /\ AuditedFirst THEN Direct ELSE calls[c].link>>

(* Once a call has been answered by the vendor, a later call of the same   *)
(* operation and arguments performs nothing and takes no token ("a hit     *)
(* never burns quota"), be it direct or replayed by a commit.              *)
HitAfterAnswer ==
    \A d \in DOMAIN calls : \A c \in calls[d].before :
        /\ Through(c, "cache") /\ Through(d, "cache")
        /\ KeyOf(c) = KeyOf(d) /\ calls[c].end = "result"
        => calls[d].performed = 0 /\ calls[d].granted = 0

(* What the policy refuses, or nobody approves, is not performed, spends   *)
(* nothing and is not answered from the cache either, where an earlier     *)
(* approved call may have left a result.                                   *)
GateHolds ==
    \A c \in DOMAIN calls :
        /\ Through(c, "policy") /\ ~calls[c].approved
        /\ Evaluate(calls[c].op, calls[c].args) # "allow"
        => /\ calls[c].performed = 0 /\ calls[c].granted = 0
           /\ calls[c].end \notin {"result", "mock", "transient", "fatal"}

(* The bucket sees the vendor traffic: every attempt takes a token of its  *)
(* own, a transient error reaches the caller only after the last attempt.  *)
EveryAttemptPaid ==
    \A c \in Ended :
        /\ Through(c, "rate-limit") /\ Through(c, "raw") =>
              calls[c].granted = calls[c].performed
        /\ Through(c, "retry") => calls[c].performed <= MaxAttempts
        /\ Through(c, "retry") /\ calls[c].end = "transient" =>
              calls[c].performed = MaxAttempts

(* "concurrent callers never double-spend tokens" (rate_limit.py, 5-6):    *)
(* never more calls admitted than the bucket held at first and has gained. *)
NeverDoubleSpent ==
    LET admitted == FoldSeq(LAMBDA c, n : c.granted + n, 0, calls)
    IN  admitted * TokenCost <= Capacity * TokenCost + now

(* Every attempt at the vendor has its token, and what was answered before  *)
(* needs neither.                                                           *)
PaidOrRemembered ==
    /\ TypeOK
    /\ EveryAttemptPaid
    /\ HitAfterAnswer
=============================================================================
