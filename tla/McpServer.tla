----------------------------- MODULE McpServer -----------------------------
(***************************************************************************)
(* The MCP server (sdk/mcp/_server.py, _tools.py): sessions that remember, *)
(* recall and forget memories in one substrate, check its audit list and   *)
(* follow the list's tail, while the application that owns the substrate   *)
(* appends to the same list from its own threads.                          *)
(*                                                                         *)
(* The hash that is an entry's id is its position in the list, 0 for the   *)
(* None of an entry with no id.  All memories match the query of a recall. *)
(***************************************************************************)
EXTENDS Integers, Sequences, FiniteSets, SequencesExt

CONSTANTS
    Sessions,      \* MCPServer instances over the substrate, one thread each
    Memories,      \* entity ids remember can draw
    Granted,       \* the token_caps of each session
    Attempted,     \* verbs that are also called without their capability
    MaxK,          \* recall_max_k
    ReplayLimit,   \* replay_rate_limit_per_token
    ReplayWindow,  \* replay_rate_window_s
    MaxWindow,     \* replay_max_window
    Checks,        \* the <<tx, window>> pairs replay_check is asked about
    MaxTime,
    MaxEntries,    \* entries of the list and calls that leave none, together
    MaxForeign     \* entries the application appends

Verbs == {"remember", "recall", "forget", "replay", "read"}

ASSUME McpAssumption ==
    /\ {MaxK, ReplayLimit, ReplayWindow, MaxWindow, MaxTime, MaxEntries, MaxForeign} \subseteq Nat
    /\ IsFiniteSet(Sessions) /\ Checks \subseteq Nat \X (Nat \ {0}) /\ Granted \in [Sessions -> SUBSET Verbs]

VARIABLES
    now,
    log,           \* the mcp/content datoms of the store
    entries,       \* substrate._audit_entries
    ready,         \* _initialized
    subscribed,    \* the audit tail is in _subscriptions
    told,          \* _last_audit_len
    heard,         \* length of the list when the last notification was written
    admitted,      \* _replay_rate._events
    call,          \* the tool call each session is in
    answers,       \* what each session has answered after a dispatch
    bounced        \* how many calls were answered without one

vars == <<now, log, entries, ready, subscribed, told, heard, admitted, call, answers, bounced>>

NoOne == "no memory"
Idle == [step |-> "idle"]

-----------------------------------------------------------------------------
(* The store: a datom [e, op, from, at].                                   *)

Close(open, close) == open.op = "assert" /\ close.op = "retract" /\ open.e = close.e /\ open.from = close.from

(* view.entity(m) at time t has its content.                               *)
Present_LateSeen(m, t) ==
    \E i \in DOMAIN log : /\ log[i].e = m /\ log[i].op = "assert" /\ log[i].at < t
                          /\ \A j \in DOMAIN log : log[j].at <= t => ~Close(log[i], log[j])

Present(m, t) ==
    \E i \in DOMAIN log : /\ log[i].e = m /\ log[i].op = "assert" /\ log[i].at <= t
                          /\ \A j \in DOMAIN log : log[j].at <= t => ~Close(log[i], log[j])

(* Each memory once, the one with the newest datom first.                  *)
Hits_Repeated(k, t) ==
    LET found == SelectSeq(Reverse(log), LAMBDA d : Present(d.e, t))
    IN  [i \in 1 .. (IF k < Len(found) THEN k ELSE Len(found)) |-> found[i].e]

Newest(m) == CHOOSE i \in DOMAIN log : log[i].e = m /\ \A j \in DOMAIN log : log[j].e = m => j <= i

Hits(k, t) ==
    LET found == {m \in {log[i].e : i \in DOMAIN log} : Present(m, t)}
        rank(m) == Cardinality({o \in found : Newest(m) <= Newest(o)})
        n == Cardinality(found)
    IN  [i \in 1 .. (IF k < n THEN k ELSE n) |-> CHOOSE m \in found : rank(m) = i]

-----------------------------------------------------------------------------
(* The audit list.                                                         *)

(* seen is a ghost: how long the list was when prev was read.              *)
Entry(kind, by, verb, verdict, prev, tx, seen) ==
    [kind |-> kind, by |-> by, verb |-> verb, verdict |-> verdict, prev |-> prev, tx |-> tx, seen |-> seen]

(* An AuditEntry of the runtime, and the dict of an escape hatch.          *)
EffectEntry == Entry("effect", "app", "effect", "ok", 0, Len(entries), Len(entries))
EscapeEntry == Entry("escape", "app", "escape", "ok", 0, Len(entries), Len(entries))

(* The id of the last entry, when it is a dict that has one.               *)
LastId_Older == IF entries # <<>> /\ Last(entries).kind = "mcp" THEN Len(entries) - 1 ELSE 0

LastId == IF entries # <<>> /\ Last(entries).kind = "mcp" THEN Len(entries) ELSE 0

(* The 1-based positions of the window of w entries around tx.             *)
Window(tx, w, n) == {i \in 1 .. n : i >= tx - (w \div 2) + 1 /\ i <= tx + (w \div 2) + 1}

(* Some dict of the window has no id or does not follow the dict before it. *)
Broken(window) ==
    LET dicts == {i \in window : entries[i].kind # "effect"}
    IN  \E i \in dicts :
          \/ entries[i].kind = "escape"
          \/ \E j \in dicts : /\ j < i /\ \A l \in dicts : l <= j \/ l >= i
                              /\ entries[i].prev # j

Reason(tx, w) ==
    IF tx >= Len(entries) /\ entries # <<>> THEN "tx_not_found"
    ELSE IF Broken(Window(tx, w, Len(entries))) THEN "mismatch" ELSE "ok"

(* _RateLimiter.allow drops events from the left up to the first that is   *)
(* not older than the cutoff: one at the cutoff still counts.              *)
Recent_Open(s) ==
    LET old == {i \in DOMAIN admitted[s] : \A j \in 1 .. i : admitted[s][j] <= now - ReplayWindow}
    IN  SubSeq(admitted[s], Cardinality(old) + 1, Len(admitted[s]))

Recent(s) ==
    LET old == {i \in DOMAIN admitted[s] : \A j \in 1 .. i : admitted[s][j] < now - ReplayWindow}
    IN  SubSeq(admitted[s], Cardinality(old) + 1, Len(admitted[s]))

Spent_ByOne(s) == Len(Recent(s)) > ReplayLimit

Spent(s) == Len(Recent(s)) >= ReplayLimit

-----------------------------------------------------------------------------
Init ==
    /\ now = 0 /\ log = <<>> /\ entries = <<>>
    /\ ready = [s \in Sessions |-> FALSE] /\ subscribed = [s \in Sessions |-> FALSE]
    /\ told = [s \in Sessions |-> 0] /\ heard = [s \in Sessions |-> 0]
    /\ admitted = [s \in Sessions |-> <<>>]
    /\ call = [s \in Sessions |-> Idle] /\ answers = [s \in Sessions |-> <<>>]
    /\ bounced = 0

Room == bounced + Len(entries) + Cardinality({s \in Sessions : call[s].step \in {"work", "audit", "length", "append"}}) < MaxEntries

Tick ==
    /\ now < MaxTime /\ now' = now + 1
    /\ UNCHANGED <<log, entries, ready, subscribed, told, heard, admitted, call, answers, bounced>>

(* notifications/initialized.                                              *)
Initialized(s) ==
    /\ ~ready[s] /\ ready' = [ready EXCEPT ![s] = TRUE]
    /\ UNCHANGED <<now, log, entries, subscribed, told, heard, admitted, call, answers, bounced>>

Free(s) == ready[s] /\ call[s] = Idle

Subscribe(s) ==
    /\ Free(s) /\ "read" \in Granted[s] /\ subscribed' = [subscribed EXCEPT ![s] = TRUE]
    /\ UNCHANGED <<now, log, entries, ready, told, heard, admitted, call, answers, bounced>>

Unsubscribe(s) ==
    /\ Free(s) /\ subscribed' = [subscribed EXCEPT ![s] = FALSE]
    /\ UNCHANGED <<now, log, entries, ready, told, heard, admitted, call, answers, bounced>>

-----------------------------------------------------------------------------
(* A tool call: the handler's work, its audit entry, the notification.     *)

Doing(step, verb, memory, verdict, reason) ==
    [step |-> step, verb |-> verb, memory |-> memory, time |-> IF verdict = "ok" THEN now ELSE 0, verdict |-> verdict,
     reason |-> reason, hits |-> <<>>, k |-> 0, size |-> 0, window |-> {}, prev |-> 0, seen |-> 0, tx |-> 0]

Report(c) ==
    [verb |-> c.verb, verdict |-> c.verdict, reason |-> c.reason, hits |-> c.hits, k |-> c.k,
     window |-> c.window, size |-> c.size,
     time |-> IF c.verb \in {"recall", "replay"} THEN c.time ELSE 0]

Turn(s, c) == call' = [call EXCEPT ![s] = c]

Denied_Silent(s, verb) == Free(s) /\ Room /\ verb \in Attempted \ Granted[s] /\ UNCHANGED <<call, admitted>>
    /\ answers' = [answers EXCEPT ![s] = Append(@, Report(Doing("audit", verb, NoOne, "error", "denied")))]

Denied(s, verb) ==
    /\ Free(s) /\ Room /\ verb \in Attempted \ Granted[s]
    /\ Turn(s, Doing("audit", verb, NoOne, "error", "denied"))
    /\ UNCHANGED <<admitted, answers>>

Permitted(s, verb) == Free(s) /\ Room /\ verb \in Granted[s] /\ UNCHANGED answers

Remember(s, m) ==
    /\ Permitted(s, "remember")
    /\ \A d \in ToSet(log) : d.e # m
    /\ m \notin {call[o].memory : o \in {x \in Sessions : call[x] # Idle}}
    /\ Turn(s, Doing("work", "remember", m, "ok", "ok")) /\ UNCHANGED admitted

Forget(s, m) ==
    /\ Permitted(s, "forget") /\ UNCHANGED admitted
    /\ IF Present(m, now) THEN Turn(s, Doing("work", "forget", m, "ok", "ok"))
       ELSE Turn(s, Doing("audit", "forget", m, "error", "not_found"))

Recall(s, k) ==
    /\ Permitted(s, "recall") /\ UNCHANGED admitted
    /\ Turn(s, [Doing("audit", "recall", NoOne, "ok", "ok") EXCEPT
               !.hits = Hits(k, now), !.k = k, !.size = Len(log)])

Replay(s, tx, w) ==
    /\ Permitted(s, "replay")
    /\ IF w > MaxWindow
       THEN Turn(s, Doing("audit", "replay", NoOne, "error", "window_too_large")) /\ UNCHANGED admitted
       ELSE IF Spent(s)
       THEN /\ Turn(s, Doing("audit", "replay", NoOne, "error", "aborted"))
            /\ admitted' = [admitted EXCEPT ![s] = Recent(s)]
       ELSE /\ Turn(s, [Doing("audit", "replay", NoOne, "ok", Reason(tx, w))
                          EXCEPT !.window = Window(tx, w, Len(entries))])
            /\ admitted' = [admitted EXCEPT ![s] = Append(Recent(s), now)]

(* audit_window and view_at.                                               *)
Read(s) ==
    /\ Permitted(s, "read") /\ UNCHANGED admitted
    /\ Turn(s, Doing("audit", "read", NoOne, "ok", "ok"))

(* No such tool, or arguments that its schema does not take: the call is   *)
(* answered before it reaches a handler, with no entry and no notification.*)
Bounce(s) ==
    /\ Free(s) /\ Room /\ bounced' = bounced + 1
    /\ UNCHANGED <<now, log, entries, ready, subscribed, told, heard, admitted, call, answers>>

Begin(s) ==
    /\ UNCHANGED <<now, log, entries, ready, subscribed, told, heard, bounced>>
    /\ \/ \E verb \in Verbs : Denied(s, verb)
       \/ \E m \in Memories : Remember(s, m) \/ Forget(s, m)
       \/ \E k \in 1 .. MaxK : Recall(s, k)
       \/ \E c \in Checks : Replay(s, c[1], c[2])
       \/ Read(s)

Fact(c) ==
    [e |-> c.memory, op |-> IF c.verb = "forget" THEN "retract" ELSE "assert",
     from |-> c.time, at |-> now]

(* DB.transact of the facts.                                               *)
Commit_Retried(s) ==
    /\ call[s].step = "work"
    /\ log' = log \o <<Fact(call[s]), Fact(call[s])>>
    /\ Turn(s, [call[s] EXCEPT !.step = "audit"])
    /\ UNCHANGED <<now, entries, ready, subscribed, told, heard, admitted, answers, bounced>>

Commit(s) ==
    /\ call[s].step = "work"
    /\ log' = Append(log, Fact(call[s]))
    /\ Turn(s, [call[s] EXCEPT !.step = "audit"])
    /\ UNCHANGED <<now, entries, ready, subscribed, told, heard, admitted, answers, bounced>>

(* It raises, before the facts are in the store or after: the answer to a  *)
(* COMMIT is lost, or the walk of the log for the fact's tx fails.         *)
CommitFails(s) ==
    /\ call[s].step = "work"
    /\ log' \in {log, Append(log, Fact(call[s]))}
    /\ Turn(s, [call[s] EXCEPT !.step = "audit", !.verdict = "error", !.reason = "internal"])
    /\ UNCHANGED <<now, entries, ready, subscribed, told, heard, admitted, answers, bounced>>

(* _emit_audit: the tail is read, then the length, then the entry appended.*)
ReadTail(s) ==
    /\ call[s].step = "audit"
    /\ Turn(s, [call[s] EXCEPT !.step = "length", !.prev = LastId, !.seen = Len(entries)])
    /\ UNCHANGED <<now, log, entries, ready, subscribed, told, heard, admitted, answers, bounced>>

ReadLength(s) ==
    /\ call[s].step = "length"
    /\ Turn(s, [call[s] EXCEPT !.step = "append", !.tx = Len(entries)])
    /\ UNCHANGED <<now, log, entries, ready, subscribed, told, heard, admitted, answers, bounced>>

AppendEntry(s) ==
    /\ call[s].step = "append"
    /\ entries' = Append(entries,
                        LET c == call[s] IN Entry("mcp", s, c.verb, c.verdict, c.prev, c.tx, c.seen))
    /\ Turn(s, [call[s] EXCEPT !.step = "notify"])
    /\ UNCHANGED <<now, log, ready, subscribed, told, heard, admitted, answers, bounced>>

(* The answer is written, and after it a notification when the list grew.  *)
Grown_Skipping(s) == Len(entries) > told[s] + 1

Grown(s) == Len(entries) > told[s]

Answer(s) ==
    /\ call[s].step = "notify"
    /\ told' = [told EXCEPT ![s] = IF subscribed[s] /\ ~Grown(s) THEN @ ELSE Len(entries)]
    /\ heard' = [heard EXCEPT ![s] = IF subscribed[s] /\ Grown(s) THEN Len(entries) ELSE @]
    /\ answers' = [answers EXCEPT ![s] = Append(@, Report(call[s]))]
    /\ Turn(s, Idle)
    /\ UNCHANGED <<now, log, entries, ready, subscribed, admitted, bounced>>

-----------------------------------------------------------------------------
(* The application, in threads of its own.                                 *)

Busy == Room /\ Cardinality({i \in DOMAIN entries : entries[i].kind # "mcp"}) < MaxForeign

Effect ==
    /\ Busy /\ entries' = Append(entries, EffectEntry)
    /\ UNCHANGED <<now, log, ready, subscribed, told, heard, admitted, call, answers, bounced>>

(* The first access of the one escape hatch it uses.                       *)
Escape ==
    /\ Busy /\ \A e \in ToSet(entries) : e.kind # "escape"
    /\ entries' = Append(entries, EscapeEntry)
    /\ UNCHANGED <<now, log, ready, subscribed, told, heard, admitted, call, answers, bounced>>

Next ==
    \/ Tick \/ Effect \/ Escape
    \/ \E s \in Sessions :
         \/ Initialized(s) \/ Subscribe(s) \/ Unsubscribe(s)
         \/ Bounce(s) \/ Begin(s) \/ Commit(s) \/ CommitFails(s)
         \/ ReadTail(s) \/ ReadLength(s) \/ AppendEntry(s) \/ Answer(s)

Spec == Init /\ [][Next]_vars

-----------------------------------------------------------------------------
Claims(e) == e.verb \in {"remember", "forget"} /\ e.verdict = "ok"

(* Where the entries of a session's calls are, and which of them is at i.  *)
Own(s) == {i \in DOMAIN entries : entries[i].kind = "mcp" /\ entries[i].by = s}
Nth(s, i) == Cardinality({j \in Own(s) : j <= i})

(* What a session has answered and is about to answer.                     *)
Given(s) == answers[s] \o IF call[s].step = "notify" THEN <<Report(call[s])>> ELSE <<>>

(* Which calls have been answered, by session and number.                  *)
Dealt == UNION {{s} \X DOMAIN answers[s] : s \in Sessions}

TypeOK ==
    /\ now \in 0 .. MaxTime /\ Len(entries) <= MaxEntries
    /\ \A d \in ToSet(log) : d.e \in Memories /\ d.from <= d.at /\ d.at <= now
    /\ \A i \in DOMAIN entries : entries[i].prev <= entries[i].seen /\ entries[i].seen <= entries[i].tx /\ entries[i].tx < i
    /\ \A s \in Sessions : told[s] <= Len(entries) /\ heard[s] <= told[s] /\ Len(admitted[s]) <= ReplayLimit
    /\ ready \in [Sessions -> BOOLEAN] /\ subscribed \in [Sessions -> BOOLEAN]

(***************************************************************************)
(* Every call that reaches its handler leaves exactly one entry, denied    *)
(* and failed ones too, in the order of the answers and with their         *)
(* verdicts, whatever the application and the other sessions append        *)
(* meanwhile (_tools.py:117-168).                                          *)
(***************************************************************************)
EveryCallAudited ==
    \A s \in Sessions :
      /\ Cardinality(Own(s)) = Len(Given(s))
      /\ \A i \in Own(s) : /\ entries[i].verb = Given(s)[Nth(s, i)].verb
                           /\ entries[i].verdict = Given(s)[Nth(s, i)].verdict

(***************************************************************************)
(* Every tool call leaves an entry (_tools.py:25 "every tool call appends  *)
(* exactly ONE entry").  The ones refused before dispatch leave none       *)
(* (_server.py:345-370).                                                   *)
(***************************************************************************)
EveryAnswerAudited ==
    (\A s \in Sessions : call[s] = Idle) =>
      Cardinality({i \in DOMAIN entries : entries[i].kind = "mcp"}) = Cardinality(Dealt) + bounced

(***************************************************************************)
(* Once no call is in progress, the store holds a change for each entry    *)
(* that claims one, and no more besides than calls have failed inside      *)
(* transact: those may have left theirs, a call that was denied or found   *)
(* nothing left none (_tools.py:333-370, 480-505).                         *)
(***************************************************************************)
FactsMatchAudit ==
    (\A s \in Sessions : call[s] = Idle) =>
      LET claims == Cardinality({i \in DOMAIN entries : Claims(entries[i])})
      IN  /\ claims <= Len(log)
          /\ Len(log) <= claims + Cardinality({si \in Dealt : answers[si[1]][si[2]].reason = "internal"})

(***************************************************************************)
(* A recall lists a memory at most once, and leaves out one that was       *)
(* stored by then and never forgotten only when it has its k hits.         *)
(***************************************************************************)
RecallComplete ==
    \A s \in Sessions : \A i \in DOMAIN answers[s] : LET a == answers[s][i] IN
      a.verb = "recall" /\ a.verdict = "ok" =>
        /\ IsInjective(a.hits)
        /\ \A j \in 1 .. a.size :
             \/ log[j].e \in ToSet(a.hits)
             \/ \E l \in 1 .. a.size : log[l].e = log[j].e /\ log[l].op = "retract"
             \/ Len(a.hits) = a.k

(***************************************************************************)
(* replay_check reports a broken chain only over a window that holds an    *)
(* entry the application appended, or one whose session read the tail      *)
(* before another append (_tools.py:145, 167).                             *)
(***************************************************************************)
MismatchExplained ==
    \A s \in Sessions : \A i \in DOMAIN answers[s] : LET a == answers[s][i] IN
      a.verb = "replay" /\ a.reason = "mismatch" =>
        \E j \in a.window : entries[j].kind # "mcp" \/ entries[j].seen # j - 1

(***************************************************************************)
(* No stretch of ReplayWindow holds more than ReplayLimit replay checks of *)
(* one session, however the checks are spread (_server.py:114-122).        *)
(***************************************************************************)
ReplayRateHolds ==
    \A s \in Sessions : \A t \in 0 .. MaxTime :
      Cardinality({i \in DOMAIN answers[s] : /\ answers[s][i].verb = "replay" /\ answers[s][i].verdict = "ok"
                                             /\ answers[s][i].time \in t - ReplayWindow .. t}) <= ReplayLimit

(***************************************************************************)
(* A subscriber that gets its answer has been notified of the entry that   *)
(* answer left, and of all before it (_server.py:471-485).                 *)
(***************************************************************************)
SubscriberHears ==
    [][\A s \in Sessions : answers'[s] # answers[s] /\ subscribed[s] => heard'[s] = Len(entries)]_vars

(***************************************************************************)
(* "Retract a previously-remembered fact by entity id" (_server.py:550): a *)
(* memory whose forget was answered is not recalled again.  It is: the     *)
(* retract is valid from the forget's own time (_tools.py:487) and closes  *)
(* only an assert valid from that very instant (fact/db.py:957-965).       *)
(***************************************************************************)
ForgottenStaysForgotten ==
    \A s \in Sessions : \A i \in DOMAIN answers[s] : LET a == answers[s][i] IN
      a.verb = "recall" =>
        \A j \in 1 .. a.size : log[j].op = "retract" /\ log[j].at <= a.time => log[j].e \notin ToSet(a.hits)

(* The audit list has the calls that were answered and the changes they made.*)
AuditAgrees ==
    /\ TypeOK
    /\ EveryCallAudited
    /\ FactsMatchAudit

(* Replay checks suspect no chain without a reason and stay within their rate.*)
ReplaySound ==
    /\ MismatchExplained
    /\ ReplayRateHolds
=============================================================================
