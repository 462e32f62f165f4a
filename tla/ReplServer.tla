----------------------------- MODULE ReplServer -----------------------------
(***************************************************************************)
(* persistence.repl: the WebSocket server that operators inspect, rewind,  *)
(* branch and edit a live database with.  Everything runs on one asyncio   *)
(* event loop: a handler is one step, and the connections interleave where *)
(* a message is awaited and where an answer is sent.  After the answer the *)
(* server picks up the session record the handler left in the registry and *)
(* emits one entry of the hash-chained audit log, in a bounded ring and in *)
(* the fact store.  A send on a connection that the client has left may    *)
(* raise.                                                                  *)
(*                                                                         *)
(* A session id is a hash of the token and the clock of the handshake, so  *)
(* the pair stands for it.  An audit entry is known by its place in the    *)
(* order of emission.  Capabilities and parameters are left open: any      *)
(* request may be refused.                                                 *)
(***************************************************************************)
EXTENDS Integers, SequencesExt

CONSTANTS
    Conns,         \* connections
    Tokens,        \* token ids that validate
    Past,          \* dates that a view can be set back to
    MaxDepth,      \* MAX_BRANCH_DEPTH
    RingSize,      \* _max_ring_size
    Ticks,         \* what a clock reading may add to the previous one
    MaxRequests,   \* bound: requests received
    MaxLives       \* bound: starts of the server

Now == "now"                 \* None: not set back
(* The view of a session: view_cursor_tx_time_iso, view_cursor_vt_iso.     *)
Cursors    == [tx : Past \cup {Now}, vt : Past \cup {Now}]
HeadCursor == [tx |-> Now, vt |-> Now]
NoSession ==            \* a connection before its handshake
    [sid |-> <<"none", 0>>, cursor |-> HeadCursor, depth |-> 0]
Kinds == {"auth", "auth-denied", "op", "op-refused", "poll", "pre-auth"}

ASSUME ConstantsOK ==
    /\ Now \notin Past /\ "none" \notin Tokens
    /\ MaxDepth \in Nat /\ RingSize \in Nat \ {0} /\ Ticks \subseteq Nat
    /\ MaxRequests \in Nat /\ MaxLives \in Nat \ {0}

VARIABLES
    now,           \* the last reading of runtime_clock
    registry,      \* _active_sessions: the session records by session id
    session,       \* per connection, the local variable of _handle_ws
    pc,            \* where each connection is
    here,          \* whether the client is still there
    task,          \* the request being answered
    ring,          \* _audit_entries
    stored,        \* the entries in the fact store, in insertion order
    edits,         \* the edits committed
    requests,      \* history: for each request received, whether it is an
                   \* operation or a handshake, polls of the window excepted
    answered,      \* history: the requests whose answer was sent
    emitted,       \* history: the entries emitted
    asked,         \* history: the cursor a client last got acknowledged
    lives          \* starts of the server so far

serverVars  == <<registry, ring>>
connVars    == <<session, pc, here, task, asked>>
historyVars == <<requests, answered, emitted, lives>>
vars == <<now, serverVars, connVars, stored, edits, historyVars>>

Sids     == Tokens \X Nat
Sessions == [sid : Sids, cursor : Cursors, depth : 0 .. MaxDepth]
NoTask   == [kind |-> "pre-auth", req |-> 0, view |-> HeadCursor, next |-> NoSession]

TypeOK ==
    /\ now \in Nat /\ lives \in 1 .. MaxLives
    /\ DOMAIN registry \subseteq Sids
    /\ \A s \in DOMAIN registry : registry[s] \in Sessions /\ registry[s].sid = s
    /\ \A c \in Conns : /\ session[c] \in Sessions \cup {NoSession}
                        /\ task[c].kind \in Kinds /\ task[c].view \in Cursors
                        /\ task[c].next \in Sessions \cup {NoSession}
    /\ pc \in [Conns -> {"out", "idle", "reply"}]
    /\ here \in [Conns -> BOOLEAN] /\ asked \in [Conns -> Cursors]
    /\ Len(ring) <= RingSize
    /\ \A e \in ToSet(ring) \cup ToSet(stored) : e \in DOMAIN emitted
    /\ answered \subseteq DOMAIN requests /\ \A e \in edits : e.req \in DOMAIN requests
-----------------------------------------------------------------------------
Init ==
    /\ now = 0 /\ registry = <<>> /\ ring = <<>> /\ stored = <<>> /\ edits = {}
    /\ session = [c \in Conns |-> NoSession]
    /\ pc = [c \in Conns |-> "out"] /\ here = [c \in Conns |-> FALSE]
    /\ task = [c \in Conns |-> NoTask] /\ asked = [c \in Conns |-> HeadCursor]
    /\ requests = <<>> /\ answered = {} /\ emitted = <<>> /\ lives = 1

Without(sid) == [s \in DOMAIN registry \ {sid} |-> registry[s]]

With(r, s) == [k \in DOMAIN r \cup {s.sid} |-> IF k = s.sid THEN s ELSE r[k]]

(* The upgrade: a connection starts without a session.                     *)
Connect(c) ==
    /\ pc[c] = "out"
    /\ pc' = [pc EXCEPT ![c] = "idle"] /\ here' = [here EXCEPT ![c] = TRUE]
    /\ UNCHANGED <<now, serverVars, session, task, asked, stored, edits,
                   historyVars>>

Leave(c) ==
    /\ pc[c] # "out" /\ here[c]
    /\ here' = [here EXCEPT ![c] = FALSE]
    /\ UNCHANGED <<now, serverVars, session, pc, task, asked, stored, edits,
                   historyVars>>

(* The end of _handle_ws: the session it knows leaves the registry.        *)
Drop(c) ==
    /\ registry' = Without(session[c].sid)
    /\ session' = [session EXCEPT ![c] = NoSession]
    /\ asked' = [asked EXCEPT ![c] = HeadCursor]
    /\ pc' = [pc EXCEPT ![c] = "out"]
    /\ task' = [task EXCEPT ![c] = NoTask]

Close(c) ==
    /\ pc[c] = "idle" /\ ~here[c]
    /\ Drop(c)
    /\ UNCHANGED <<now, here, ring, stored, edits, historyVars>>

(* A request arrives; its answer, with the session record and the cursor   *)
(* that the operation made, is sent in a step of its own.                  *)
Receive(c, kind, view, next) ==
    /\ pc[c] = "idle" /\ here[c] /\ Len(requests) < MaxRequests
    /\ requests' = Append(requests, kind \notin {"poll", "pre-auth"})
    /\ pc' = [pc EXCEPT ![c] = "reply"]
    /\ task' = [task EXCEPT ![c] = [kind |-> kind, req |-> Len(requests'),
                                    view |-> view, next |-> next]]
    /\ UNCHANGED <<session, here, asked, ring, stored, answered, emitted, lives>>

(* _handle_auth: a new handshake replaces the session of the connection.   *)
Auth(c, token) ==
    \E k \in Ticks :
        LET new == [sid |-> <<token, now + k>>, cursor |-> HeadCursor, depth |-> 0]
        IN /\ now' = now + k
           /\ registry' = With(Without(session[c].sid), new)
           /\ Receive(c, "auth", HeadCursor, new)
           /\ UNCHANGED edits

AuthDenied_Drops(c) ==                \* seeded fault: the session is dropped
    /\ Receive(c, "auth-denied", asked[c], session[c])
    /\ registry' = Without(session[c].sid)
    /\ UNCHANGED <<now, edits>>

(* A refused handshake leaves the connection the session it had.           *)
AuthDenied(c) ==
    /\ Receive(c, "auth-denied", asked[c], session[c])
    /\ UNCHANGED <<now, registry, edits>>

PreAuth(c) ==
    /\ session[c] = NoSession
    /\ Receive(c, "pre-auth", asked[c], NoSession)
    /\ UNCHANGED <<now, registry, edits>>

(* Rewind and branch replace the record in the registry.                   *)
Move_Unregistered(c, cursor, depth) == \* seeded fault: only the answer changes
    /\ Receive(c, "op", cursor, session[c])
    /\ UNCHANGED <<now, registry, edits>>

Move(c, cursor, depth) ==
    /\ registry' = With(registry, [session[c] EXCEPT !.cursor = cursor,
                                                     !.depth = depth])
    /\ Receive(c, "op", cursor, session[c])
    /\ UNCHANGED <<now, edits>>

(* Rewind sets both dates, to None what the request does not name.         *)
Rewind(c, cursor) ==
    /\ session[c] # NoSession
    /\ Move(c, cursor, session[c].depth)

Branch_OffByOne(c, tx) ==             \* seeded fault: > for >=
    /\ session[c] # NoSession /\ session[c].depth <= MaxDepth
    /\ Move(c, [session[c].cursor EXCEPT !.tx = tx], session[c].depth + 1)

(* The branch point is a parameter, the cursor's tx time, or the present,  *)
(* which is a date as well; the valid time stays.                          *)
Branch(c, tx) ==
    /\ session[c] # NoSession /\ session[c].depth < MaxDepth
    /\ Move(c, [session[c].cursor EXCEPT !.tx = tx], session[c].depth + 1)

(* The confirm step of an edit: the tx time must not be set back; the      *)
(* valid time is not looked at.                                            *)
Edit(c) ==
    /\ session[c] # NoSession /\ session[c].cursor.tx = Now
    /\ Receive(c, "op", asked[c], session[c])
    /\ edits' = edits \cup {[req |-> Len(requests'), at |-> asked[c]]}
    /\ UNCHANGED <<now, registry>>

(* Inspect, and the propose step of an edit.                               *)
Look(c) ==
    /\ session[c] # NoSession
    /\ Receive(c, "op", asked[c], session[c])
    /\ UNCHANGED <<now, registry, edits>>

(* repl/inspect kind=audit-window.                                         *)
Poll(c) ==
    /\ session[c] # NoSession
    /\ Receive(c, "poll", asked[c], session[c])
    /\ UNCHANGED <<now, registry, edits>>

(* _OpError, an exception of the handler, an unknown method.               *)
Refused(c) ==
    /\ session[c] # NoSession
    /\ Receive(c, "op-refused", asked[c], session[c])
    /\ UNCHANGED <<now, registry, edits>>

(* The session record after the answer: what the handler registered.       *)
Latest_Local(c) == task[c].next       \* seeded fault: no pickup

Latest(c) == LET s == task[c].next IN
             IF task[c].kind \in {"op", "op-refused", "poll"}
                /\ s.sid \in DOMAIN registry
             THEN registry[s.sid] ELSE s

(* The kinds that are audited.                                             *)
Audited_NotDenials == {"auth", "op"}  \* seeded fault: refusals are not

Audited == {"auth", "auth-denied", "op", "op-refused"}

(* The ring keeps its newest entries.                                      *)
Keep_Oldest(r) == SubSeq(r, 1, RingSize)  \* seeded fault: the wrong end is cut

Keep(r) == IF Len(r) <= RingSize THEN r
           ELSE SubSeq(r, Len(r) - RingSize + 1, Len(r))

(* _emit_audit_for_op: chained to the last entry of the ring, stored if    *)
(* the fact store takes it.  A refused handshake is audited without a      *)
(* session.                                                                *)
Emit(c, s) ==
    /\ emitted' = Append(emitted,
         [prev |-> IF ring = <<>> THEN 0 ELSE Last(ring), req |-> task[c].req,
          view |-> IF task[c].kind = "auth-denied" THEN HeadCursor ELSE s.cursor,
          want |-> IF task[c].kind = "auth-denied" THEN HeadCursor ELSE task[c].view,
          life |-> lives])
    /\ ring' = Keep(Append(ring, Len(emitted')))
    /\ \/ stored' = Append(stored, Len(emitted'))
       \/ UNCHANGED stored            \* persistence failed: a warning is logged

(* The answer is sent: the rest of the handling up to the next message.    *)
Reply(c) ==
    /\ pc[c] = "reply"
    /\ answered' = answered \cup {task[c].req}
    /\ session' = [session EXCEPT ![c] = Latest(c)]
    /\ asked' = [asked EXCEPT ![c] = task[c].view]
    /\ IF task[c].kind \in Audited THEN Emit(c, Latest(c))
       ELSE UNCHANGED <<emitted, ring, stored>>
    /\ pc' = [pc EXCEPT ![c] = "idle"]
    /\ task' = [task EXCEPT ![c] = NoTask]
    /\ UNCHANGED <<now, registry, here, edits, requests, lives>>

(* The client has gone: the send raises, and so does the one that would    *)
(* report the error; the exception leaves _handle_ws.                      *)
ReplyFails(c) ==
    /\ pc[c] = "reply" /\ ~here[c]
    /\ Drop(c)
    /\ UNCHANGED <<now, here, ring, stored, edits, historyVars>>

(* The server process stops and starts again on the same fact store.       *)
Restart ==
    /\ lives < MaxLives
    /\ lives' = lives + 1
    /\ registry' = <<>> /\ ring' = <<>>
    /\ session' = [c \in Conns |-> NoSession]
    /\ pc' = [c \in Conns |-> "out"] /\ here' = [c \in Conns |-> FALSE]
    /\ task' = [c \in Conns |-> NoTask] /\ asked' = [c \in Conns |-> HeadCursor]
    /\ UNCHANGED <<now, stored, edits, requests, answered, emitted>>

Handle(c) ==
    \/ \E token \in Tokens : Auth(c, token)
    \/ AuthDenied(c) \/ PreAuth(c)
    \/ \E cursor \in Cursors : Rewind(c, cursor)
    \/ \E tx \in Past : Branch(c, tx)
    \/ Edit(c) \/ Look(c) \/ Poll(c) \/ Refused(c)

Next ==
    \/ \E c \in Conns : \/ Connect(c) \/ Leave(c) \/ Close(c)
                        \/ Handle(c) \/ Reply(c) \/ ReplyFails(c)
    \/ Restart

Spec == Init /\ [][Next]_vars
-----------------------------------------------------------------------------
(* The audit entries in the fact store come in the order of the chain, and *)
(* as long as the server runs each one is linked to the entry emitted just *)
(* before it, whichever connection that came from and however small the    *)
(* ring is: a missing entry shows as a broken link, never as none.         *)
StoredInChainOrder ==
    /\ \A i, j \in DOMAIN stored : i < j => stored[i] < stored[j]
    /\ \A e \in DOMAIN emitted :
          emitted[e].prev = IF e > 1 /\ emitted[e - 1].life = emitted[e].life
                            THEN e - 1 ELSE 0

(* An answer that was sent has one entry in the chain, refusals included;  *)
(* polls of the audit window and messages before the handshake have none.  *)
OneEntryPerAnswer ==
    \A q \in DOMAIN requests :
        LET entries == {e \in DOMAIN emitted : emitted[e].req = q}
        IN IF q \in answered /\ requests[q]
           THEN Cardinality(entries) = 1 ELSE entries = {}

(* "Bound to the post-op session so cursors reflect the post-mutation      *)
(* state": other connections that come in while the answer is being sent   *)
(* do not change what the entry says.                                      *)
EntryShowsView == \A e \in DOMAIN emitted : emitted[e].view = emitted[e].want

(* While a connection waits for a message, the registry holds its session  *)
(* exactly as the connection knows it, whatever the others did to theirs.  *)
RegistryIsCurrent ==
    \A c \in Conns : pc[c] = "idle" /\ session[c] # NoSession =>
        /\ session[c].sid \in DOMAIN registry
        /\ registry[session[c].sid] = session[c]

(* No edit is committed for a client that was last told its transaction    *)
(* time is set back, by a rewind or a branch: the stale-cursor check is    *)
(* made against the record that those left, not against an older one.      *)
EditsAtHead == \A e \in edits : e.at.tx = Now

(* "Stale-cursor reject: edits at HEAD only" (repl/_ops.py:557): no edit   *)
(* is committed for a client that was last told it looks at the past in    *)
(* either time.  The check does not look at the valid time, which a rewind *)
(* sets on its own as well (tests/repl/test_rewind.py:141).                *)
EditsAtPresent == \A e \in edits : e.at = HeadCursor

(* "Every op handler ALWAYS emits exactly one :repl/op AuditEntry."        *)
EveryOpAudited ==
    \A q \in DOMAIN requests : requests[q] =>
        \/ \E c \in Conns : task[c].req = q
        \/ \E e \in DOMAIN emitted : emitted[e].req = q

(* Connections do not disturb each other's sessions: not the registered     *)
(* record, not the cursor an entry shows, not the one an edit is checked by.   *)
SessionsApart ==
    /\ TypeOK
    /\ EntryShowsView
    /\ RegistryIsCurrent
    /\ EditsAtHead
=============================================================================
