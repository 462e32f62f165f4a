----------------------------- MODULE ReplProofs -----------------------------
(***************************************************************************)
(* Proofs about ReplServer.tla, for every number of connections, requests  *)
(* and starts of the server, every ring size and every branch depth.       *)
(***************************************************************************)
EXTENDS ReplServer, SequenceTheorems, FiniteSetTheorems, TLAPS

Tasks   == [kind : Kinds, req : Nat, view : Cursors, next : Sessions \cup {NoSession}]
Entries == [prev : Nat, req : Nat, view : Cursors, want : Cursors, life : Nat]

IsRegistry(r) ==
    /\ DOMAIN r \subseteq Sids
    /\ \A s \in DOMAIN r : r[s] \in Sessions /\ r[s].sid = s

(* TypeOK, with the types that it leaves to the reader.                    *)
TypeInv ==
    /\ now \in Nat /\ lives \in 1 .. MaxLives
    /\ IsRegistry(registry)
    /\ session \in [Conns -> Sessions \cup {NoSession}]
    /\ task \in [Conns -> Tasks]
    /\ pc \in [Conns -> {"out", "idle", "reply"}]
    /\ here \in [Conns -> BOOLEAN] /\ asked \in [Conns -> Cursors]
    /\ ring \in Seq(Nat) /\ Len(ring) <= RingSize
    /\ \A i \in 1 .. Len(ring) : ring[i] \in 1 .. Len(emitted)
    /\ stored \in Seq(Nat)
    /\ \A i \in 1 .. Len(stored) : stored[i] \in 1 .. Len(emitted)
    /\ emitted \in Seq(Entries) /\ requests \in Seq(BOOLEAN)
    /\ answered \subseteq 1 .. Len(requests)
    /\ \A e \in edits : e.req \in 1 .. Len(requests)
    /\ \A c \in Conns : pc[c] = "reply" => task[c].req \in 1 .. Len(requests)

(* The ids under which connection c has, or is being given, a session.     *)
Ids(c) == {session[c].sid, task[c].next.sid} \ {NoSession.sid}

(* No two connections share an id, and the clock is past every one.        *)
IdsApart ==
    /\ \A c \in Conns : \A s \in Ids(c) : s[2] <= now
    /\ \A c, d \in Conns : c # d => Ids(c) \cap Ids(d) = {}

(* What the client was last told is the view of its session, which the     *)
(* registry holds; a request being answered knows the record that its      *)
(* handler registered.                                                     *)
KnowsItsSession(c) ==
    LET s == session[c]  t == task[c] IN
    /\ s # NoSession => asked[c] = s.cursor
    /\ pc[c] = "out" => s = NoSession
    /\ pc[c] # "reply" => t = NoTask
    /\ pc[c] = "idle" /\ s # NoSession =>
          s.sid \in DOMAIN registry /\ registry[s.sid] = s
    /\ pc[c] = "reply" =>
          IF t.next = NoSession THEN t.kind \in {"pre-auth", "auth-denied"}
          ELSE /\ t.next.sid \in DOMAIN registry
               /\ registry[t.next.sid].cursor = t.view
               /\ t.kind \notin {"op", "op-refused", "poll"} =>
                     registry[t.next.sid] = t.next

SessionInv == /\ IdsApart /\ \A c \in Conns : KnowsItsSession(c)
              /\ EditsAtHead /\ EntryShowsView

(* Every request is in one place: waiting for its answer at one connection,*)
(* or done with; an entry is for one answered request.                     *)
RequestInv ==
    /\ \A c \in Conns : pc[c] = "reply" =>
          /\ task[c].req \notin answered
          /\ requests[task[c].req] = (task[c].kind \in Audited)
    /\ \A c, d \in Conns : pc[c] = "reply" /\ pc[d] = "reply" /\ c # d =>
          task[c].req # task[d].req
    /\ \A e \in 1 .. Len(emitted) :
          /\ emitted[e].req \in answered /\ requests[emitted[e].req]
          /\ \A f \in 1 .. Len(emitted) :
                emitted[e].req = emitted[f].req => e = f
    /\ \A q \in answered : requests[q] =>
          \E e \in 1 .. Len(emitted) : emitted[e].req = q

(* The end of the ring is the last entry of this life, if there is one.    *)
ChainInv ==
    /\ StoredInChainOrder
    /\ \A e \in 1 .. Len(emitted) : emitted[e].life <= lives
    /\ IF ring = <<>>
       THEN Len(emitted) > 0 => emitted[Len(emitted)].life # lives
       ELSE /\ Len(emitted) > 0 /\ Last(ring) = Len(emitted)
            /\ emitted[Len(emitted)].life = lives
-----------------------------------------------------------------------------
(* The type invariant of the runs follows.                                 *)
LEMMA TypeInvTypeOK == TypeInv => TypeOK
<1> SUFFICES ASSUME TypeInv PROVE TypeOK
  OBVIOUS
<1>1. ToSet(ring) \cup ToSet(stored) \subseteq 1 .. Len(emitted)
  BY DEF TypeInv, ToSet
<1>2. DOMAIN emitted = 1 .. Len(emitted) /\ DOMAIN requests = 1 .. Len(requests)
  BY DEF TypeInv
<1> QED BY <1>1, <1>2 DEF TypeInv, TypeOK, Tasks, IsRegistry

(* The two ways a handler changes the registry keep its records under     *)
(* their own ids.                                                          *)
LEMMA WithoutIs ==
    ASSUME TypeInv, NEW sid
    PROVE  /\ IsRegistry(Without(sid))
           /\ DOMAIN Without(sid) = DOMAIN registry \ {sid}
           /\ \A s \in DOMAIN registry \ {sid} : Without(sid)[s] = registry[s]
BY DEF TypeInv, IsRegistry, Without

LEMMA WithIs ==
    ASSUME NEW r, IsRegistry(r), NEW new \in Sessions
    PROVE  /\ IsRegistry(With(r, new))
           /\ DOMAIN With(r, new) = DOMAIN r \cup {new.sid}
           /\ With(r, new)[new.sid] = new
           /\ \A s \in DOMAIN r \ {new.sid} : With(r, new)[s] = r[s]
<1>1. new.sid \in Sids
  BY DEF Sessions
<1> QED BY <1>1 DEF IsRegistry, With

(* A connection without a session has no id that a session can have.       *)
LEMMA NoSessionApart ==
    /\ NoSession \notin Sessions /\ NoSession.sid \notin Sids
    /\ NoSession.cursor = HeadCursor /\ NoSession.cursor \in Cursors
    /\ HeadCursor \in Cursors
<1>1. NoSession.sid \notin Sids
  BY ConstantsOK DEF NoSession, Sids
<1>2. NoSession \notin Sessions
  BY <1>1 DEF Sessions
<1>3. HeadCursor \in Cursors
  BY DEF HeadCursor, Cursors
<1> QED BY <1>1, <1>2, <1>3 DEF NoSession

LEMMA NoTaskType == NoTask \in Tasks
BY NoSessionApart DEF NoTask, Tasks, Kinds

(* A rewind and a branch are moves to a cursor.                            *)
LEMMA MoveIs ==
    ASSUME TypeInv, NEW c \in Conns,
           \/ \E cursor \in Cursors : Rewind(c, cursor)
           \/ \E tx \in Past : Branch(c, tx)
    PROVE  \E cursor \in Cursors, depth \in 0 .. MaxDepth :
              Move(c, cursor, depth) /\ session[c] # NoSession
<1>1. session[c] \in Sessions \cup {NoSession}
  BY DEF TypeInv
<1>2. ASSUME NEW cursor \in Cursors, Rewind(c, cursor)
      PROVE  Move(c, cursor, session[c].depth) /\ session[c] # NoSession
             /\ session[c].depth \in 0 .. MaxDepth
  BY <1>1, <1>2 DEF Rewind, Sessions
<1>3. ASSUME NEW tx \in Past, Branch(c, tx)
      PROVE  \E cursor \in Cursors, depth \in 0 .. MaxDepth :
                Move(c, cursor, depth) /\ session[c] # NoSession
  <2>1. session[c] \in Sessions /\ session[c].depth + 1 \in 0 .. MaxDepth
    BY <1>1, <1>3, ConstantsOK DEF Branch, Sessions
  <2>2. [session[c].cursor EXCEPT !.tx = tx] \in Cursors
    BY <2>1 DEF Sessions, Cursors
  <2> QED BY <1>3, <2>1, <2>2 DEF Branch
<1> QED BY <1>2, <1>3

(* What a handler does, whichever it is: one request is received, and the  *)
(* registry, the clock and the edits stay well formed.                     *)
LEMMA HandleReceives ==
    ASSUME TypeInv, NEW c \in Conns, Handle(c)
    PROVE  /\ \E kind \in Kinds, view \in Cursors, next \in Sessions \cup {NoSession} :
                 Receive(c, kind, view, next)
           /\ now' \in Nat /\ IsRegistry(registry')
           /\ \A e \in edits' : e \in edits \/ e.req = Len(requests')
<1> DEFINE Received == \E kind \in Kinds, view \in Cursors,
                          next \in Sessions \cup {NoSession} :
                             Receive(c, kind, view, next)
<1>1. /\ session[c] \in Sessions \cup {NoSession} /\ asked[c] \in Cursors
      /\ HeadCursor \in Cursors /\ IsRegistry(registry) /\ now \in Nat
      /\ NoSession \in Sessions \cup {NoSession}
  BY NoSessionApart DEF TypeInv
<1>2. ASSUME NEW token \in Tokens, Auth(c, token)
      PROVE  Received /\ now' \in Nat /\ IsRegistry(registry') /\ edits' = edits
  <2>1. PICK k \in Ticks :
          LET new == [sid |-> <<token, now + k>>, cursor |-> HeadCursor, depth |-> 0]
          IN /\ now' = now + k
             /\ registry' = With(Without(session[c].sid), new)
             /\ Receive(c, "auth", HeadCursor, new)
             /\ UNCHANGED edits
    BY <1>2 DEF Auth
  <2> DEFINE new == [sid |-> <<token, now + k>>, cursor |-> HeadCursor, depth |-> 0]
  <2>2. now' \in Nat
    BY <1>1, <2>1, ConstantsOK
  <2>3. new \in Sessions
    BY <1>1, <2>1, <2>2, ConstantsOK DEF Sessions, Sids
  <2>4. IsRegistry(registry')
    BY <2>1, <2>3, WithoutIs, WithIs
  <2>5. Received
    BY <1>1, <2>1, <2>3 DEF Kinds
  <2> QED BY <2>1, <2>2, <2>4, <2>5
<1>3. ASSUME \/ \E cursor \in Cursors : Rewind(c, cursor)
             \/ \E tx \in Past : Branch(c, tx)
      PROVE  Received /\ now' = now /\ IsRegistry(registry') /\ edits' = edits
  <2>1. PICK cursor \in Cursors, depth \in 0 .. MaxDepth :
          Move(c, cursor, depth) /\ session[c] # NoSession
    BY <1>3, MoveIs
  <2>2. [session[c] EXCEPT !.cursor = cursor, !.depth = depth] \in Sessions
    BY <1>1, <2>1 DEF Sessions
  <2>3. IsRegistry(registry')
    BY <1>1, <2>1, <2>2, WithIs DEF Move
  <2>4. Received
    BY <1>1, <2>1 DEF Move, Kinds
  <2> QED BY <2>1, <2>3, <2>4 DEF Move
<1>4. CASE AuthDenied(c) \/ PreAuth(c) \/ Look(c) \/ Poll(c) \/ Refused(c)
  <2>1. Received /\ UNCHANGED <<now, registry, edits>>
    BY <1>1, <1>4 DEF AuthDenied, PreAuth, Look, Poll, Refused, Kinds
  <2> QED BY <1>1, <2>1
<1>5. CASE Edit(c)
  <2>1. /\ Received /\ UNCHANGED <<now, registry>>
        /\ edits' = edits \cup {[req |-> Len(requests'), at |-> asked[c]]}
    BY <1>1, <1>5 DEF Edit, Kinds
  <2> QED BY <1>1, <2>1
<1> QED BY <1>1, <1>2, <1>3, <1>4, <1>5 DEF Handle

(* Each step is one of these, a handler's only through what it receives.   *)
LEMMA InitTypeInv == Init => TypeInv
<1> SUFFICES ASSUME Init PROVE TypeInv
  OBVIOUS
<1>1. NoSession \in Sessions \cup {NoSession} /\ NoTask \in Tasks /\ HeadCursor \in Cursors
  BY NoTaskType, NoSessionApart
<1>2. /\ ring = <<>> /\ stored = <<>> /\ emitted = <<>> /\ requests = <<>>
      /\ registry = <<>> /\ lives = 1 /\ now = 0 /\ answered = {} /\ edits = {}
  BY DEF Init
<1>3. DOMAIN <<>> = {}
  OBVIOUS
<1>4. IsRegistry(registry)
  BY <1>2, <1>3 DEF IsRegistry
<1>5. /\ ring \in Seq(Nat) /\ stored \in Seq(Nat) /\ emitted \in Seq(Entries)
      /\ requests \in Seq(BOOLEAN) /\ Len(ring) = 0 /\ Len(stored) = 0
  BY <1>2
<1>6. 0 <= RingSize /\ 1 \in 1 .. MaxLives
  BY ConstantsOK
<1>7. /\ session \in [Conns -> Sessions \cup {NoSession}]
      /\ task \in [Conns -> Tasks] /\ pc \in [Conns -> {"out", "idle", "reply"}]
      /\ here \in [Conns -> BOOLEAN] /\ asked \in [Conns -> Cursors]
      /\ \A c \in Conns : pc[c] # "reply"
  BY <1>1 DEF Init
<1> QED BY <1>2, <1>4, <1>5, <1>6, <1>7 DEF TypeInv

(* What Keep leaves of a ring: a bounded sequence with the same end.       *)
LEMMA KeepIs ==
    ASSUME NEW r \in Seq(Nat), Len(r) > 0
    PROVE  /\ Keep(r) \in Seq(Nat) /\ Len(Keep(r)) <= RingSize
           /\ Len(Keep(r)) > 0 /\ Last(Keep(r)) = r[Len(r)]
           /\ \A i \in 1 .. Len(Keep(r)) : \E j \in 1 .. Len(r) : Keep(r)[i] = r[j]
<1>1. RingSize \in Nat /\ RingSize > 0 /\ Len(r) \in Nat
  BY ConstantsOK
<1>2. CASE Len(r) <= RingSize
  BY <1>1, <1>2 DEF Keep, Last
<1>3. CASE ~ (Len(r) <= RingSize)
  <2> DEFINE m == Len(r) - RingSize + 1
  <2>1. Keep(r) = SubSeq(r, m, Len(r))
    BY <1>3 DEF Keep
  <2>2. m \in Int /\ m >= 1 /\ m <= Len(r) /\ Len(r) - m + 1 = RingSize
    BY <1>1, <1>3
  <2>3. \A i \in m .. Len(r) : i \in 1 .. Len(r) /\ r[i] \in Nat
    BY <2>2, <1>1
  <2>4. /\ Keep(r) \in Seq(Nat) /\ Len(Keep(r)) = RingSize
        /\ \A i \in 1 .. RingSize : Keep(r)[i] = r[m + i - 1]
    <3> HIDE DEF m
    <3> QED BY <1>1, <2>1, <2>2, <2>3, SubSeqProperties
  <2>5. \A i \in 1 .. RingSize : m + i - 1 \in 1 .. Len(r)
    BY <1>1, <2>2
  <2>6. Keep(r)[RingSize] = r[Len(r)]
    BY <1>1, <2>2, <2>4
  <2>7. Last(Keep(r)) = r[Len(r)]
    BY <2>4, <2>6 DEF Last
  <2>8. \A i \in 1 .. RingSize : \E j \in 1 .. Len(r) : Keep(r)[i] = r[j]
    BY <2>4, <2>5
  <2> QED BY <1>1, <2>4, <2>7, <2>8
<1> QED BY <1>2, <1>3

LEMMA LatestType ==
    ASSUME TypeInv, NEW c \in Conns
    PROVE  Latest(c) \in Sessions \cup {NoSession} /\ Latest(c).cursor \in Cursors
<1>1. task[c] \in Tasks
  BY DEF TypeInv
<1>2. Latest(c) \in Sessions \cup {NoSession}
  BY <1>1 DEF Latest, Tasks, TypeInv, IsRegistry
<1> QED BY <1>2, NoSessionApart DEF Sessions

(* One more entry, at the end of the ring and perhaps in the store.        *)
LEMMA EmitAppends ==
    ASSUME TypeInv, NEW c \in Conns, Emit(c, Latest(c)),
           NEW n, n = Len(emitted) + 1
    PROVE  /\ emitted' \in Seq(Entries) /\ Len(emitted') = n /\ n \in Nat
           /\ \A e \in 1 .. Len(emitted) : emitted'[e] = emitted[e]
           /\ emitted'[n].req = task[c].req /\ emitted'[n].life = lives
           /\ emitted'[n].prev = IF ring = <<>> THEN 0 ELSE Last(ring)
           /\ emitted'[n].view = IF task[c].kind = "auth-denied" THEN HeadCursor
                                 ELSE Latest(c).cursor
           /\ emitted'[n].want = IF task[c].kind = "auth-denied" THEN HeadCursor
                                 ELSE task[c].view
           /\ ring' \in Seq(Nat) /\ Len(ring') <= RingSize
           /\ Len(ring') > 0 /\ Last(ring') = n
           /\ \A i \in 1 .. Len(ring') : ring'[i] \in 1 .. n
           /\ stored' = stored \/ stored' = Append(stored, n)
           /\ stored' \in Seq(Nat) /\ \A i \in 1 .. Len(stored') : stored'[i] \in 1 .. n
<1> DEFINE new == [prev |-> IF ring = <<>> THEN 0 ELSE Last(ring), req |-> task[c].req,
                   view |-> IF task[c].kind = "auth-denied" THEN HeadCursor
                            ELSE Latest(c).cursor,
                   want |-> IF task[c].kind = "auth-denied" THEN HeadCursor
                            ELSE task[c].view,
                   life |-> lives]
<1>1. /\ emitted \in Seq(Entries) /\ Len(emitted) \in Nat /\ n \in Nat /\ n > 0
      /\ lives \in Nat /\ task[c] \in Tasks
  BY DEF TypeInv
<1>2. (IF ring = <<>> THEN 0 ELSE Last(ring)) \in Nat
  <2>1. ring # <<>> => Len(ring) \in 1 .. Len(ring) /\ ring[Len(ring)] \in Nat
    BY DEF TypeInv
  <2> QED BY <2>1 DEF Last
<1>3. new \in Entries
  BY <1>1, <1>2, LatestType, NoSessionApart DEF Entries, Tasks
<1>4. emitted' = Append(emitted, new)
  BY DEF Emit
<1>5. /\ emitted' \in Seq(Entries) /\ Len(emitted') = n /\ emitted'[n] = new
      /\ \A e \in 1 .. Len(emitted) : emitted'[e] = emitted[e]
  <2> HIDE DEF new
  <2> QED BY <1>1, <1>3, <1>4
<1>6. /\ ring' \in Seq(Nat) /\ Len(ring') <= RingSize
      /\ Len(ring') > 0 /\ Last(ring') = n
      /\ \A i \in 1 .. Len(ring') : ring'[i] \in 1 .. n
  <2> DEFINE r == Append(ring, n)
  <2>1. ring' = Keep(r)
    BY <1>5 DEF Emit
  <2>2. ring \in Seq(Nat) /\ \A i \in 1 .. Len(ring) : ring[i] \in 1 .. Len(emitted)
    BY DEF TypeInv
  <2>3. /\ r \in Seq(Nat) /\ Len(r) = Len(ring) + 1 /\ Len(r) > 0 /\ r[Len(r)] = n
        /\ \A j \in 1 .. Len(r) : r[j] \in 1 .. n
    BY <1>1, <2>2
  <2> HIDE DEF r
  <2> QED BY <2>1, <2>3, KeepIs
<1>7. /\ stored' = stored \/ stored' = Append(stored, n)
      /\ stored' \in Seq(Nat) /\ \A i \in 1 .. Len(stored') : stored'[i] \in 1 .. n
  <2>1. stored \in Seq(Nat) /\ \A i \in 1 .. Len(stored) : stored[i] \in 1 .. Len(emitted)
    BY DEF TypeInv
  <2>2. stored' = stored \/ stored' = Append(stored, n)
    BY <1>5 DEF Emit
  <2>3. CASE stored' = stored
    BY <2>1, <2>3, <1>1
  <2>4. CASE stored' = Append(stored, n)
    BY <2>1, <2>4, <1>1
  <2> QED BY <2>2, <2>3, <2>4
<1>8. /\ new.req = task[c].req /\ new.life = lives
      /\ new.prev = IF ring = <<>> THEN 0 ELSE Last(ring)
      /\ new.view = IF task[c].kind = "auth-denied" THEN HeadCursor ELSE Latest(c).cursor
      /\ new.want = IF task[c].kind = "auth-denied" THEN HeadCursor ELSE task[c].view
  OBVIOUS
<1> HIDE DEF new
<1> QED BY <1>1, <1>5, <1>6, <1>7, <1>8

LEMMA DropTyped ==
    ASSUME TypeInv, NEW c \in Conns, Drop(c),
           UNCHANGED <<now, here, ring, stored, edits, historyVars>>
    PROVE  TypeInv'
<1>1. IsRegistry(registry')
  BY WithoutIs DEF Drop
<1>2. /\ session' \in [Conns -> Sessions \cup {NoSession}]
      /\ task' \in [Conns -> Tasks] /\ pc' \in [Conns -> {"out", "idle", "reply"}]
      /\ asked' \in [Conns -> Cursors]
  BY NoTaskType, NoSessionApart DEF Drop, TypeInv
<1>3. \A d \in Conns : pc'[d] = "reply" => pc[d] = "reply" /\ task'[d] = task[d]
  BY DEF Drop, TypeInv
<1> QED BY <1>1, <1>2, <1>3 DEF TypeInv, historyVars

LEMMA ReceiveIs ==
    ASSUME TypeInv, NEW c \in Conns, NEW kind, NEW view, NEW next,
           Receive(c, kind, view, next)
    PROVE  /\ pc[c] = "idle" /\ pc'[c] = "reply"
           /\ task'[c].kind = kind /\ task'[c].req = Len(requests')
           /\ task'[c].view = view /\ task'[c].next = next
           /\ \A d \in Conns : d # c => pc'[d] = pc[d] /\ task'[d] = task[d]
           /\ Len(requests) \in Nat /\ Len(requests') = Len(requests) + 1
           /\ \A q \in 1 .. Len(requests) : requests'[q] = requests[q]
           /\ requests'[Len(requests')] = (kind \notin {"poll", "pre-auth"})
           /\ UNCHANGED <<session, here, asked, ring, stored, answered, emitted, lives>>
<1>1. /\ task \in [Conns -> Tasks] /\ pc \in [Conns -> {"out", "idle", "reply"}]
      /\ requests \in Seq(BOOLEAN) /\ Len(requests) \in Nat
  BY DEF TypeInv
<1>2. /\ pc' = [pc EXCEPT ![c] = "reply"]
      /\ task' = [task EXCEPT ![c] = [kind |-> kind, req |-> Len(requests'),
                                      view |-> view, next |-> next]]
      /\ pc[c] = "idle"
      /\ UNCHANGED <<session, here, asked, ring, stored, answered, emitted, lives>>
  BY DEF Receive
<1>3. /\ pc'[c] = "reply"
      /\ task'[c].kind = kind /\ task'[c].req = Len(requests')
      /\ task'[c].view = view /\ task'[c].next = next
      /\ \A d \in Conns : d # c => pc'[d] = pc[d] /\ task'[d] = task[d]
  BY <1>1, <1>2
<1>4. requests' = Append(requests, kind \notin {"poll", "pre-auth"})
  BY DEF Receive
<1>5. /\ Len(requests') = Len(requests) + 1
      /\ \A q \in 1 .. Len(requests) : requests'[q] = requests[q]
      /\ requests'[Len(requests')] = (kind \notin {"poll", "pre-auth"})
  BY <1>1, <1>4
<1> QED BY <1>1, <1>2, <1>3, <1>5

LEMMA StepTypeInv == TypeInv /\ [Next]_vars => TypeInv'
<1> SUFFICES ASSUME TypeInv, [Next]_vars PROVE TypeInv'
  OBVIOUS
<1>1. ASSUME NEW c \in Conns, Connect(c) \/ Leave(c) PROVE TypeInv'
  <2>1. /\ pc' \in [Conns -> {"out", "idle", "reply"}] /\ here' \in [Conns -> BOOLEAN]
        /\ UNCHANGED <<now, serverVars, session, task, asked, stored, edits, historyVars>>
    BY <1>1 DEF Connect, Leave, TypeInv
  <2>2. \A d \in Conns : pc'[d] = "reply" => pc[d] = "reply"
    BY <1>1 DEF Connect, Leave, TypeInv
  <2> QED BY <2>1, <2>2 DEF TypeInv, serverVars, historyVars
<1>2. ASSUME NEW c \in Conns, Close(c) \/ ReplyFails(c) PROVE TypeInv'
  BY <1>2, DropTyped DEF Close, ReplyFails
<1>3. ASSUME NEW c \in Conns, Handle(c) PROVE TypeInv'
  <2>1. PICK kind \in Kinds, view \in Cursors, next \in Sessions \cup {NoSession} :
          Receive(c, kind, view, next)
    BY <1>3, HandleReceives
  <2>2. /\ now' \in Nat /\ IsRegistry(registry')
        /\ \A e \in edits' : e \in edits \/ e.req = Len(requests')
    BY <1>3, HandleReceives
  <2>3. /\ requests' \in Seq(BOOLEAN) /\ Len(requests') = Len(requests) + 1
        /\ Len(requests) \in Nat
    BY <2>1 DEF Receive, TypeInv
  <2>4. [kind |-> kind, req |-> Len(requests'), view |-> view, next |-> next] \in Tasks
    BY <2>3 DEF Tasks
  <2>5. /\ task' \in [Conns -> Tasks] /\ pc' \in [Conns -> {"out", "idle", "reply"}]
        /\ UNCHANGED <<session, here, asked, ring, stored, answered, emitted, lives>>
    BY <2>1, <2>4 DEF Receive, TypeInv
  <2>6. \A e \in edits' : e.req \in 1 .. Len(requests')
    BY <2>2, <2>3 DEF TypeInv
  <2>7. answered' \subseteq 1 .. Len(requests')
    BY <2>3, <2>5 DEF TypeInv
  <2>8. \A d \in Conns : pc'[d] = "reply" =>
           IF d = c THEN task'[d].req = Len(requests')
           ELSE pc[d] = "reply" /\ task'[d] = task[d]
    BY <2>1, ReceiveIs
  <2>9. \A d \in Conns : pc'[d] = "reply" => task'[d].req \in 1 .. Len(requests')
    <3>1. \A d \in Conns : pc[d] = "reply" => task[d].req \in 1 .. Len(requests)
      BY DEF TypeInv
    <3>2. \A q \in 1 .. Len(requests) : q \in 1 .. Len(requests')
      BY <2>3
    <3>3. Len(requests') \in 1 .. Len(requests')
      BY <2>3
    <3> QED BY <2>8, <3>1, <3>2, <3>3
  <2> QED BY <2>2, <2>3, <2>5, <2>6, <2>7, <2>9 DEF TypeInv
<1>4. ASSUME NEW c \in Conns, Reply(c) PROVE TypeInv'
  <2>1. /\ session' \in [Conns -> Sessions \cup {NoSession}]
        /\ task' \in [Conns -> Tasks] /\ pc' \in [Conns -> {"out", "idle", "reply"}]
        /\ asked' \in [Conns -> Cursors]
    BY <1>4, LatestType, NoTaskType DEF Reply, TypeInv, Tasks
  <2>2. answered' \subseteq 1 .. Len(requests)
    BY <1>4 DEF Reply, TypeInv
  <2>3. \A d \in Conns : pc'[d] = "reply" => pc[d] = "reply" /\ task'[d] = task[d]
    BY <1>4 DEF Reply, TypeInv
  <2>4. UNCHANGED <<now, registry, here, edits, requests, lives>>
    BY <1>4 DEF Reply
  <2>5. CASE Emit(c, Latest(c))
    <3>1. /\ ring' \in Seq(Nat) /\ Len(ring') <= RingSize
          /\ \A i \in 1 .. Len(ring') : ring'[i] \in 1 .. Len(emitted')
          /\ stored' \in Seq(Nat)
          /\ \A i \in 1 .. Len(stored') : stored'[i] \in 1 .. Len(emitted')
          /\ emitted' \in Seq(Entries)
      BY <2>5, EmitAppends
    <3> QED BY <2>1, <2>2, <2>3, <2>4, <3>1 DEF TypeInv
  <2>6. CASE UNCHANGED <<emitted, ring, stored>>
    BY <2>1, <2>2, <2>3, <2>4, <2>6 DEF TypeInv
  <2> QED BY <1>4, <2>5, <2>6 DEF Reply
<1>5. CASE Restart
  <2>1. /\ session' \in [Conns -> Sessions \cup {NoSession}]
        /\ task' \in [Conns -> Tasks] /\ pc' \in [Conns -> {"out", "idle", "reply"}]
        /\ here' \in [Conns -> BOOLEAN] /\ asked' \in [Conns -> Cursors]
        /\ \A d \in Conns : pc'[d] # "reply"
    BY <1>5, NoTaskType, NoSessionApart DEF Restart
  <2>2. registry' = <<>> /\ ring' = <<>> /\ lives' \in 1 .. MaxLives
    BY <1>5, ConstantsOK DEF Restart, TypeInv
  <2>3. IsRegistry(registry') /\ ring' \in Seq(Nat) /\ Len(ring') = 0 /\ 0 <= RingSize
    BY <2>2, ConstantsOK DEF IsRegistry
  <2>4. UNCHANGED <<now, stored, edits, requests, answered, emitted>>
    BY <1>5 DEF Restart
  <2> QED BY <2>1, <2>2, <2>3, <2>4 DEF TypeInv
<1>6. CASE UNCHANGED vars
  BY <1>6 DEF TypeInv, vars, serverVars, connVars, historyVars
<1> QED BY <1>1, <1>2, <1>3, <1>4, <1>5, <1>6 DEF Next
-----------------------------------------------------------------------------
(* Only a step that receives or answers changes what RequestInv is about.  *)
LEMMA QuietKeepsRequests ==
    ASSUME RequestInv, UNCHANGED <<requests, answered, emitted>>,
           \A d \in Conns : pc'[d] = "reply" => pc[d] = "reply" /\ task'[d] = task[d]
    PROVE  RequestInv'
BY DEF RequestInv

LEMMA ReceiveKeepsRequests ==
    ASSUME TypeInv, RequestInv, NEW c \in Conns, Handle(c)
    PROVE  RequestInv'
<1>1. PICK kind \in Kinds, view \in Cursors, next \in Sessions \cup {NoSession} :
        Receive(c, kind, view, next)
  BY HandleReceives
<1> DEFINE n == Len(requests')
<1>2. /\ pc'[c] = "reply" /\ task'[c].req = n /\ task'[c].kind = kind
      /\ \A d \in Conns : d # c => pc'[d] = pc[d] /\ task'[d] = task[d]
      /\ Len(requests) \in Nat /\ n = Len(requests) + 1
      /\ \A q \in 1 .. Len(requests) : requests'[q] = requests[q]
      /\ requests'[n] = (kind \notin {"poll", "pre-auth"})
      /\ UNCHANGED <<session, here, asked, ring, stored, answered, emitted, lives>>
  BY <1>1, ReceiveIs
<1>3. n \notin 1 .. Len(requests) /\ answered \subseteq 1 .. Len(requests)
  BY <1>2 DEF TypeInv
<1>4. (kind \notin {"poll", "pre-auth"}) = (kind \in Audited)
  BY DEF Audited, Kinds
<1>5. \A d \in Conns : d # c /\ pc'[d] = "reply" => task'[d].req \in 1 .. Len(requests)
  BY <1>2 DEF TypeInv
<1> HIDE DEF n
<1>6. ASSUME NEW d \in Conns, pc'[d] = "reply"
      PROVE  /\ task'[d].req \notin answered'
             /\ requests'[task'[d].req] = (task'[d].kind \in Audited)
  <2>1. CASE d = c
    BY <2>1, <1>2, <1>3, <1>4
  <2>2. CASE d # c
    BY <1>6, <2>2, <1>2, <1>5 DEF RequestInv
  <2> QED BY <2>1, <2>2
<1>7. ASSUME NEW d \in Conns, NEW e \in Conns, pc'[d] = "reply", pc'[e] = "reply", d # e
      PROVE  task'[d].req # task'[e].req
  BY <1>7, <1>2, <1>3, <1>5 DEF RequestInv
<1>8. ASSUME NEW e \in 1 .. Len(emitted)
      PROVE  /\ emitted[e].req \in answered /\ requests'[emitted[e].req]
             /\ \A f \in 1 .. Len(emitted) : emitted[e].req = emitted[f].req => e = f
  BY <1>2, <1>3 DEF RequestInv
<1>9. \A q \in answered : requests'[q] => \E e \in 1 .. Len(emitted) : emitted[e].req = q
  BY <1>2, <1>3 DEF RequestInv
<1> QED BY <1>2, <1>6, <1>7, <1>8, <1>9 DEF RequestInv

LEMMA ReplyKeepsRequests ==
    ASSUME TypeInv, RequestInv, NEW c \in Conns, Reply(c)
    PROVE  RequestInv'
<1> DEFINE q == task[c].req
<1>1. /\ pc[c] = "reply" /\ answered' = answered \cup {q} /\ requests' = requests
      /\ \A d \in Conns : pc'[d] = "reply" => d # c /\ pc[d] = "reply" /\ task'[d] = task[d]
  BY DEF Reply, TypeInv
<1>2. q \notin answered /\ requests[q] = (task[c].kind \in Audited)
  BY <1>1 DEF RequestInv
<1>3. \A d \in Conns : pc'[d] = "reply" =>
        /\ task'[d].req \notin answered'
        /\ requests'[task'[d].req] = (task'[d].kind \in Audited)
  BY <1>1 DEF RequestInv
<1>4. \A d, e \in Conns : pc'[d] = "reply" /\ pc'[e] = "reply" /\ d # e =>
        task'[d].req # task'[e].req
  BY <1>1 DEF RequestInv
<1> SUFFICES /\ \A e \in 1 .. Len(emitted') :
                  /\ emitted'[e].req \in answered' /\ requests[emitted'[e].req]
                  /\ \A f \in 1 .. Len(emitted') :
                        emitted'[e].req = emitted'[f].req => e = f
             /\ \A p \in answered' : requests[p] =>
                  \E e \in 1 .. Len(emitted') : emitted'[e].req = p
  BY <1>1, <1>3, <1>4 DEF RequestInv
<1>5. CASE task[c].kind \in Audited
  <2> DEFINE n == Len(emitted) + 1
  <2>1. /\ Len(emitted') = n /\ n \in Nat /\ emitted'[n].req = q
        /\ \A e \in 1 .. Len(emitted) : emitted'[e] = emitted[e]
    BY <1>5, EmitAppends DEF Reply
  <2>2. \A e \in 1 .. n : e = n \/ e \in 1 .. Len(emitted)
    BY <2>1 DEF TypeInv
  <2>3. n \in 1 .. n /\ \A e \in 1 .. Len(emitted) : e \in 1 .. n
    BY <2>1 DEF TypeInv
  <2> HIDE DEF n, q
  <2>4. ASSUME NEW e \in 1 .. n
        PROVE  /\ emitted'[e].req \in answered' /\ requests[emitted'[e].req]
               /\ \A f \in 1 .. n : emitted'[e].req = emitted'[f].req => e = f
    <3>1. \A f \in 1 .. Len(emitted) :
             emitted'[f].req \in answered /\ requests[emitted'[f].req]
      BY <2>1 DEF RequestInv
    <3>2. emitted'[n].req = q /\ q \notin answered /\ requests[q]
      BY <1>2, <1>5, <2>1
    <3>3. \A f \in 1 .. Len(emitted) : e \in 1 .. Len(emitted) =>
             (emitted'[e].req = emitted'[f].req => e = f)
      BY <2>1 DEF RequestInv
    <3> QED BY <1>1, <2>2, <3>1, <3>2, <3>3
  <2>5. \A p \in answered' : requests[p] => \E e \in 1 .. n : emitted'[e].req = p
    BY <1>1, <2>1, <2>3 DEF RequestInv
  <2> QED BY <2>1, <2>4, <2>5
<1>6. CASE task[c].kind \notin Audited
  <2>1. emitted' = emitted
    BY <1>6 DEF Reply
  <2> QED BY <1>1, <1>2, <1>6, <2>1 DEF RequestInv
<1> QED BY <1>5, <1>6

LEMMA StepRequestInv == TypeInv /\ RequestInv /\ [Next]_vars => RequestInv'
<1> SUFFICES ASSUME TypeInv, RequestInv, [Next]_vars PROVE RequestInv'
  OBVIOUS
<1>1. ASSUME NEW c \in Conns, Connect(c) \/ Leave(c) PROVE RequestInv'
  <2>1. /\ \A d \in Conns : pc'[d] = "reply" => pc[d] = "reply"
        /\ UNCHANGED <<task, requests, answered, emitted>>
    BY <1>1 DEF Connect, Leave, TypeInv, historyVars
  <2> QED BY <2>1, QuietKeepsRequests
<1>2. ASSUME NEW c \in Conns, Close(c) \/ ReplyFails(c) PROVE RequestInv'
  <2>1. /\ \A d \in Conns : pc'[d] = "reply" => pc[d] = "reply" /\ task'[d] = task[d]
        /\ UNCHANGED <<requests, answered, emitted>>
    BY <1>2 DEF Close, ReplyFails, Drop, TypeInv, historyVars
  <2> QED BY <2>1, QuietKeepsRequests
<1>3. ASSUME NEW c \in Conns, Handle(c) PROVE RequestInv'
  BY <1>3, ReceiveKeepsRequests
<1>4. ASSUME NEW c \in Conns, Reply(c) PROVE RequestInv'
  BY <1>4, ReplyKeepsRequests
<1>5. CASE Restart
  <2>1. /\ \A d \in Conns : pc'[d] # "reply"
        /\ UNCHANGED <<requests, answered, emitted>>
    BY <1>5 DEF Restart
  <2> QED BY <2>1, QuietKeepsRequests
<1>6. CASE UNCHANGED vars
  BY <1>6, QuietKeepsRequests DEF vars, connVars, historyVars
<1> QED BY <1>1, <1>2, <1>3, <1>4, <1>5, <1>6 DEF Next

LEMMA InitRequestInv == Init => RequestInv
<1> SUFFICES ASSUME Init PROVE RequestInv
  OBVIOUS
<1>1. emitted = <<>> /\ answered = {} /\ \A c \in Conns : pc[c] # "reply"
  BY DEF Init
<1>2. Len(emitted) = 0
  BY <1>1
<1> QED BY <1>1, <1>2 DEF RequestInv

LEMMA RequestInvEntries == TypeInv /\ RequestInv => OneEntryPerAnswer
<1> SUFFICES ASSUME TypeInv, RequestInv, NEW q \in DOMAIN requests
             PROVE  LET entries == {e \in DOMAIN emitted : emitted[e].req = q}
                    IN IF q \in answered /\ requests[q]
                       THEN Cardinality(entries) = 1 ELSE entries = {}
  BY DEF OneEntryPerAnswer
<1> DEFINE entries == {e \in DOMAIN emitted : emitted[e].req = q}
<1>1. DOMAIN emitted = 1 .. Len(emitted)
  BY DEF TypeInv
<1>2. CASE q \in answered /\ requests[q]
  <2>1. PICK e \in 1 .. Len(emitted) : emitted[e].req = q
    BY <1>2 DEF RequestInv
  <2>2. entries = {e}
    BY <1>1, <2>1 DEF RequestInv
  <2> QED BY <1>2, <2>2, FS_Singleton
<1>3. CASE ~ (q \in answered /\ requests[q])
  BY <1>1, <1>3 DEF RequestInv
<1> QED BY <1>2, <1>3

(* Whatever the interleaving, whoever leaves and however often the server  *)
(* starts: an answered operation or handshake has exactly one entry in the *)
(* chain, and nothing else has one.                                        *)
THEOREM AnswersAudited == Spec => []OneEntryPerAnswer
<1>1. Init => TypeInv /\ RequestInv
  BY InitTypeInv, InitRequestInv
<1>2. TypeInv /\ RequestInv /\ [Next]_vars => (TypeInv /\ RequestInv)'
  BY StepTypeInv, StepRequestInv
<1> QED BY <1>1, <1>2, RequestInvEntries, PTL DEF Spec
-----------------------------------------------------------------------------
LEMMA InitChainInv == Init => ChainInv
<1> SUFFICES ASSUME Init PROVE ChainInv
  OBVIOUS
<1>1. /\ ring = <<>> /\ DOMAIN stored = {} /\ DOMAIN emitted = {} /\ Len(emitted) = 0
  BY DEF Init
<1> QED BY <1>1 DEF ChainInv, StoredInChainOrder

(* The new entry is linked to the one before it, and sorts after all that  *)
(* are stored.                                                             *)
LEMMA EmitKeepsChain ==
    ASSUME TypeInv, ChainInv, NEW c \in Conns, Emit(c, Latest(c)), lives' = lives
    PROVE  ChainInv'
<1> DEFINE n == Len(emitted) + 1
<1>1. /\ n \in Nat /\ Len(emitted) \in Nat /\ Len(emitted') = n /\ DOMAIN emitted' = 1 .. n
      /\ \A e \in 1 .. Len(emitted) : emitted'[e] = emitted[e]
      /\ emitted'[n].life = lives
      /\ emitted'[n].prev = IF ring = <<>> THEN 0 ELSE Last(ring)
      /\ ring' # <<>> /\ Last(ring') = n
      /\ stored' = stored \/ stored' = Append(stored, n)
  <2>1. /\ emitted' \in Seq(Entries) /\ ring' \in Seq(Nat) /\ Len(ring') > 0
        /\ Len(emitted') = n /\ n \in Nat /\ Last(ring') = n
        /\ \A e \in 1 .. Len(emitted) : emitted'[e] = emitted[e]
        /\ emitted'[n].life = lives
        /\ emitted'[n].prev = IF ring = <<>> THEN 0 ELSE Last(ring)
        /\ stored' = stored \/ stored' = Append(stored, n)
    BY EmitAppends
  <2>2. DOMAIN emitted' = 1 .. n
    BY <2>1
  <2>3. ring' # <<>>
    BY <2>1
  <2>4. Len(emitted) \in Nat
    BY DEF TypeInv
  <2> QED BY <2>1, <2>2, <2>3, <2>4
<1>2. n > 1 <=> Len(emitted) > 0
  BY <1>1
<1>3. emitted'[n].prev = IF n > 1 /\ emitted'[n - 1].life = emitted'[n].life
                         THEN n - 1 ELSE 0
  <2>1. n - 1 = Len(emitted) /\ (Len(emitted) > 0 => n - 1 \in 1 .. Len(emitted))
    BY <1>1
  <2>2. CASE ring = <<>>
    BY <1>1, <1>2, <2>1, <2>2 DEF ChainInv
  <2>3. CASE ring # <<>>
    BY <1>1, <1>2, <2>1, <2>3 DEF ChainInv
  <2> QED BY <2>2, <2>3
<1>4. \A e \in 1 .. n : emitted'[e].life <= lives
  <2>1. \A e \in 1 .. n : e = n \/ e \in 1 .. Len(emitted)
    BY <1>1
  <2>2. lives <= lives
    BY DEF TypeInv
  <2> QED BY <1>1, <2>1, <2>2 DEF ChainInv
<1>5. ASSUME NEW e \in 1 .. n
      PROVE  emitted'[e].prev = IF e > 1 /\ emitted'[e - 1].life = emitted'[e].life
                                THEN e - 1 ELSE 0
  <2>1. CASE e = n
    BY <1>3, <2>1
  <2>2. CASE e # n
    <3>1. e \in 1 .. Len(emitted) /\ e \in DOMAIN emitted
          /\ (e > 1 => e - 1 \in 1 .. Len(emitted))
      BY <1>1, <2>2 DEF TypeInv
    <3> QED BY <1>1, <3>1 DEF ChainInv, StoredInChainOrder
  <2> QED BY <2>1, <2>2
<1>6. \A i, j \in DOMAIN stored' : i < j => stored'[i] < stored'[j]
  <2>1. /\ stored \in Seq(Nat) /\ DOMAIN stored = 1 .. Len(stored) /\ Len(stored) \in Nat
        /\ \A i \in 1 .. Len(stored) : stored[i] < n
        /\ \A i, j \in 1 .. Len(stored) : i < j => stored[i] < stored[j]
    <3>1. stored \in Seq(Nat) /\ \A i \in 1 .. Len(stored) : stored[i] \in 1 .. Len(emitted)
      BY DEF TypeInv
    <3>2. DOMAIN stored = 1 .. Len(stored) /\ Len(stored) \in Nat
      BY <3>1
    <3>3. \A i, j \in DOMAIN stored : i < j => stored[i] < stored[j]
      BY DEF ChainInv, StoredInChainOrder
    <3>4. \A i \in 1 .. Len(stored) : stored[i] < n
      BY <1>1, <3>1
    <3> QED BY <3>1, <3>2, <3>3, <3>4
  <2>2. CASE stored' = Append(stored, n)
    <3>1. /\ DOMAIN stored' = 1 .. Len(stored) + 1
          /\ \A i \in 1 .. Len(stored) : stored'[i] = stored[i]
          /\ stored'[Len(stored) + 1] = n
      BY <1>1, <2>1, <2>2
    <3>2. \A i \in 1 .. Len(stored) + 1 : i = Len(stored) + 1 \/ i \in 1 .. Len(stored)
      BY <2>1
    <3> HIDE DEF n
    <3> QED BY <2>1, <3>1, <3>2
  <2>3. CASE stored' = stored
    BY <2>1, <2>3
  <2> QED BY <1>1, <2>2, <2>3
<1> HIDE DEF n
<1> QED BY <1>1, <1>2, <1>4, <1>5, <1>6 DEF ChainInv, StoredInChainOrder, n

LEMMA StepChainInv == TypeInv /\ ChainInv /\ [Next]_vars => ChainInv'
<1> SUFFICES ASSUME TypeInv, ChainInv, [Next]_vars PROVE ChainInv'
  OBVIOUS
<1>1. CASE UNCHANGED <<emitted, ring, stored, lives>>
  BY <1>1 DEF ChainInv, StoredInChainOrder
<1>2. ASSUME NEW c \in Conns, Reply(c) PROVE ChainInv'
  BY <1>1, <1>2, EmitKeepsChain DEF Reply
<1>3. CASE Restart
  <2>1. /\ ring' = <<>> /\ lives' = lives + 1 /\ UNCHANGED <<emitted, stored>>
    BY <1>3 DEF Restart
  <2>2. lives \in Nat /\ \A e \in 1 .. Len(emitted) : emitted[e].life \in Nat
    <3>1. lives \in Nat /\ emitted \in Seq(Entries)
      BY DEF TypeInv
    <3>2. \A e \in 1 .. Len(emitted) : emitted[e] \in Entries
      BY <3>1
    <3> QED BY <3>1, <3>2 DEF Entries
  <2>3. \A e \in 1 .. Len(emitted) : emitted[e].life <= lives' /\ emitted[e].life # lives'
    BY <2>1, <2>2 DEF ChainInv
  <2>4. Len(emitted) > 0 => Len(emitted) \in 1 .. Len(emitted)
    BY DEF TypeInv
  <2> QED BY <2>1, <2>3, <2>4 DEF ChainInv, StoredInChainOrder
<1>4. ASSUME NEW c \in Conns,
             Connect(c) \/ Leave(c) \/ Close(c) \/ ReplyFails(c) \/ Handle(c)
      PROVE  UNCHANGED <<emitted, ring, stored, lives>>
  <2>1. CASE Handle(c)
    BY <2>1, HandleReceives DEF Receive
  <2>2. CASE Connect(c) \/ Leave(c) \/ Close(c) \/ ReplyFails(c)
    BY <2>2 DEF Connect, Leave, Close, ReplyFails, serverVars, historyVars
  <2> QED BY <1>4, <2>1, <2>2
<1> QED BY <1>1, <1>2, <1>3, <1>4 DEF Next, vars, serverVars, historyVars

(* Every entry is linked to the one emitted just before it in the same     *)
(* life of the server, and the stored entries keep the order of the chain. *)
THEOREM ChainInOrder == Spec => []StoredInChainOrder
<1>1. Init => TypeInv /\ ChainInv
  BY InitTypeInv, InitChainInv
<1>2. TypeInv /\ ChainInv /\ [Next]_vars => (TypeInv /\ ChainInv)'
  BY StepTypeInv, StepChainInv
<1>3. ChainInv => StoredInChainOrder
  BY DEF ChainInv
<1> QED BY <1>1, <1>2, <1>3, PTL DEF Spec
-----------------------------------------------------------------------------
(* Session ids are kept apart by the clock: two handshakes under one token *)
(* do not read the same time.                                              *)
ClockAdvances == \A k \in Ticks : k > 0

LEMMA IdsTyped ==
    ASSUME TypeInv, NEW c \in Conns
    PROVE  /\ Ids(c) \subseteq Sids
           /\ \A s \in Ids(c) : s[2] \in Nat
           /\ \A x \in Sessions \cup {NoSession} : x # NoSession => x.sid # NoSession.sid
<1>1. session[c] \in Sessions \cup {NoSession} /\ task[c].next \in Sessions \cup {NoSession}
  BY DEF TypeInv, Tasks
<1>2. \A x \in Sessions : x.sid \in Sids
  BY DEF Sessions
<1>3. Ids(c) \subseteq Sids
  BY <1>1, <1>2 DEF Ids
<1>4. \A s \in Sids : s[2] \in Nat
  BY DEF Sids
<1> QED BY <1>2, <1>3, <1>4, NoSessionApart

IsFresh(s) == s[2] \in Nat /\ now < s[2] /\ s[2] <= now'

(* The ids stay apart as long as a connection takes no id but a fresh one. *)
LEMMA IdsStayApart ==
    ASSUME TypeInv, IdsApart, NEW c \in Conns, now' \in Nat, now <= now',
           \A s \in Ids(c)' : s \in Ids(c) \/ IsFresh(s),
           \A d \in Conns : d # c => Ids(d)' = Ids(d)
    PROVE  IdsApart'
<1>1. now \in Nat /\ \A d \in Conns : \A s \in Ids(d) : s[2] \in Nat /\ s[2] <= now
  BY IdsTyped DEF TypeInv, IdsApart
<1>2. \A d \in Conns : \A s \in Ids(d) : s[2] <= now' /\ ~ IsFresh(s)
  BY <1>1 DEF IsFresh
<1>3. \A d \in Conns : \A s \in Ids(d)' : s[2] <= now'
  BY <1>2 DEF IsFresh
<1>4. ASSUME NEW d \in Conns, NEW e \in Conns, d # e PROVE Ids(d)' \cap Ids(e)' = {}
  <2>1. Ids(d) \cap Ids(e) = {}
    BY <1>4 DEF IdsApart
  <2> QED BY <1>2, <1>4, <2>1
<1> QED BY <1>3, <1>4 DEF IdsApart

(* A connection that does not move, and whose records do not, still knows  *)
(* its session.                                                            *)
LEMMA OtherKnows ==
    ASSUME TypeInv, NEW d \in Conns, KnowsItsSession(d),
           session'[d] = session[d], task'[d] = task[d], asked'[d] = asked[d],
           pc'[d] = pc[d],
           \A s \in Ids(d) : s \in DOMAIN registry =>
               s \in DOMAIN registry' /\ registry'[s] = registry[s]
    PROVE  KnowsItsSession(d)' /\ Ids(d)' = Ids(d)
<1>1. session[d] # NoSession => session[d].sid \in Ids(d)
  BY IdsTyped DEF TypeInv, Ids
<1>2. task[d].next # NoSession => task[d].next.sid \in Ids(d)
  BY IdsTyped DEF TypeInv, Tasks, Ids
<1> QED BY <1>1, <1>2 DEF KnowsItsSession, Ids

(* What a connection leaves to the others when it drops its session.       *)
LEMMA DropKnows ==
    ASSUME TypeInv, SessionInv, NEW c \in Conns, Drop(c),
           UNCHANGED <<now, edits, emitted>>
    PROVE  SessionInv'
<1>1. /\ session'[c] = NoSession /\ task'[c] = NoTask /\ pc'[c] = "out"
      /\ \A d \in Conns : d # c => /\ session'[d] = session[d] /\ task'[d] = task[d]
                                   /\ asked'[d] = asked[d] /\ pc'[d] = pc[d]
  BY DEF Drop, TypeInv
<1>2. ASSUME NEW d \in Conns, d # c, NEW s \in Ids(d), s \in DOMAIN registry
      PROVE  s \in DOMAIN registry' /\ registry'[s] = registry[s]
  <2>1. session[c].sid # s
    <3>1. session[c].sid \in Ids(c) \/ session[c].sid = NoSession.sid
      BY DEF Ids
    <3>2. s # NoSession.sid
      BY DEF Ids
    <3> QED BY <1>2, <3>1, <3>2 DEF SessionInv, IdsApart
  <2> QED BY <1>2, <2>1, WithoutIs DEF Drop
<1>3. \A d \in Conns : d # c => KnowsItsSession(d)' /\ Ids(d)' = Ids(d)
  BY <1>1, <1>2, OtherKnows DEF SessionInv
<1>4. KnowsItsSession(c)' /\ Ids(c)' = {}
  BY <1>1 DEF KnowsItsSession, Ids, NoTask
<1>5. IdsApart'
  <2>1. now' \in Nat /\ now <= now' /\ IdsApart
    BY DEF TypeInv, SessionInv
  <2> QED BY <1>3, <1>4, <2>1, IdsStayApart
<1>6. EditsAtHead' /\ EntryShowsView'
  BY DEF SessionInv, EditsAtHead, EntryShowsView
<1> QED BY <1>3, <1>4, <1>5, <1>6 DEF SessionInv

(* A handler that registers only ids of its own connection, or a fresh one,*)
(* keeps the sessions apart if its own connection knows what it did.       *)
LEMMA HandlerKnows ==
    ASSUME TypeInv, SessionInv, NEW c \in Conns, NEW kind \in Kinds, NEW view, NEW next,
           Receive(c, kind, view, next), now' \in Nat, now <= now',
           next.sid \in Ids(c) \/ next = NoSession \/ IsFresh(next.sid),
           \A s \in DOMAIN registry : s \notin Ids(c) /\ ~ IsFresh(s) =>
               s \in DOMAIN registry' /\ registry'[s] = registry[s],
           IF next = NoSession THEN kind \in {"pre-auth", "auth-denied"}
           ELSE /\ next.sid \in DOMAIN registry' /\ registry'[next.sid].cursor = view
                /\ kind \notin {"op", "op-refused", "poll"} => registry'[next.sid] = next,
           EditsAtHead'
    PROVE  SessionInv'
<1>1. /\ pc[c] = "idle" /\ pc'[c] = "reply" /\ task'[c].kind = kind
      /\ task'[c].view = view /\ task'[c].next = next
      /\ \A d \in Conns : d # c => pc'[d] = pc[d] /\ task'[d] = task[d]
      /\ UNCHANGED <<session, here, asked, ring, stored, answered, emitted, lives>>
  BY ReceiveIs
<1>2. ASSUME NEW d \in Conns, d # c, NEW s \in Ids(d), s \in DOMAIN registry
      PROVE  s \in DOMAIN registry' /\ registry'[s] = registry[s]
  <2>1. s \notin Ids(c)
    BY <1>2 DEF SessionInv, IdsApart
  <2>2. ~ IsFresh(s)
    <3>1. s[2] <= now
      BY DEF SessionInv, IdsApart
    <3>2. s[2] \in Nat /\ now \in Nat
      BY IdsTyped DEF TypeInv
    <3> QED BY <3>1, <3>2 DEF IsFresh
  <2> QED BY <1>2, <2>1, <2>2
<1>3. \A d \in Conns : d # c => KnowsItsSession(d)' /\ Ids(d)' = Ids(d)
  BY <1>1, <1>2, OtherKnows DEF SessionInv
<1>4. KnowsItsSession(c)'
  BY <1>1 DEF KnowsItsSession, SessionInv
<1>5. IdsApart'
  <2>1. \A s \in Ids(c)' : s \in Ids(c) \/ IsFresh(s)
    BY <1>1 DEF Ids
  <2> QED BY <1>3, <2>1, IdsStayApart DEF SessionInv
<1>6. EntryShowsView'
  BY <1>1 DEF SessionInv, EntryShowsView
<1> QED BY <1>3, <1>4, <1>5, <1>6 DEF SessionInv

LEMMA HandleSession ==
    ASSUME TypeInv, SessionInv, ClockAdvances, NEW c \in Conns, Handle(c)
    PROVE  SessionInv'
<1> DEFINE s == session[c]
<1>1. /\ s \in Sessions \cup {NoSession} /\ asked[c] \in Cursors
      /\ now \in Nat /\ now <= now /\ IsRegistry(registry)
      /\ s.sid \in Ids(c) \cup {NoSession.sid}
      /\ s # NoSession => s.sid \in Ids(c)
  BY IdsTyped DEF TypeInv, Ids
<1>2. \A kind, view, next : Receive(c, kind, view, next) => pc[c] = "idle"
  BY DEF Receive
<1>3. pc[c] = "idle" /\ s # NoSession =>
        asked[c] = s.cursor /\ s.sid \in DOMAIN registry /\ registry[s.sid] = s
  BY DEF SessionInv, KnowsItsSession
<1>4. edits' = edits => EditsAtHead'
  BY DEF SessionInv, EditsAtHead
<1> HIDE DEF s
<1>5. ASSUME NEW token \in Tokens, Auth(c, token) PROVE SessionInv'
  <2>1. PICK k \in Ticks :
          LET new == [sid |-> <<token, now + k>>, cursor |-> HeadCursor, depth |-> 0]
          IN /\ now' = now + k
             /\ registry' = With(Without(session[c].sid), new)
             /\ Receive(c, "auth", HeadCursor, new)
             /\ UNCHANGED edits
    BY <1>5 DEF Auth
  <2> DEFINE new == [sid |-> <<token, now + k>>, cursor |-> HeadCursor, depth |-> 0]
  <2>2. now' = now + k /\ now' \in Nat /\ now < now' /\ now <= now'
    BY <1>1, <2>1, ConstantsOK DEF ClockAdvances
  <2>3. new \in Sessions /\ new.sid = <<token, now'>> /\ new.cursor = HeadCursor
    <3>1. <<token, now'>> \in Sids /\ 0 \in 0 .. MaxDepth /\ HeadCursor \in Cursors
      BY <2>2, NoSessionApart, ConstantsOK DEF Sids
    <3> QED BY <2>2, <3>1 DEF Sessions
  <2>4. registry' = With(Without(s.sid), new) /\ Receive(c, "auth", HeadCursor, new)
    BY <2>1 DEF s
  <2> HIDE DEF new
  <2>5. IsFresh(new.sid)
    BY <2>2, <2>3 DEF IsFresh
  <2>6. /\ new.sid \in DOMAIN registry' /\ registry'[new.sid] = new
        /\ \A x : x \in DOMAIN registry /\ x \notin {s.sid, new.sid} =>
              x \in DOMAIN registry' /\ registry'[x] = registry[x]
    <3>1. /\ IsRegistry(Without(s.sid)) /\ DOMAIN Without(s.sid) = DOMAIN registry \ {s.sid}
          /\ \A x \in DOMAIN registry \ {s.sid} : Without(s.sid)[x] = registry[x]
      BY WithoutIs
    <3> DEFINE r == Without(s.sid)
    <3> HIDE DEF r
    <3>2. /\ DOMAIN With(r, new) = DOMAIN r \cup {new.sid} /\ With(r, new)[new.sid] = new
          /\ \A x \in DOMAIN r \ {new.sid} : With(r, new)[x] = r[x]
      BY <2>3, <3>1, WithIs DEF r
    <3> QED BY <2>4, <3>1, <3>2 DEF r
  <2>7. \A x \in DOMAIN registry : x \notin Ids(c) /\ ~ IsFresh(x) =>
           x \in DOMAIN registry' /\ registry'[x] = registry[x]
    <3>1. \A x \in DOMAIN registry : x # NoSession.sid
      BY <1>1, NoSessionApart DEF IsRegistry
    <3> QED BY <1>1, <2>5, <2>6, <3>1
  <2>8. new # NoSession
    BY <2>3, NoSessionApart
  <2>9. EditsAtHead'
    BY <2>1, <1>4
  <2>10. "auth" \in Kinds
    BY DEF Kinds
  <2> QED BY <2>2, <2>3, <2>4, <2>5, <2>6, <2>7, <2>8, <2>9, <2>10, HandlerKnows
<1>6. ASSUME \/ \E cursor \in Cursors : Rewind(c, cursor)
             \/ \E tx \in Past : Branch(c, tx)
      PROVE  SessionInv'
  <2>1. PICK cursor \in Cursors, depth \in 0 .. MaxDepth :
          Move(c, cursor, depth) /\ s # NoSession
    BY <1>6, MoveIs DEF s
  <2> DEFINE new == [s EXCEPT !.cursor = cursor, !.depth = depth]
  <2>2. new \in Sessions /\ new.sid = s.sid /\ new.cursor = cursor
    BY <1>1, <2>1 DEF Sessions
  <2>3. /\ registry' = With(registry, new) /\ Receive(c, "op", cursor, s)
        /\ UNCHANGED <<now, edits>>
    BY <2>1 DEF Move, s
  <2> HIDE DEF new
  <2>4. /\ s.sid \in DOMAIN registry' /\ registry'[s.sid] = new
        /\ \A x : x \in DOMAIN registry /\ x # s.sid =>
              x \in DOMAIN registry' /\ registry'[x] = registry[x]
    <3>1. /\ DOMAIN With(registry, new) = DOMAIN registry \cup {new.sid}
          /\ With(registry, new)[new.sid] = new
          /\ \A x \in DOMAIN registry \ {new.sid} : With(registry, new)[x] = registry[x]
      BY <1>1, <2>2, WithIs
    <3> QED BY <2>2, <2>3, <3>1
  <2>5. \A x \in DOMAIN registry : x \notin Ids(c) =>
           x \in DOMAIN registry' /\ registry'[x] = registry[x]
    BY <1>1, <2>1, <2>4
  <2>6. EditsAtHead' /\ "op" \in Kinds
    BY <2>3, <1>4 DEF Kinds
  <2>7. now' \in Nat /\ now <= now'
    BY <1>1, <2>3
  <2> QED BY <1>1, <2>1, <2>2, <2>3, <2>4, <2>5, <2>6, <2>7, HandlerKnows
<1>7. ASSUME NEW kind \in Kinds, Receive(c, kind, asked[c], s),
             UNCHANGED <<now, registry>>, EditsAtHead',
             s = NoSession => kind \in {"pre-auth", "auth-denied"}
      PROVE  SessionInv'
  <2>1. now' \in Nat /\ now <= now' /\ pc[c] = "idle"
    BY <1>1, <1>2, <1>7
  <2>2. \A x \in DOMAIN registry : x \notin Ids(c) =>
           x \in DOMAIN registry' /\ registry'[x] = registry[x]
    BY <1>7
  <2>3. IF s = NoSession THEN kind \in {"pre-auth", "auth-denied"}
        ELSE /\ s.sid \in DOMAIN registry' /\ registry'[s.sid].cursor = asked[c]
             /\ kind \notin {"op", "op-refused", "poll"} => registry'[s.sid] = s
    BY <1>3, <1>7, <2>1
  <2> QED BY <1>1, <1>7, <2>1, <2>2, <2>3, HandlerKnows
<1>8. CASE AuthDenied(c) \/ PreAuth(c) \/ Look(c) \/ Poll(c) \/ Refused(c)
  <2>1. PICK kind \in Kinds : /\ Receive(c, kind, asked[c], s)
                              /\ s = NoSession => kind \in {"pre-auth", "auth-denied"}
    BY <1>8 DEF AuthDenied, PreAuth, Look, Poll, Refused, Kinds, s
  <2>2. UNCHANGED <<now, registry>> /\ edits' = edits
    BY <1>8 DEF AuthDenied, PreAuth, Look, Poll, Refused
  <2> QED BY <1>4, <1>7, <2>1, <2>2
<1>9. CASE Edit(c)
  <2>1. /\ UNCHANGED <<now, registry>> /\ Receive(c, "op", asked[c], s)
        /\ s # NoSession /\ s.cursor.tx = Now
        /\ edits' = edits \cup {[req |-> Len(requests'), at |-> asked[c]]}
    BY <1>9 DEF Edit, s
  <2>2. asked[c].tx = Now
    BY <1>2, <1>3, <2>1
  <2>3. EditsAtHead' /\ "op" \in Kinds
    BY <2>1, <2>2 DEF SessionInv, EditsAtHead, Kinds
  <2> QED BY <1>7, <2>1, <2>3
<1> QED BY <1>5, <1>6, <1>8, <1>9 DEF Handle

(* The pickup after the answer finds what the handler left, so the entry   *)
(* shows the view that the client was told.                                *)
LEMMA ReplySession ==
    ASSUME TypeInv, SessionInv, NEW c \in Conns, Reply(c)
    PROVE  SessionInv'
<1> DEFINE s == Latest(c)  t == task[c]
<1>1. /\ pc[c] = "reply" /\ session'[c] = s /\ asked'[c] = t.view
      /\ pc'[c] = "idle" /\ task'[c] = NoTask
      /\ \A d \in Conns : d # c => /\ session'[d] = session[d] /\ task'[d] = task[d]
                                   /\ asked'[d] = asked[d] /\ pc'[d] = pc[d]
      /\ UNCHANGED <<now, registry, edits>>
  BY DEF Reply, TypeInv
<1>2. t.next \in Sessions \cup {NoSession} /\ t.kind \in Kinds
  BY DEF TypeInv, Tasks
<1>3. IF t.next = NoSession THEN s = NoSession /\ t.kind \in {"pre-auth", "auth-denied"}
      ELSE /\ s.sid = t.next.sid /\ s.cursor = t.view /\ s # NoSession
           /\ s.sid \in DOMAIN registry /\ registry[s.sid] = s
  <2>1. CASE t.next = NoSession
    <3>1. t.kind \in {"pre-auth", "auth-denied"}
      BY <1>1, <2>1 DEF SessionInv, KnowsItsSession
    <3> QED BY <2>1, <3>1 DEF Latest
  <2>2. CASE t.next # NoSession
    <3>1. /\ t.next.sid \in DOMAIN registry
          /\ registry[t.next.sid].cursor = t.view
          /\ t.kind \notin {"op", "op-refused", "poll"} => registry[t.next.sid] = t.next
      BY <1>1, <2>2 DEF SessionInv, KnowsItsSession
    <3>2. s = registry[t.next.sid]
      BY <3>1 DEF Latest
    <3>3. s \in Sessions /\ s.sid = t.next.sid
      BY <3>1, <3>2 DEF TypeInv, IsRegistry
    <3> QED BY <2>2, <3>1, <3>2, <3>3, NoSessionApart
  <2> QED BY <2>1, <2>2
<1> HIDE DEF s
<1>4. \A d \in Conns : d # c => KnowsItsSession(d)' /\ Ids(d)' = Ids(d)
  BY <1>1, OtherKnows DEF SessionInv
<1>5. KnowsItsSession(c)'
  BY <1>1, <1>3 DEF KnowsItsSession
<1>6. Ids(c)' \subseteq Ids(c)
  BY <1>1, <1>3 DEF Ids, NoTask
<1>7. IdsApart'
  <2>1. Ids(c)' \subseteq Ids(c) /\ now' \in Nat /\ now <= now'
    BY <1>1, <1>6 DEF TypeInv
  <2> QED BY <1>4, <2>1, IdsStayApart DEF SessionInv
<1>8. EditsAtHead'
  BY <1>1 DEF SessionInv, EditsAtHead
<1>9. EntryShowsView'
  <2>1. CASE emitted' = emitted
    BY <2>1 DEF SessionInv, EntryShowsView
  <2>2. CASE t.kind \in Audited
    <3> DEFINE n == Len(emitted) + 1
    <3>1. /\ emitted' \in Seq(Entries) /\ Len(emitted') = n /\ n \in Nat
          /\ \A e \in 1 .. Len(emitted) : emitted'[e] = emitted[e]
          /\ emitted'[n].view = IF t.kind = "auth-denied" THEN HeadCursor ELSE s.cursor
          /\ emitted'[n].want = IF t.kind = "auth-denied" THEN HeadCursor ELSE t.view
      BY <2>2, EmitAppends DEF Reply, s
    <3>2. t.kind # "auth-denied" => s.cursor = t.view
      BY <1>3, <2>2 DEF Audited
    <3>3. \A e \in DOMAIN emitted' : e = n \/ e \in DOMAIN emitted
      BY <3>1 DEF TypeInv
    <3>4. \A e \in DOMAIN emitted : e \in 1 .. Len(emitted)
      BY DEF TypeInv
    <3> HIDE DEF n
    <3> QED BY <3>1, <3>2, <3>3, <3>4 DEF SessionInv, EntryShowsView
  <2> QED BY <2>1, <2>2 DEF Reply
<1> QED BY <1>4, <1>5, <1>7, <1>8, <1>9 DEF SessionInv

LEMMA StepSessionInv == TypeInv /\ SessionInv /\ ClockAdvances /\ [Next]_vars => SessionInv'
<1> SUFFICES ASSUME TypeInv, SessionInv, ClockAdvances, [Next]_vars PROVE SessionInv'
  OBVIOUS
<1>1. ASSUME NEW c \in Conns, Connect(c) PROVE SessionInv'
  <2>1. /\ pc[c] = "out" /\ pc' = [pc EXCEPT ![c] = "idle"]
        /\ UNCHANGED <<now, registry, session, task, asked, edits, emitted>>
    BY <1>1 DEF Connect, serverVars, historyVars
  <2>2. pc'[c] = "idle" /\ \A d \in Conns : d # c => pc'[d] = pc[d]
    BY <2>1 DEF TypeInv
  <2>3. \A d \in Conns : KnowsItsSession(d)'
    BY <2>1, <2>2 DEF SessionInv, KnowsItsSession
  <2> QED BY <2>1, <2>3 DEF SessionInv, IdsApart, Ids, EditsAtHead, EntryShowsView
<1>2. ASSUME NEW c \in Conns, Close(c) \/ ReplyFails(c) PROVE SessionInv'
  BY <1>2, DropKnows DEF Close, ReplyFails, historyVars
<1>3. ASSUME NEW c \in Conns, Handle(c) PROVE SessionInv'
  BY <1>3, HandleSession
<1>4. ASSUME NEW c \in Conns, Reply(c) PROVE SessionInv'
  BY <1>4, ReplySession
<1>5. CASE Restart
  <2>1. \A c \in Conns : /\ session'[c] = NoSession /\ task'[c] = NoTask
                        /\ pc'[c] = "out"
    BY <1>5 DEF Restart
  <2>2. \A c \in Conns : KnowsItsSession(c)' /\ Ids(c)' = {}
    BY <2>1 DEF KnowsItsSession, Ids, NoTask
  <2>3. UNCHANGED <<edits, emitted>>
    BY <1>5 DEF Restart
  <2> QED BY <2>2, <2>3 DEF SessionInv, IdsApart, EditsAtHead, EntryShowsView
<1>6. CASE UNCHANGED <<now, registry, session, task, asked, pc, edits, emitted>>
  BY <1>6 DEF SessionInv, IdsApart, Ids, KnowsItsSession, EditsAtHead, EntryShowsView
<1>7. ASSUME NEW c \in Conns, Leave(c) \/ UNCHANGED vars
      PROVE  UNCHANGED <<now, registry, session, task, asked, pc, edits, emitted>>
  BY <1>7 DEF Leave, vars, serverVars, connVars, historyVars
<1>8. CASE UNCHANGED vars
  BY <1>6, <1>8 DEF vars, serverVars, connVars, historyVars
<1> QED BY <1>1, <1>2, <1>3, <1>4, <1>5, <1>6, <1>7, <1>8 DEF Next

LEMMA InitSessionInv == Init => SessionInv
<1> SUFFICES ASSUME Init PROVE SessionInv
  OBVIOUS
<1>1. \A c \in Conns : session[c] = NoSession /\ task[c] = NoTask /\ pc[c] = "out"
  BY DEF Init
<1>2. \A c \in Conns : KnowsItsSession(c) /\ Ids(c) = {}
  BY <1>1 DEF KnowsItsSession, Ids, NoTask
<1>3. edits = {} /\ DOMAIN emitted = {}
  BY DEF Init
<1> QED BY <1>2, <1>3 DEF SessionInv, IdsApart, EditsAtHead, EntryShowsView

(* Whatever the others do, the registry holds the session of a connection  *)
(* as it knows it, an entry shows the view its client was told, and no     *)
(* edit is committed for a client whose transaction time is set back.      *)
THEOREM ConnectionsApart ==
    ASSUME ClockAdvances PROVE Spec => []SessionsApart
<1>1. Init => TypeInv /\ SessionInv
  BY InitTypeInv, InitSessionInv
<1>2. TypeInv /\ SessionInv /\ [Next]_vars => (TypeInv /\ SessionInv)'
  BY StepTypeInv, StepSessionInv
<1>3. TypeInv /\ SessionInv => SessionsApart
  BY TypeInvTypeOK DEF SessionInv, SessionsApart, RegistryIsCurrent, KnowsItsSession
<1> QED BY <1>1, <1>2, <1>3, PTL DEF Spec
=============================================================================
