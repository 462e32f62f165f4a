---------------------------- MODULE ReplayProofs ----------------------------
(***************************************************************************)
(* Theorems about recordings and their counterfactuals, for recordings of   *)
(* every length, any number of interventions and any number of replays.     *)
(*                                                                         *)
(* A recording is a run the cache can give back: each of its facts starts   *)
(* where the one before left off, and the cache answers each of its calls   *)
(* as the world did (RecordedBy).  A replay keeps three bonds with the      *)
(* trajectory it replays: its position (what is copied, intervened on and   *)
(* re-executed, FollowsParent), its cache (what the parent's cache answers, *)
(* its own answers alike, CacheInv), and, when no intervention changes      *)
(* anything, the very facts (SameInv).                                      *)
(***************************************************************************)
EXTENDS Replay, FiniteSetTheorems, SequenceTheorems, TLAPS

Running == cur.pc # "rest"
Steps == Len(new) + 1
Took(n) == [llm |-> n, tool |-> 0, env |-> n]
Draws == [llm : Nat, tool : Nat, env : Nat]
Key == LlmKey(agent, drifted, cur.obs, st)
Recorded == traj.from = "recording"

(* The interventions a replay is given, whatever trajectory it replays.     *)
Edits == {iv \in [step : 1 .. N, field : DOMAIN Fields, value : Answers \cup Positions] :
            iv.value \in Fields[iv.field]}

AnswersOf(key) == IF key.op = "llm" THEN Answers ELSE {"quote"}
AnswersIn(c) == \A k \in DOMAIN c : c[k] \in AnswersOf(k)

(* What the variables hold, and in which phase. *)
TypeInv ==
    /\ agent \in Agents /\ drifted \in BOOLEAN
    /\ phase \in {"record", "idle", "replay", "extra", "raised"}
    /\ why \in {"none", "recorded", "replayed", "refused", "mismatch", "miss", "unhashable"}
    /\ traj = [facts |-> traj.facts, cache |-> traj.cache, from |-> traj.from]
    /\ traj.facts \in Seq(Facts)
    /\ new \in Seq(Facts)
    /\ h = [mode |-> h.mode, cache |-> h.cache] /\ h.mode \in {"record", "replay"}
    /\ st \in Positions
    /\ cur \in [pc : {"rest", "llm", "net", "end"}, obs : Positions, out : Answers \cup {"none"}]
    /\ extra \in 0 .. MaxExtra /\ replays \in 0 .. MaxReplays
    /\ AnswersIn(h.cache) /\ AnswersIn(traj.cache)
    /\ ivs \in Seq(Edits)

PhaseInv ==
    /\ phase = "record" => replays = 0 /\ Recorded /\ ~drifted /\ Len(new) <= N
    /\ phase # "record" => Len(traj.facts) = N
    /\ phase \in {"replay", "extra", "raised"} \/ why = "replayed" => phase # "record" /\ replays > 0
    /\ why = "replayed" => phase = "idle"
    /\ phase = "replay" => h.mode = "replay"
    /\ phase \in {"record", "extra"} => h.mode = "record"
    /\ Running => phase \in {"record", "replay", "extra"} /\ cur.obs \in Obs
    /\ Running /\ phase = "record" => Len(new) < N
    /\ cur.pc = "rest" => cur = Resting
    /\ cur.pc \in {"net", "end"} => cur.out \in Answers
    /\ cur.pc = "net" => agent = "state" /\ cur.out = "trade"

(* A step has drawn as often as its place says, and never from the tool     *)
(* stream unless its agent does.                                            *)
Drew(a, n, d) ==
    d \in Draws /\ d.llm = n /\ d.env = n /\ (a # "tool" => d.tool = 0)

DrawInv ==
    /\ phase \in {"record", "replay", "extra"} => Drew(agent, IF Running THEN Steps ELSE Len(new), rng)
    /\ \A i \in DOMAIN traj.facts : Drew(agent, i, traj.facts[i].draws)
    /\ \A i \in DOMAIN new : Drew(agent, i, new[i].draws)

Answered(c, key, ans) == key \in DOMAIN c /\ c[key] = ans
Extends(c, d) == \A k \in DOMAIN c : Answered(d, k, c[k])
Fetched(c, out, s) == agent = "state" /\ out = "trade" => NetKey(s) \in DOMAIN c

(* The facts are a run of the agent whose calls the cache answers. *)
RecordedBy(facts, c) ==
    \A i \in DOMAIN facts :
        /\ Answered(c, facts[i].llm_in, facts[i].llm_out)
        /\ Fetched(c, facts[i].llm_out, facts[i].state)
        /\ facts[i].llm_in = LlmKey(agent, FALSE, facts[i].obs, facts[i].state)
        /\ facts[i].action = facts[i].llm_out
        /\ facts[i].t = "tick"
        /\ i + 1 \in DOMAIN facts =>
              facts[i + 1].state = Apply(facts[i].state, facts[i].obs, facts[i].action)

RecordInv ==
    /\ phase = "record" =>
         /\ RecordedBy(new, h.cache)
         /\ Len(new) > 0 => st = Apply(new[Len(new)].state, new[Len(new)].obs, new[Len(new)].action)
    /\ phase # "record" /\ Recorded => RecordedBy(traj.facts, traj.cache)
    /\ cur.pc \in {"net", "end"} => Answered(h.cache, Key, cur.out)
    /\ cur.pc = "end" => Fetched(h.cache, cur.out, st)
    /\ ~Recorded => traj.cache = NoCache

(* A fact of a replay is copied, intervened on, or, with a cache, taken     *)
(* again.                                                                   *)
FromParent(i, fact) ==
    /\ i < BranchPoint(ivs) => fact = traj.facts[i]
    /\ i >= BranchPoint(ivs) =>
         \/ \E iv \in IvAt(i) : fact = [Intervened(traj.facts[i], iv) EXCEPT !.draws = Took(i)]
         \/ Recorded /\ IvAt(i) = {}

(* Where a replay is, and what each of its facts comes from. *)
FollowsParent ==
    Replaying =>
        /\ DOMAIN ivs # {}
        /\ phase = "replay" => Len(new) <= N
        /\ phase \in {"extra", "idle"} => Len(new) >= N
        /\ Running /\ phase = "replay" =>
             /\ Len(new) < N /\ Steps >= BranchPoint(ivs) /\ IvAt(Steps) = {}
             /\ cur.obs = traj.facts[Steps].obs
        /\ \A i \in DOMAIN new : i \in DOMAIN traj.facts => FromParent(i, new[i])

(* What the cache of a replay answers. *)
CacheInv ==
    Replaying =>
        /\ Recorded =>
             /\ Extends(traj.cache, h.cache)
             /\ \A i \in DOMAIN new : IvAt(i) = {} => Answered(h.cache, new[i].llm_in, new[i].llm_out)
        /\ ~Recorded /\ phase = "replay" => h.cache = NoCache /\ cur.pc \in {"rest", "llm"}

(* What was executed, and when. *)
FiredInv ==
    Recorded =>
        /\ phase # "record" =>
             \A f \in fired : /\ f.in \in {"replay", "extra"} => f.key \notin DOMAIN traj.cache
                              /\ f.in = "replay" => f.key.op # "net"
        /\ phase = "record" => \A f \in fired : f.in = "record"

(* Interventions that change nothing leave the replay on the recording. *)
SameInv ==
    Replaying /\ Recorded /\ NoOp /\ ~drifted =>
        /\ phase # "raised"
        /\ \A i \in DOMAIN new : i \in DOMAIN traj.facts => Pinned(new[i]) = Pinned(traj.facts[i])
        /\ \A i \in DOMAIN new : new[i].t = "tick"
        /\ phase = "replay" /\ Len(new) < N => st = traj.facts[Steps].state
        /\ phase = "replay" /\ cur.pc \in {"net", "end"} => cur.out = traj.facts[Steps].llm_out

Inv == /\ TypeInv
       /\ PhaseInv
       /\ DrawInv
       /\ RecordInv
       /\ FollowsParent
       /\ CacheInv
       /\ FiredInv
       /\ SameInv

-----------------------------------------------------------------------------
(* What the operators give. *)

LEMMA FactFields ==
    ASSUME NEW f \in Facts
    PROVE  /\ f = [state |-> f.state, obs |-> f.obs, llm_in |-> f.llm_in, llm_out |-> f.llm_out,
                   action |-> f.action, draws |-> f.draws, t |-> f.t]
           /\ f.state \in Positions /\ f.obs \in Obs /\ f.llm_out \in Answers /\ f.action \in Answers
BY DEF Facts

(* Facts that are alike but for the tool draw.                              *)
LEMMA PinnedIs ==
    ASSUME NEW f \in Facts
    PROVE  Pinned(f) = [state |-> f.state, obs |-> f.obs, llm_in |-> f.llm_in, llm_out |-> f.llm_out,
                        action |-> f.action, draws |-> <<f.draws.llm, f.draws.env>>, t |-> f.t]
BY DEF Facts, Pinned

LEMMA PinnedSame ==
    ASSUME NEW f \in Facts, NEW g \in Facts, Pinned(f) = Pinned(g)
    PROVE  /\ f.state = g.state /\ f.obs = g.obs /\ f.action = g.action
           /\ f.llm_in = g.llm_in /\ f.llm_out = g.llm_out /\ f.t = g.t
           /\ f.draws = g.draws => f = g
<1> DEFINE rec(x) == [state |-> x.state, obs |-> x.obs, llm_in |-> x.llm_in, llm_out |-> x.llm_out,
                      action |-> x.action, draws |-> <<x.draws.llm, x.draws.env>>, t |-> x.t]
<1>1. rec(f) = rec(g)
  BY PinnedIs, Zenon
<1>2. /\ f.state = g.state /\ f.obs = g.obs /\ f.action = g.action
      /\ f.llm_in = g.llm_in /\ f.llm_out = g.llm_out /\ f.t = g.t
  BY <1>1
<1> QED BY <1>2, FactFields

(* What intervening on a fact makes of it. *)
Edited(f, iv, n, g) ==
    /\ g \in Facts
    /\ g.draws = Took(n) /\ g.llm_in = f.llm_in /\ g.t = f.t
    /\ iv.field # "llm_out" => g.llm_out = f.llm_out
    /\ f.draws.llm = n /\ f.draws.env = n /\ f[iv.field] = iv.value => Pinned(g) = Pinned(f)

LEMMA IntervenedIs ==
    ASSUME NEW f \in Facts, NEW iv \in Edits, NEW n \in Nat,
           NEW g, g = [Intervened(f, iv) EXCEPT !.draws = Took(n)]
    PROVE  Edited(f, iv, n, g)
<1>1. iv.field \in {"action", "obs", "llm_out", "state"} /\ iv.value \in Fields[iv.field]
  <2>1. DOMAIN Fields = {"action", "obs", "llm_out", "state"}
    BY DEF Fields
  <2> QED BY <2>1 DEF Edits
<1>2. Took(n) \in Draws /\ Took(n).llm = n /\ Took(n).env = n
  BY DEF Took, Draws
<1>3. g = [[f EXCEPT ![iv.field] = iv.value] EXCEPT !["draws"] = Took(n)]
  BY Zenon DEF Intervened
<1>4. CASE iv.field = "action"
  <2>1. iv.value \in Answers /\ f[iv.field] = f.action
    BY <1>1, <1>4 DEF Fields
  <2> QED BY <1>2, <1>3, <1>4, <2>1, FactFields, PinnedIs, SMT DEF Facts, Edited, Draws
<1>5. CASE iv.field = "obs"
  <2>1. iv.value \in Obs /\ f[iv.field] = f.obs
    BY <1>1, <1>5 DEF Fields
  <2> QED BY <1>2, <1>3, <1>5, <2>1, FactFields, PinnedIs, SMT DEF Facts, Edited, Draws
<1>6. CASE iv.field = "llm_out"
  <2>1. iv.value \in Answers /\ f[iv.field] = f.llm_out
    BY <1>1, <1>6 DEF Fields
  <2> QED BY <1>2, <1>3, <1>6, <2>1, FactFields, PinnedIs, SMT DEF Facts, Edited, Draws
<1>7. CASE iv.field = "state"
  <2>1. iv.value \in Positions /\ f[iv.field] = f.state
    BY <1>1, <1>7 DEF Fields
  <2> QED BY <1>2, <1>3, <1>7, <2>1, FactFields, PinnedIs, SMT DEF Facts, Edited, Draws
<1> QED BY <1>1, <1>4, <1>5, <1>6, <1>7

(* Every set of numbers has a least one, and a bounded one a greatest. *)
LEMMA LeastNat ==
    ASSUME NEW T, T \subseteq Nat, T # {}
    PROVE  \E n \in T : \A m \in T : n <= m
<1> DEFINE F == {0 .. k : k \in T}
<1>1. F \subseteq FiniteSubsetsOf(Nat) /\ F # {}
  <2>1. \A k \in T : IsFiniteSet(0 .. k) /\ 0 .. k \in SUBSET Nat
    BY FS_Interval
  <2> QED BY <2>1 DEF FiniteSubsetsOf
<1>2. PICK U \in F : \A V \in F : ~ (<<V, U>> \in StrictSubsetOrdering(Nat))
  BY <1>1, FS_StrictSubsetOrderingWellFounded, WFMin
<1>3. PICK n \in T : U = 0 .. n
  OBVIOUS
<1>4. ASSUME NEW m \in T, ~ (n <= m) PROVE FALSE
  <2>1. 0 .. m \subseteq 0 .. n /\ 0 .. m # 0 .. n
    BY <1>4
  <2>2. <<0 .. m, 0 .. n>> \in StrictSubsetOrdering(Nat)
    BY <2>1 DEF StrictSubsetOrdering
  <2> QED BY <2>2, <1>2, <1>3
<1> QED BY <1>4

LEMMA GreatestNat ==
    ASSUME NEW n \in Nat, NEW T \in SUBSET (1 .. n), T # {}
    PROVE  \E m \in T : \A k \in T : k <= m
<1> DEFINE D == {n - k : k \in T}
<1>1. \A k \in T : k \in Nat /\ k <= n /\ n - k \in Nat /\ n - k \in D
  OBVIOUS
<1>2. D \subseteq Nat /\ D # {}
  BY <1>1
<1>3. \E d \in D : \A e \in D : d <= e
  <2> HIDE DEF D
  <2> QED BY <1>2, LeastNat
<1>4. PICK m \in T : \A e \in D : n - m <= e
  BY <1>3
<1>5. ASSUME NEW k \in T PROVE k <= m
  <2>1. n - m <= n - k
    BY <1>1, <1>4
  <2> QED BY <2>1, <1>1
<1> QED BY <1>5

LEMMA EditIs ==
    ASSUME NEW iv \in Edits
    PROVE  iv.step \in 1 .. N /\ iv.step \in Nat
BY ReplayAssumption DEF Edits

LEMMA BranchIs ==
    ASSUME NEW list \in Seq(Edits), DOMAIN list # {}
    PROVE  /\ BranchPoint(list) \in 1 .. N
           /\ \E i \in DOMAIN list : list[i].step = BranchPoint(list)
           /\ \A i \in DOMAIN list : BranchPoint(list) <= list[i].step
<1> DEFINE S == {list[i].step : i \in DOMAIN list}
<1>1. \A i \in DOMAIN list : list[i].step \in 1 .. N /\ list[i].step \in Nat
  BY EditIs
<1>2. S \subseteq Nat /\ S # {}
  BY <1>1
<1>3. \E b \in S : \A m \in S : b <= m
  BY <1>2, LeastNat
<1>4. \E b \in S : \A i \in DOMAIN list : b <= list[i].step
  BY <1>3
<1>5. BranchPoint(list) \in S /\ \A i \in DOMAIN list : BranchPoint(list) <= list[i].step
  BY <1>4 DEF BranchPoint
<1> QED BY <1>1, <1>5

(* What is applied at a step is an intervention given for it, and a step    *)
(* that one is given for is not passed over.                                *)
LEMMA IvAtIs ==
    ASSUME ivs \in Seq(Edits), NEW k
    PROVE  /\ \A iv \in IvAt(k) : iv \in Edits /\ iv.step = k /\ \E i \in DOMAIN ivs : iv = ivs[i]
           /\ (\E i \in DOMAIN ivs : ivs[i].step = k) => IvAt(k) # {}
<1> DEFINE at == {i \in DOMAIN ivs : ivs[i].step = k}
<1>1. IvAt(k) = {ivs[i] : i \in {j \in at : \A l \in at : l <= j}}
  BY DEF IvAt
<1>2. \A i \in DOMAIN ivs : ivs[i] \in Edits
  OBVIOUS
<1>3. at # {} => \E j \in at : \A l \in at : l <= j
  <2>1. at \in SUBSET (1 .. Len(ivs)) /\ Len(ivs) \in Nat
    OBVIOUS
  <2> HIDE DEF at
  <2> QED BY <2>1, GreatestNat
<1> QED BY <1>1, <1>2, <1>3

LEMMA FirstEdit ==
    ASSUME ivs \in Seq(Edits), DOMAIN ivs # {}
    PROVE  /\ IvAt(BranchPoint(ivs)) # {}
           /\ \A k : IvAt(k) # {} => BranchPoint(ivs) <= k
<1>1. /\ \E i \in DOMAIN ivs : ivs[i].step = BranchPoint(ivs)
      /\ \A i \in DOMAIN ivs : BranchPoint(ivs) <= ivs[i].step
  BY BranchIs
<1>2. IvAt(BranchPoint(ivs)) # {}
  BY <1>1, IvAtIs
<1>3. ASSUME NEW k, IvAt(k) # {} PROVE BranchPoint(ivs) <= k
  <2>1. PICK iv \in IvAt(k) : TRUE
    BY <1>3
  <2>2. iv.step = k /\ \E i \in DOMAIN ivs : iv = ivs[i]
    BY <2>1, IvAtIs
  <2> QED BY <2>2, <1>1
<1> QED BY <1>2, <1>3

-----------------------------------------------------------------------------
(* What a call of the handler comes to. *)

Refused(key) ==
    /\ phase' = "raised" /\ why' \in {"refused", "mismatch", "miss"}
    /\ cur' = Resting
    /\ h' = h /\ fired' = fired
    /\ key \notin DOMAIN h.cache /\ h.mode = "replay"

Given(key, ans) ==
    /\ phase' = phase /\ why' = why
    /\ h' = [mode |-> h.mode, cache |-> h'.cache]
    /\ Extends(h.cache, h'.cache) /\ AnswersIn(h'.cache)
    /\ ans \in AnswersOf(key) /\ Answered(h'.cache, key, ans)
    /\ \/ key \in DOMAIN h.cache /\ fired' = fired
       \/ /\ key \notin DOMAIN h.cache
          /\ fired' = fired \cup {[in |-> phase, key |-> key]}
          /\ h.mode = "replay" => h.cache # NoCache /\ key.op # "net"

LEMMA CallGives ==
    ASSUME NEW key, NEW next, DOMAIN next = AnswersOf(key), Call(key, next),
           h = [mode |-> h.mode, cache |-> h.cache], h.mode \in {"record", "replay"},
           AnswersIn(h.cache)
    PROVE  Refused(key) \/ \E ans : Given(key, ans) /\ cur' = next[ans]
<1> DEFINE verdict == ServeOrMiss(h.mode, h.cache, key)
<1>1. CASE verdict = "hit"
  <2>1. key \in DOMAIN h.cache
    BY <1>1 DEF ServeOrMiss
  <2>2. cur' = next[h.cache[key]] /\ h' = h /\ fired' = fired /\ phase' = phase /\ why' = why
    BY <1>1 DEF Call
  <2>3. h.cache[key] \in AnswersOf(key) /\ Extends(h.cache, h.cache)
    BY <2>1 DEF AnswersIn, Extends, Answered
  <2> QED BY <2>1, <2>2, <2>3 DEF Given, Answered
<1>2. CASE verdict = "execute"
  <2>1. key \notin DOMAIN h.cache
    BY <1>2 DEF ServeOrMiss
  <2>2. h.mode = "replay" => h.cache # NoCache /\ key.op # "net"
    BY <1>2, <2>1 DEF ServeOrMiss, NON_REPLAYABLE_OPS
  <2>3. PICK ans \in DOMAIN next : /\ cur' = next[ans]
                                  /\ h' = [h EXCEPT !.cache = Remembered(h.cache, key, ans)]
    BY <1>2 DEF Call
  <2>4. fired' = fired \cup {[in |-> phase, key |-> key]} /\ phase' = phase /\ why' = why
    BY <1>2 DEF Call
  <2> DEFINE d == Remembered(h.cache, key, ans)
  <2>5. DOMAIN d = DOMAIN h.cache \cup {key} /\ d[key] = ans /\ \A k \in DOMAIN h.cache : k # key => d[k] = h.cache[k]
    BY DEF Remembered
  <2>6. h' = [mode |-> h.mode, cache |-> d]
    BY <2>3
  <2> HIDE DEF d
  <2>7. Extends(h.cache, d) /\ AnswersIn(d) /\ Answered(d, key, ans)
    BY <2>1, <2>5 DEF Extends, AnswersIn, Answered
  <2>8. h'.cache = d
    BY <2>6
  <2> QED BY <2>1, <2>2, <2>3, <2>4, <2>6, <2>7, <2>8 DEF Given
<1>3. CASE verdict \notin {"hit", "execute"}
  <2>1. phase' = "raised" /\ why' = verdict /\ cur' = Resting /\ h' = h /\ fired' = fired
    BY <1>3 DEF Call
  <2>2. key \notin DOMAIN h.cache
    BY <1>3 DEF ServeOrMiss
  <2>3. h.mode # "record"
    BY <1>3, <2>2 DEF ServeOrMiss
  <2>4. verdict \in {"refused", "mismatch", "miss"}
    BY <1>3, <2>2, <2>3 DEF ServeOrMiss
  <2> QED BY <2>1, <2>2, <2>3, <2>4 DEF Refused
<1> QED BY <1>1, <1>2, <1>3

(* The agent goes on to fetch, or is done with its step. *)
LEMMA AskGives ==
    ASSUME TypeInv, AskModel
    PROVE  \/ Refused(Key)
           \/ \E ans \in Answers :
                /\ Given(Key, ans)
                /\ cur' = [pc |-> IF agent = "state" /\ ans = "trade" THEN "net" ELSE "end",
                           obs |-> cur.obs, out |-> ans]
<1> DEFINE next == [ans \in Answers |-> [cur EXCEPT !.out = ans,
                                  !.pc = IF agent = "state" /\ ans = "trade" THEN "net" ELSE "end"]]
<1>1. Call(Key, next)
  BY Zenon DEF AskModel, Key
<1>2. AnswersOf(Key) = Answers /\ DOMAIN next = Answers
  BY DEF AnswersOf, Key, LlmKey
<1>3. \A ans \in Answers : next[ans] =
         [cur EXCEPT !.out = ans, !.pc = IF agent = "state" /\ ans = "trade" THEN "net" ELSE "end"]
  BY Zenon
<1> HIDE DEF next
<1>4. Refused(Key) \/ \E ans : Given(Key, ans) /\ cur' = next[ans]
  BY <1>1, <1>2, CallGives DEF TypeInv
<1>5. \A ans \in Answers : next[ans] =
         [pc |-> IF agent = "state" /\ ans = "trade" THEN "net" ELSE "end", obs |-> cur.obs, out |-> ans]
  BY <1>3 DEF TypeInv
<1>6. ASSUME NEW ans, Given(Key, ans) PROVE ans \in Answers
  BY <1>2, <1>6, Zenon DEF Given
<1>7. CASE \E ans : Given(Key, ans) /\ cur' = next[ans]
  <2>1. PICK ans : Given(Key, ans) /\ cur' = next[ans]
    BY <1>7
  <2>2. ans \in Answers
    BY <1>6, <2>1
  <2> QED BY <1>5, <2>1, <2>2, Zenon
<1> QED BY <1>4, <1>7, Zenon

LEMMA FetchGives ==
    ASSUME TypeInv, Fetch
    PROVE  \/ Refused(NetKey(st))
           \/ /\ Given(NetKey(st), "quote")
              /\ cur' = [pc |-> "end", obs |-> cur.obs, out |-> cur.out]
<1> DEFINE next == [ans \in {"quote"} |-> [cur EXCEPT !.pc = "end"]]
<1>1. Call(NetKey(st), next)
  BY Zenon DEF Fetch
<1>2. AnswersOf(NetKey(st)) = {"quote"} /\ DOMAIN next = {"quote"}
  BY DEF AnswersOf, NetKey
<1>3. next["quote"] = [cur EXCEPT !.pc = "end"]
  BY Zenon
<1> HIDE DEF next
<1>4. Refused(NetKey(st)) \/ \E ans : Given(NetKey(st), ans) /\ cur' = next[ans]
  BY <1>1, <1>2, CallGives DEF TypeInv
<1>5. \A ans : Given(NetKey(st), ans) => ans = "quote"
  BY <1>2, Zenon DEF Given
<1>6. [cur EXCEPT !.pc = "end"] = [pc |-> "end", obs |-> cur.obs, out |-> cur.out]
  BY DEF TypeInv
<1> QED BY <1>3, <1>4, <1>5, <1>6, Zenon

-----------------------------------------------------------------------------
(* What the variables hold. *)

LEMMA ObsNext ==
    ASSUME TypeInv, PhaseInv, NEW o \in NextObs
    PROVE  /\ o \in Obs
           /\ phase \in {"record", "replay", "extra"}
           /\ phase = "record" => Len(new) < N
           /\ phase = "extra" => extra > 0
           /\ phase = "replay" =>
                /\ Steps \in DOMAIN traj.facts /\ Len(new) < N
                /\ Steps >= BranchPoint(ivs) /\ IvAt(Steps) = {}
                /\ o = traj.facts[Steps].obs
<1>1. phase \in {"record", "replay", "extra"}
  BY DEF NextObs
<1>2. Len(new) \in Nat /\ Len(traj.facts) \in Nat /\ DOMAIN traj.facts = 1 .. Len(traj.facts)
  BY DEF TypeInv
<1>3. CASE phase = "replay"
  <2>1. /\ Steps \in BranchPoint(ivs) .. Len(traj.facts) /\ IvAt(Steps) = {}
        /\ o = traj.facts[Steps].obs
    BY <1>3 DEF NextObs, Steps
  <2>2. Steps \in Int /\ Steps >= BranchPoint(ivs) /\ Steps <= Len(traj.facts) /\ Steps >= 1
    BY <1>2, <2>1 DEF Steps
  <2>3. Steps \in DOMAIN traj.facts
    BY <1>2, <2>2
  <2>4. traj.facts[Steps] \in Facts
    BY <2>3 DEF TypeInv
  <2>5. Len(traj.facts) = N
    BY <1>3 DEF PhaseInv
  <2> QED BY <1>2, <1>3, <2>1, <2>2, <2>3, <2>4, <2>5, FactFields DEF Steps
<1>4. CASE phase = "record"
  BY <1>4 DEF NextObs
<1>5. CASE phase = "extra"
  BY <1>5 DEF NextObs
<1> QED BY <1>1, <1>3, <1>4, <1>5

LEMMA AppliedIs ==
    ASSUME NEW s \in Positions, NEW o \in Obs, NEW act
    PROVE  Apply(s, o, act) \in Positions
BY DEF Apply, Positions

LEMMA ShippedIs ==
    ASSUME NEW tr, tr.facts \in Seq(Facts)
    PROVE  /\ OverTheWire(tr).facts \in Seq(Facts)
           /\ Len(OverTheWire(tr).facts) = Len(tr.facts)
           /\ \A i \in DOMAIN tr.facts : OverTheWire(tr).facts[i].draws = tr.facts[i].draws
<1> DEFINE g == [i \in DOMAIN tr.facts |-> [tr.facts[i] EXCEPT !.t = "inst"]]
<1>1. OverTheWire(tr).facts = g
  BY DEF OverTheWire
<1>2. ASSUME NEW f \in Facts
      PROVE  [f EXCEPT !.t = "inst"] \in Facts /\ [f EXCEPT !.t = "inst"].draws = f.draws
  <2>1. [f EXCEPT !.t = "inst"] = [f EXCEPT !["t"] = "inst"]
    BY Zenon
  <2>2. [f EXCEPT !["t"] = "inst"] \in Facts
    BY SMT DEF Facts
  <2>3. [f EXCEPT !["t"] = "inst"].draws = f.draws
    BY SMT DEF Facts
  <2> QED BY <2>1, <2>2, <2>3, Zenon
<1>3. \A i \in DOMAIN tr.facts : tr.facts[i] \in Facts
  OBVIOUS
<1>4. DOMAIN g = 1 .. Len(tr.facts) /\ Len(tr.facts) \in Nat /\ DOMAIN g = DOMAIN tr.facts
  OBVIOUS
<1>5. \A i \in DOMAIN g : g[i] \in Facts /\ g[i].draws = tr.facts[i].draws
  BY <1>2, <1>3, Zenon
<1>6. g = [i \in 1 .. Len(tr.facts) |-> g[i]]
  BY <1>4, Zenon
<1> HIDE DEF g
<1>7. g \in Seq(Facts) /\ Len(g) = Len(tr.facts)
  BY <1>4, <1>5, <1>6, LenProperties, IsASeq
<1> QED BY <1>1, <1>4, <1>5, <1>7

LEMMA FactIs ==
    ASSUME TypeInv, PhaseInv, DrawInv, cur.pc = "end"
    PROVE  FactOf(st, cur.obs, Key, cur.out, rng) \in Facts
<1>1. cur.obs \in Obs /\ cur.out \in Answers
  BY DEF PhaseInv, Running
<1>2. rng \in [llm : Nat, tool : Nat, env : Nat]
  BY DEF PhaseInv, Running, DrawInv, Drew, Draws
<1>3. Key \in {LlmKey(a, d, o, s) : a \in Agents, d \in BOOLEAN, o \in Obs, s \in Positions}
  BY <1>1 DEF Key, TypeInv
<1> QED BY <1>1, <1>2, <1>3 DEF FactOf, Facts, TypeInv

LEMMA SkippedIs ==
    ASSUME NEW a, NEW n \in Nat, NEW d, Drew(a, n, d)
    PROVE  /\ Drew(a, n + 1, Skipped(d))
           /\ [Skipped(d) EXCEPT !.tool = 0] = Took(n + 1)
<1>1. d = [llm |-> d.llm, tool |-> d.tool, env |-> d.env] /\ d.tool \in Nat
  BY DEF Drew, Draws
<1>2. PICK k \in Nat : d = [llm |-> n, tool |-> k, env |-> n]
  BY <1>1 DEF Drew
<1>3. Skipped(d) = [llm |-> n + 1, tool |-> k, env |-> n + 1]
  BY <1>2 DEF Skipped
<1> QED BY <1>2, <1>3 DEF Drew, Draws, Took

LEMMA CopyGives ==
    ASSUME Inv, CopyPrefix
    PROVE  /\ Steps \in DOMAIN traj.facts /\ Steps < BranchPoint(ivs) /\ Len(new) < N
           /\ traj.facts[Steps] \in Facts
           /\ new' = Append(new, traj.facts[Steps])
           /\ st' = Apply(st, traj.facts[Steps].obs, traj.facts[Steps].action)
           /\ Drew(agent, Steps, rng')
<1>1. Replaying /\ phase = "replay" /\ cur = Resting /\ Steps < BranchPoint(ivs)
  BY DEF CopyPrefix, Replaying, Inv, PhaseInv, Steps
<1>2. BranchPoint(ivs) \in 1 .. N /\ N \in Nat
  BY <1>1, BranchIs, ReplayAssumption DEF Inv, TypeInv, FollowsParent
<1>3. Len(traj.facts) = N /\ DOMAIN traj.facts = 1 .. N /\ Len(new) \in Nat
  BY <1>1 DEF Inv, TypeInv, PhaseInv
<1>4. Steps \in DOMAIN traj.facts /\ Len(new) < N
  BY <1>1, <1>2, <1>3 DEF Steps
<1>5. Drew(agent, Len(new), rng)
  BY <1>1 DEF Inv, DrawInv, Running, Resting
<1>6. Drew(agent, Steps, rng')
  BY <1>3, <1>5, SkippedIs DEF CopyPrefix, Steps
<1> QED BY <1>1, <1>4, <1>6 DEF CopyPrefix, Steps, Inv, TypeInv

LEMMA InterveneGives ==
    ASSUME Inv, Intervene
    PROVE  /\ Steps \in DOMAIN traj.facts /\ Steps >= BranchPoint(ivs) /\ Len(new) < N
           /\ traj.facts[Steps] \in Facts
           /\ Drew(agent, Steps, rng')
           /\ \E iv \in IvAt(Steps), g \in Facts :
                /\ iv \in Edits /\ iv.step = Steps /\ \E i \in DOMAIN ivs : iv = ivs[i]
                /\ g = [Intervened(traj.facts[Steps], iv) EXCEPT !.draws = Took(Steps)]
                /\ new' = Append(new, g) /\ st' = Apply(st, g.obs, g.action)
<1>1. Replaying /\ phase = "replay" /\ cur = Resting /\ Steps \in BranchPoint(ivs) .. Len(traj.facts)
  BY DEF Intervene, Replaying, Inv, PhaseInv, Steps
<1>2. BranchPoint(ivs) \in 1 .. N /\ N \in Nat
  BY <1>1, BranchIs, ReplayAssumption DEF Inv, TypeInv, FollowsParent
<1>3. Len(traj.facts) = N /\ DOMAIN traj.facts = 1 .. N /\ Len(new) \in Nat
  BY <1>1 DEF Inv, TypeInv, PhaseInv
<1>4. Steps \in DOMAIN traj.facts /\ Steps >= BranchPoint(ivs) /\ Len(new) < N /\ Steps \in Nat
  BY <1>1, <1>2, <1>3 DEF Steps
<1>5. Drew(agent, Len(new), rng)
  BY <1>1 DEF Inv, DrawInv, Running, Resting
<1>6. Drew(agent, Steps, Skipped(rng)) /\ [Skipped(rng) EXCEPT !.tool = 0] = Took(Steps)
  BY <1>3, <1>5, SkippedIs DEF Steps
<1>7. traj.facts[Steps] \in Facts
  BY <1>4 DEF Inv, TypeInv
<1>8. PICK iv \in IvAt(Steps) :
        LET g == [Intervened(traj.facts[Steps], iv) EXCEPT !.draws = Took(Steps)]
        IN new' = Append(new, g) /\ st' = Apply(st, g.obs, g.action)
  BY <1>6, Zenon DEF Intervene, Steps
<1>9. iv \in Edits /\ iv.step = Steps /\ \E i \in DOMAIN ivs : iv = ivs[i]
  BY <1>8, IvAtIs DEF Inv, TypeInv
<1>10. [Intervened(traj.facts[Steps], iv) EXCEPT !.draws = Took(Steps)] \in Facts
  BY <1>4, <1>7, <1>9, IntervenedIs, Zenon DEF Edited
<1>11. Drew(agent, Steps, rng')
  BY <1>6 DEF Intervene
<1> QED BY <1>4, <1>7, <1>8, <1>9, <1>10, <1>11, Zenon

LEMMA TypeKept == Inv /\ [Next]_vars => TypeInv'
<1> SUFFICES ASSUME Inv, [Next]_vars PROVE TypeInv'
  OBVIOUS
<1> USE DEF Inv
<1>1. CASE UNCHANGED vars
  <2>1. /\ UNCHANGED <<agent, drifted, phase, why, traj>>
        /\ UNCHANGED <<new, h, st, cur, ivs, extra, replays>>
    BY <1>1, Zenon DEF vars
  <2>2. UNCHANGED <<AnswersIn(h.cache), AnswersIn(traj.cache)>>
    BY <2>1 DEF AnswersIn
  <2> QED BY <2>1, <2>2 DEF TypeInv
<1>2. CASE StepBegin
  <2>1. PICK o \in NextObs : cur' = [Resting EXCEPT !.pc = "llm", !.obs = o]
    BY <1>2 DEF StepBegin
  <2>2. o \in Obs /\ (phase = "extra" => extra > 0)
    BY ObsNext
  <2>3. cur' = [pc |-> "llm", obs |-> o, out |-> "none"]
    BY <2>1 DEF Resting
  <2>4. extra' \in 0 .. MaxExtra
    BY <1>2, <2>2, ReplayAssumption DEF StepBegin, TypeInv
  <2> QED BY <1>2, <2>2, <2>3, <2>4 DEF StepBegin, TypeInv, Positions
<1>3. CASE AskModel
  <2>1. UNCHANGED <<agent, drifted, traj, new, st, rng, ivs, extra, replays>>
    BY <1>3 DEF AskModel
  <2>2. CASE Refused(Key)
    BY <2>1, <2>2 DEF Refused, TypeInv, Resting, Positions
  <2>3. ASSUME NEW ans \in Answers, Given(Key, ans),
               cur' = [pc |-> IF agent = "state" /\ ans = "trade" THEN "net" ELSE "end",
                       obs |-> cur.obs, out |-> ans]
        PROVE  TypeInv'
    BY <2>1, <2>3 DEF Given, TypeInv
  <2> QED BY <1>3, <2>2, <2>3, AskGives
<1>4. CASE Fetch
  <2>1. UNCHANGED <<agent, drifted, traj, new, st, rng, ivs, extra, replays>>
    BY <1>4 DEF Fetch
  <2>2. CASE Refused(NetKey(st))
    BY <2>1, <2>2 DEF Refused, TypeInv, Resting, Positions
  <2>3. CASE Given(NetKey(st), "quote") /\ cur' = [pc |-> "end", obs |-> cur.obs, out |-> cur.out]
    BY <2>1, <2>3 DEF Given, TypeInv
  <2> QED BY <1>4, <2>2, <2>3, FetchGives
<1>5. CASE StepEnd
  <2>1. cur.pc = "end" /\ new' = Append(new, FactOf(st, cur.obs, Key, cur.out, rng))
    BY <1>5 DEF StepEnd, Key
  <2>2. new' \in Seq(Facts)
    BY <2>1, FactIs DEF TypeInv
  <2>3. st' \in Positions
    BY <1>5, <2>1, AppliedIs DEF StepEnd, TypeInv, PhaseInv, Running
  <2> QED BY <1>5, <2>2, <2>3 DEF StepEnd, TypeInv, Resting, Positions
<1>6. CASE RecordEnd
  BY <1>6 DEF RecordEnd, TypeInv
<1>7. CASE Ship
  <2>1. traj' = [facts |-> OverTheWire(traj).facts, cache |-> NoCache, from |-> "wire"]
    BY <1>7 DEF Ship, OverTheWire
  <2>2. AnswersIn(NoCache)
    BY DEF AnswersIn, NoCache
  <2> QED BY <1>7, <2>1, <2>2, ShippedIs DEF Ship, TypeInv
<1>8. CASE ReplayBegin
  <2>1. PICK n \in 1 .. MaxIvs : ivs' \in [1 .. n -> Sensible]
    BY <1>8 DEF ReplayBegin
  <2>2. Len(traj.facts) = N /\ DOMAIN traj.facts = 1 .. N /\ N >= 1
    BY <1>8, ReplayAssumption DEF ReplayBegin, PhaseInv, TypeInv
  <2>3. Sensible \subseteq Edits
    BY <2>2 DEF Sensible, Interventions, Edits, Fields, Positions, Answers, Obs
  <2>4. ivs' \in Seq(Edits)
    BY <2>1, <2>3
  <2>5. st' \in Positions
    BY <1>8, <2>2, FactFields DEF ReplayBegin, TypeInv
  <2>6. h' = [mode |-> "replay", cache |-> traj.cache]
    BY <1>8 DEF ReplayBegin, ReplayHandler
  <2> QED BY <1>8, <2>4, <2>5, <2>6, ReplayAssumption, SMTT(30) DEF ReplayBegin, TypeInv
<1>9. CASE CopyPrefix
  <2>1. PICK f \in Facts : new' = Append(new, f) /\ st' = Apply(st, f.obs, f.action)
    BY <1>9, CopyGives
  <2>2. new' \in Seq(Facts)
    BY <2>1 DEF TypeInv
  <2>3. st' \in Positions
    BY <2>1, FactFields, AppliedIs DEF TypeInv
  <2> QED BY <1>9, <2>2, <2>3 DEF CopyPrefix, TypeInv
<1>10. CASE Intervene
  <2>1. PICK f \in Facts : new' = Append(new, f) /\ st' = Apply(st, f.obs, f.action)
    BY <1>10, InterveneGives
  <2>2. new' \in Seq(Facts)
    BY <2>1 DEF TypeInv
  <2>3. st' \in Positions
    BY <2>1, FactFields, AppliedIs DEF TypeInv
  <2> QED BY <1>10, <2>2, <2>3 DEF Intervene, TypeInv
<1>11. CASE Extrapolate
  BY <1>11 DEF Extrapolate, Extrapolating, TypeInv
<1>12. CASE ReplayEnd
  BY <1>12 DEF ReplayEnd, TypeInv
<1>13. CASE Rebranch
  <2>1. AnswersIn(NoCache)
    BY DEF AnswersIn, NoCache
  <2> QED BY <1>13, <2>1 DEF Rebranch, TypeInv
<1> QED BY <1>1, <1>2, <1>3, <1>4, <1>5, <1>6, <1>7, <1>8, <1>9, <1>10, <1>11, <1>12, <1>13 DEF Next

LEMMA NewIs ==
    ASSUME TypeInv, NEW f, new' = Append(new, f)
    PROVE  /\ DOMAIN new' = DOMAIN new \cup {Steps} /\ Len(new') = Steps
           /\ \A i \in DOMAIN new : new'[i] = new[i]
           /\ new'[Steps] = f
           /\ Steps \notin DOMAIN new /\ Steps \in Nat /\ Len(new) \in Nat
           /\ \A i \in DOMAIN new : i \in Nat /\ i < Steps
<1>1. new \in Seq(Facts) /\ Len(new) \in Nat /\ DOMAIN new = 1 .. Len(new)
  BY DEF TypeInv
<1>2. new \in Seq({new[i] : i \in DOMAIN new} \cup {f})
  BY <1>1
<1> QED BY <1>1, <1>2 DEF Steps

LEMMA PhaseKept == Inv /\ [Next]_vars => PhaseInv'
<1> SUFFICES ASSUME Inv, [Next]_vars PROVE PhaseInv'
  OBVIOUS
<1> USE DEF Inv
<1>1. Len(new) \in Nat /\ N \in Nat /\ N >= 1
  BY ReplayAssumption DEF TypeInv
<1>2. CASE UNCHANGED vars
  BY <1>2, Zenon DEF PhaseInv, Recorded, Running, vars
<1>3. CASE StepBegin
  <2>1. PICK o \in NextObs : cur' = [Resting EXCEPT !.pc = "llm", !.obs = o]
    BY <1>3 DEF StepBegin
  <2>2. o \in Obs /\ phase \in {"record", "replay", "extra"} /\ (phase = "record" => Len(new) < N)
    BY ObsNext
  <2>3. cur' = [pc |-> "llm", obs |-> o, out |-> "none"]
    BY <2>1 DEF Resting
  <2> QED BY <1>3, <2>2, <2>3 DEF StepBegin, PhaseInv, Recorded, Running
<1>4. CASE AskModel
  <2>1. UNCHANGED <<agent, drifted, traj, new, st, rng, ivs, extra, replays>> /\ Running
    BY <1>4 DEF AskModel, Running
  <2>2. CASE Refused(Key)
    BY <2>1, <2>2 DEF Refused, PhaseInv, Recorded, Resting, Running
  <2>3. ASSUME NEW ans \in Answers, Given(Key, ans),
               cur' = [pc |-> IF agent = "state" /\ ans = "trade" THEN "net" ELSE "end",
                       obs |-> cur.obs, out |-> ans]
        PROVE  PhaseInv'
    BY <2>1, <2>3 DEF Given, PhaseInv, Recorded, Running
  <2> QED BY <1>4, <2>2, <2>3, AskGives
<1>5. CASE Fetch
  <2>1. UNCHANGED <<agent, drifted, traj, new, st, rng, ivs, extra, replays>> /\ cur.pc = "net"
    BY <1>5 DEF Fetch
  <2>2. CASE Refused(NetKey(st))
    BY <2>1, <2>2 DEF Refused, PhaseInv, Recorded, Resting, Running
  <2>3. CASE Given(NetKey(st), "quote") /\ cur' = [pc |-> "end", obs |-> cur.obs, out |-> cur.out]
    BY <2>1, <2>3 DEF Given, PhaseInv, Recorded, Running
  <2> QED BY <1>5, <2>2, <2>3, FetchGives
<1>6. CASE StepEnd
  <2>1. Len(new') = Len(new) + 1 /\ Running
    BY <1>6, NewIs DEF StepEnd, Steps, Running
  <2> QED BY <1>1, <1>6, <2>1 DEF StepEnd, PhaseInv, Recorded, Running, Resting
<1>7. CASE RecordEnd
  BY <1>7 DEF RecordEnd, PhaseInv, Recorded, Running, Resting
<1>8. CASE Ship
  BY <1>8, ShippedIs DEF Ship, PhaseInv, Recorded, Running, TypeInv
<1>9. CASE ReplayBegin
  BY <1>9 DEF ReplayBegin, ReplayHandler, PhaseInv, Recorded, Running, TypeInv
<1>10. CASE CopyPrefix
  BY <1>10 DEF CopyPrefix, PhaseInv, Recorded, Running, Resting
<1>11. CASE Intervene
  BY <1>11 DEF Intervene, PhaseInv, Recorded, Running, Resting
<1>12. CASE Extrapolate
  BY <1>12 DEF Extrapolate, Extrapolating, PhaseInv, Recorded, Running, Resting, TypeInv
<1>13. CASE ReplayEnd
  BY <1>13 DEF ReplayEnd, PhaseInv, Recorded, Running, Resting
<1>14. CASE Rebranch
  BY <1>14 DEF Rebranch, PhaseInv, Recorded, Running, Resting
<1> QED BY <1>2, <1>3, <1>4, <1>5, <1>6, <1>7, <1>8, <1>9, <1>10, <1>11, <1>12, <1>13, <1>14 DEF Next

LEMMA DrawKept == Inv /\ [Next]_vars => DrawInv'
<1> SUFFICES ASSUME Inv, [Next]_vars PROVE DrawInv'
  OBVIOUS
<1> USE DEF Inv
<1>1. Len(new) \in Nat /\ N \in Nat /\ N >= 1
  BY ReplayAssumption DEF TypeInv
<1>2. CASE UNCHANGED vars
  BY <1>2, Zenon DEF DrawInv, Running, Steps, vars
<1>3. CASE StepBegin
  <2>1. PICK o \in NextObs : cur' = [Resting EXCEPT !.pc = "llm", !.obs = o]
    BY <1>3 DEF StepBegin
  <2>2. phase \in {"record", "replay", "extra"} /\ cur = Resting
    BY <1>3, ObsNext DEF StepBegin
  <2>3. cur'.pc = "llm"
    BY <2>1 DEF Resting
  <2>4. Drew(agent, Steps, rng')
    BY <1>1, <1>3, <2>2 DEF StepBegin, DrawInv, Running, Resting, Drawn, Drew, Draws, Steps
  <2> QED BY <1>3, <2>2, <2>3, <2>4 DEF StepBegin, DrawInv, Running, Steps
<1>4. CASE AskModel
  <2>1. UNCHANGED <<agent, drifted, traj, new, st, rng, ivs, extra, replays>> /\ Running
    BY <1>4 DEF AskModel, Running
  <2>2. CASE Refused(Key)
    BY <2>1, <2>2 DEF Refused, DrawInv
  <2>3. ASSUME NEW ans \in Answers, Given(Key, ans),
               cur' = [pc |-> IF agent = "state" /\ ans = "trade" THEN "net" ELSE "end",
                       obs |-> cur.obs, out |-> ans]
        PROVE  DrawInv'
    BY <2>1, <2>3 DEF Given, DrawInv, Running, Steps
  <2> QED BY <1>4, <2>2, <2>3, AskGives
<1>5. CASE Fetch
  <2>1. UNCHANGED <<agent, drifted, traj, new, st, rng, ivs, extra, replays>> /\ Running
    BY <1>5 DEF Fetch, Running
  <2>2. CASE Refused(NetKey(st))
    BY <2>1, <2>2 DEF Refused, DrawInv
  <2>3. CASE Given(NetKey(st), "quote") /\ cur' = [pc |-> "end", obs |-> cur.obs, out |-> cur.out]
    BY <2>1, <2>3 DEF Given, DrawInv, Running, Steps
  <2> QED BY <1>5, <2>2, <2>3, FetchGives
<1>6. CASE StepEnd
  <2>1. PICK f : new' = Append(new, f) /\ f.draws = rng
    BY <1>6 DEF StepEnd, FactOf
  <2>2. Drew(agent, Steps, rng) /\ cur' = Resting /\ UNCHANGED <<agent, phase, traj, rng>>
    BY <1>6 DEF StepEnd, DrawInv, PhaseInv, Running
  <2> QED BY <2>1, <2>2, NewIs DEF DrawInv, Running, Resting
<1>7. CASE RecordEnd
  BY <1>7 DEF RecordEnd, DrawInv, Running
<1>8. CASE Ship
  <2>1. traj'.facts \in Seq(Facts) /\ Len(traj'.facts) = Len(traj.facts)
    BY <1>8, ShippedIs DEF Ship, TypeInv
  <2>2. \A i \in DOMAIN traj.facts : traj'.facts[i].draws = traj.facts[i].draws
    BY <1>8, ShippedIs DEF Ship, TypeInv
  <2>3. DOMAIN traj'.facts = DOMAIN traj.facts
    BY <2>1 DEF TypeInv
  <2> QED BY <1>8, <2>2, <2>3 DEF Ship, DrawInv, Running
<1>9. CASE ReplayBegin
  BY <1>9 DEF ReplayBegin, DrawInv, Running, PhaseInv, Drew, Draws, NotDrawn
<1>10. CASE CopyPrefix
  <2>1. /\ new' = Append(new, traj.facts[Steps]) /\ Drew(agent, Steps, rng')
        /\ Drew(agent, Steps, traj.facts[Steps].draws)
    BY <1>10, CopyGives DEF DrawInv
  <2>2. cur' = Resting /\ UNCHANGED <<agent, phase, traj>>
    BY <1>10 DEF CopyPrefix
  <2> QED BY <2>1, <2>2, NewIs DEF DrawInv, Running, Resting
<1>11. CASE Intervene
  <2>1. PICK iv \in Edits, g \in Facts :
          /\ g = [Intervened(traj.facts[Steps], iv) EXCEPT !.draws = Took(Steps)]
          /\ new' = Append(new, g)
    BY <1>11, InterveneGives
  <2>2. Drew(agent, Steps, rng') /\ traj.facts[Steps] \in Facts /\ Steps \in Nat
    BY <1>1, <1>11, InterveneGives DEF Steps
  <2>3. Drew(agent, Steps, g.draws)
    <3>1. Edited(traj.facts[Steps], iv, Steps, g)
      BY <2>1, <2>2, IntervenedIs, Zenon
    <3> QED BY <2>2, <3>1 DEF Edited, Drew, Draws, Took
  <2>4. cur' = Resting /\ UNCHANGED <<agent, phase, traj>>
    BY <1>11 DEF Intervene
  <2> QED BY <2>1, <2>2, <2>3, <2>4, NewIs DEF DrawInv, Running, Resting
<1>12. CASE Extrapolate
  BY <1>12 DEF Extrapolate, DrawInv, Running, Steps
<1>13. CASE ReplayEnd
  BY <1>13 DEF ReplayEnd, DrawInv, Running
<1>14. CASE Rebranch
  BY <1>14 DEF Rebranch, DrawInv, Running
<1> QED BY <1>2, <1>3, <1>4, <1>5, <1>6, <1>7, <1>8, <1>9, <1>10, <1>11, <1>12, <1>13, <1>14 DEF Next

(* The recording: a run of the agent that its cache can give back. *)

LEMMA StillAnswered ==
    ASSUME NEW c, NEW d, Extends(c, d)
    PROVE  /\ \A k, a : Answered(c, k, a) => Answered(d, k, a)
           /\ \A out, s : Fetched(c, out, s) => Fetched(d, out, s)
           /\ \A facts : RecordedBy(facts, c) => RecordedBy(facts, d)
<1>1. \A k, a : Answered(c, k, a) => Answered(d, k, a)
  BY DEF Extends, Answered
<1>2. \A out, s : Fetched(c, out, s) => Fetched(d, out, s)
  BY DEF Extends, Answered, Fetched
<1>3. \A facts : RecordedBy(facts, c) => RecordedBy(facts, d)
  BY <1>1, <1>2 DEF RecordedBy
<1> QED BY <1>1, <1>2, <1>3

LEMMA RecordGrows ==
    ASSUME Inv, StepEnd, phase = "record"
    PROVE  RecordedBy(new', h.cache)
<1> DEFINE f == FactOf(st, cur.obs, Key, cur.out, rng)
<1>1. new' = Append(new, f) /\ cur.pc = "end"
  BY DEF StepEnd, Key
<1>2. /\ f.state = st /\ f.obs = cur.obs /\ f.llm_in = Key /\ f.llm_out = cur.out
      /\ f.action = cur.out /\ f.t = "tick"
  BY DEF FactOf
<1> HIDE DEF f
<1>3. Key = LlmKey(agent, FALSE, cur.obs, st)
  BY DEF Inv, PhaseInv, Key, TypeInv
<1>4. Answered(h.cache, Key, cur.out) /\ Fetched(h.cache, cur.out, st)
  BY <1>1 DEF Inv, RecordInv
<1>5. /\ RecordedBy(new, h.cache)
      /\ Len(new) > 0 => st = Apply(new[Len(new)].state, new[Len(new)].obs, new[Len(new)].action)
  BY DEF Inv, RecordInv
<1>6. /\ DOMAIN new' = DOMAIN new \cup {Steps}
      /\ \A i \in DOMAIN new : new'[i] = new[i]
      /\ new'[Steps] = f
      /\ Steps \notin DOMAIN new /\ Steps \in Nat /\ Len(new) \in Nat
      /\ \A i \in DOMAIN new : i \in Nat /\ i < Steps
  BY <1>1, NewIs DEF Inv
<1>7. ASSUME NEW i \in DOMAIN new', i + 1 \in DOMAIN new'
      PROVE  new'[i + 1].state = Apply(new'[i].state, new'[i].obs, new'[i].action)
  <2>1. i \in DOMAIN new
    BY <1>6, <1>7
  <2>2. CASE i + 1 \in DOMAIN new
    BY <1>5, <1>6, <2>1, <2>2 DEF RecordedBy
  <2>3. CASE i + 1 = Steps
    <3>1. i = Len(new) /\ Len(new) > 0
      BY <1>6, <2>1, <2>3 DEF Steps, Inv, TypeInv
    <3> QED BY <1>2, <1>5, <1>6, <2>1, <2>3, <3>1
  <2> QED BY <1>6, <1>7, <2>2, <2>3
<1>8. ASSUME NEW i \in DOMAIN new'
      PROVE  /\ Answered(h.cache, new'[i].llm_in, new'[i].llm_out)
             /\ Fetched(h.cache, new'[i].llm_out, new'[i].state)
             /\ new'[i].llm_in = LlmKey(agent, FALSE, new'[i].obs, new'[i].state)
             /\ new'[i].action = new'[i].llm_out
             /\ new'[i].t = "tick"
  <2>1. CASE i \in DOMAIN new
    BY <1>5, <1>6, <2>1 DEF RecordedBy
  <2>2. CASE i = Steps
    BY <1>2, <1>3, <1>4, <1>6, <2>2
  <2> QED BY <1>6, <2>1, <2>2
<1> QED BY <1>7, <1>8 DEF RecordedBy

LEMMA RecordInvKept == Inv /\ [Next]_vars => RecordInv'
<1> SUFFICES ASSUME Inv, [Next]_vars PROVE RecordInv'
  OBVIOUS
<1> USE DEF Inv
<1>1. Len(new) \in Nat /\ N \in Nat /\ N >= 1
  BY ReplayAssumption DEF TypeInv
<1>2. CASE UNCHANGED vars
  BY <1>2, Zenon DEF RecordInv, RecordedBy, Fetched, Recorded, Key, vars
<1>3. CASE StepBegin
  <2>1. cur'.pc = "llm"
    BY <1>3 DEF StepBegin, Resting
  <2>2. UNCHANGED <<agent, phase, traj, new, h, st>>
    BY <1>3 DEF StepBegin
  <2> QED BY <2>1, <2>2 DEF RecordInv, RecordedBy, Fetched, Recorded
<1>4. CASE AskModel
  <2>1. UNCHANGED <<agent, drifted, traj, new, st, rng, ivs, extra, replays>> /\ Running
    BY <1>4 DEF AskModel, Running
  <2>2. CASE Refused(Key)
    <3>1. phase # "record"
      BY <2>2 DEF Refused, PhaseInv
    <3> QED BY <2>1, <2>2, <3>1 DEF Refused, RecordInv, RecordedBy, Fetched, Recorded, Resting
  <2>3. ASSUME NEW ans \in Answers, Given(Key, ans),
               cur' = [pc |-> IF agent = "state" /\ ans = "trade" THEN "net" ELSE "end",
                       obs |-> cur.obs, out |-> ans]
        PROVE  RecordInv'
    <3>1. phase' = phase /\ Extends(h.cache, h'.cache) /\ Answered(h'.cache, Key, ans)
      BY <2>3 DEF Given
    <3>2. Key' = Key /\ cur'.out = ans
      BY <2>1, <2>3 DEF Key
    <3>3. cur'.pc = "end" => ~ (agent = "state" /\ cur'.out = "trade")
      BY <2>3
    <3>4. RecordedBy(new, h.cache) => RecordedBy(new, h'.cache)
      BY <3>1, StillAnswered
    <3> QED BY <2>1, <3>1, <3>2, <3>3, <3>4 DEF RecordInv, Fetched, Recorded, RecordedBy
  <2> QED BY <1>4, <2>2, <2>3, AskGives
<1>5. CASE Fetch
  <2>1. UNCHANGED <<agent, drifted, traj, new, st, rng, ivs, extra, replays>> /\ cur.pc = "net"
    BY <1>5 DEF Fetch
  <2>2. CASE Refused(NetKey(st))
    <3>1. phase # "record"
      BY <2>1, <2>2 DEF Refused, PhaseInv
    <3> QED BY <2>1, <2>2, <3>1 DEF Refused, RecordInv, RecordedBy, Fetched, Recorded, Resting
  <2>3. CASE Given(NetKey(st), "quote") /\ cur' = [pc |-> "end", obs |-> cur.obs, out |-> cur.out]
    <3>1. phase' = phase /\ Extends(h.cache, h'.cache) /\ NetKey(st) \in DOMAIN h'.cache
      BY <2>3 DEF Given, Answered
    <3>2. Key' = Key /\ cur'.out = cur.out
      BY <2>1, <2>3 DEF Key
    <3>3. Answered(h'.cache, Key, cur.out)
      BY <2>1, <3>1, StillAnswered DEF RecordInv
    <3>4. RecordedBy(new, h.cache) => RecordedBy(new, h'.cache)
      BY <3>1, StillAnswered
    <3> QED BY <2>1, <3>1, <3>2, <3>3, <3>4 DEF RecordInv, Fetched, Recorded, RecordedBy
  <2> QED BY <1>5, <2>2, <2>3, FetchGives
<1>6. CASE StepEnd
  <2>1. UNCHANGED <<agent, phase, traj, h>> /\ cur' = Resting
    BY <1>6 DEF StepEnd
  <2>2. PICK f : new' = Append(new, f) /\ f.state = st /\ f.obs = cur.obs /\ f.action = cur.out
    BY <1>6 DEF StepEnd, FactOf
  <2>3. Len(new') = Steps /\ new'[Steps] = f
    BY <2>2, NewIs
  <2>4. st' = Apply(new'[Len(new')].state, new'[Len(new')].obs, new'[Len(new')].action)
    BY <1>6, <2>2, <2>3 DEF StepEnd
  <2>5. phase = "record" => RecordedBy(new', h.cache)
    BY <1>6, RecordGrows
  <2> QED BY <2>1, <2>4, <2>5 DEF RecordInv, Resting, Recorded, RecordedBy, Fetched
<1>7. CASE RecordEnd
  BY <1>7 DEF RecordEnd, RecordInv, RecordedBy, Fetched, Recorded, Resting
<1>8. CASE Ship
  BY <1>8 DEF Ship, OverTheWire, RecordInv, Recorded, PhaseInv, Running
<1>9. CASE ReplayBegin
  BY <1>9 DEF ReplayBegin, RecordInv, RecordedBy, Fetched, Recorded, PhaseInv, Running
<1>10. CASE CopyPrefix
  BY <1>10 DEF CopyPrefix, RecordInv, RecordedBy, Fetched, Recorded, Resting
<1>11. CASE Intervene
  BY <1>11 DEF Intervene, RecordInv, RecordedBy, Fetched, Recorded, Resting
<1>12. CASE Extrapolate
  BY <1>12 DEF Extrapolate, RecordInv, RecordedBy, Fetched, Recorded, Resting
<1>13. CASE ReplayEnd
  BY <1>13 DEF ReplayEnd, RecordInv, RecordedBy, Fetched, Recorded, Resting, PhaseInv
<1>14. CASE Rebranch
  BY <1>14 DEF Rebranch, RecordInv, Recorded, PhaseInv, Running
<1> QED BY <1>2, <1>3, <1>4, <1>5, <1>6, <1>7, <1>8, <1>9, <1>10, <1>11, <1>12, <1>13, <1>14 DEF Next

-----------------------------------------------------------------------------
(* Where a replay is. *)

LEMMA IvsSame ==
    ASSUME ivs' = ivs, traj' = traj
    PROVE  /\ \A k : IvAt(k)' = IvAt(k)
           /\ BranchPoint(ivs') = BranchPoint(ivs)
           /\ Recorded' = Recorded
           /\ \A i, fact : FromParent(i, fact)' = FromParent(i, fact)
<1>1. \A k : IvAt(k)' = IvAt(k)
  BY DEF IvAt
<1>2. BranchPoint(ivs') = BranchPoint(ivs)
  OBVIOUS
<1>3. Recorded' = Recorded
  BY DEF Recorded
<1>4. \A i, fact : FromParent(i, fact)' = FromParent(i, fact)
  BY <1>1, <1>3, Zenon DEF FromParent
<1> QED BY <1>1, <1>2, <1>3, <1>4

(* Steps that leave the facts, the parent and the interventions alone. *)
LEMMA FollowSame ==
    ASSUME Inv, UNCHANGED <<traj, new, ivs>>, Replaying,
           phase' = "replay" => /\ Len(new) <= N
                                /\ Running' => /\ Len(new) < N /\ Steps >= BranchPoint(ivs)
                                               /\ IvAt(Steps) = {} /\ cur'.obs = traj.facts[Steps].obs,
           phase' \in {"extra", "idle"} => Len(new) >= N
    PROVE  FollowsParent'
<1>1. /\ \A k : IvAt(k)' = IvAt(k)
      /\ \A i, fact : FromParent(i, fact)' = FromParent(i, fact)
  BY IvsSame, Zenon
<1>2. DOMAIN ivs # {} /\ \A i \in DOMAIN new : i \in DOMAIN traj.facts => FromParent(i, new[i])
  BY DEF Inv, FollowsParent
<1>3. Steps' = Steps
  BY DEF Steps
<1> QED BY <1>1, <1>2, <1>3 DEF FollowsParent

(* Steps that add a fact. *)
LEMMA FollowGrown ==
    ASSUME Inv, UNCHANGED <<phase, traj, ivs>>, Replaying, cur' = Resting,
           NEW f, new' = Append(new, f),
           phase = "replay" => Len(new) < N,
           Steps \in DOMAIN traj.facts => FromParent(Steps, f)
    PROVE  FollowsParent'
<1>1. \A i, fact : FromParent(i, fact)' = FromParent(i, fact)
  BY IvsSame, Zenon
<1>2. DOMAIN ivs # {} /\ \A i \in DOMAIN new : i \in DOMAIN traj.facts => FromParent(i, new[i])
  BY DEF Inv, FollowsParent
<1>3. /\ DOMAIN new' = DOMAIN new \cup {Steps} /\ Len(new') = Steps
      /\ \A i \in DOMAIN new : new'[i] = new[i]
      /\ new'[Steps] = f
      /\ Len(new) \in Nat
  BY NewIs DEF Inv
<1>4. \A i \in DOMAIN new' : i \in DOMAIN traj.facts => FromParent(i, new'[i])
  BY <1>2, <1>3
<1>5. Len(new') = Len(new) + 1 /\ (phase \in {"extra", "idle"} => Len(new) >= N)
  BY <1>3 DEF Steps, Inv, FollowsParent
<1>6. ~ Running'
  BY DEF Running, Resting
<1>7. N \in Nat
  BY ReplayAssumption
<1> QED BY <1>1, <1>2, <1>3, <1>4, <1>5, <1>6, <1>7 DEF FollowsParent

LEMMA FollowKept == Inv /\ [Next]_vars => FollowsParent'
<1> SUFFICES ASSUME Inv, [Next]_vars, Replaying' PROVE FollowsParent'
  BY DEF FollowsParent
<1> USE DEF Inv
<1>1. Len(new) \in Nat /\ N \in Nat /\ N >= 1
  BY ReplayAssumption DEF TypeInv
<1>2. CASE UNCHANGED vars
  BY <1>2, IvsSame, Zenon DEF FollowsParent, Replaying, Running, Steps, vars
<1>3. CASE StepBegin
  <2>1. PICK o \in NextObs : cur' = [Resting EXCEPT !.pc = "llm", !.obs = o]
    BY <1>3 DEF StepBegin
  <2>2. UNCHANGED <<phase, why, traj, new, ivs, replays>> /\ cur'.obs = o
    BY <1>3, <2>1 DEF StepBegin, Resting
  <2>3. Replaying
    BY <2>2 DEF Replaying
  <2> QED BY <1>1, <2>2, <2>3, ObsNext, FollowSame DEF FollowsParent
<1>4. CASE AskModel
  <2>1. UNCHANGED <<agent, drifted, traj, new, st, rng, ivs, extra, replays>> /\ Running
    BY <1>4 DEF AskModel, Running
  <2>2. CASE Refused(Key)
    <3>1. Replaying /\ phase' = "raised"
      BY <2>1, <2>2 DEF Refused, Replaying, PhaseInv
    <3> QED BY <2>1, <3>1, FollowSame
  <2>3. ASSUME NEW ans \in Answers, Given(Key, ans),
               cur' = [pc |-> IF agent = "state" /\ ans = "trade" THEN "net" ELSE "end",
                       obs |-> cur.obs, out |-> ans]
        PROVE  FollowsParent'
    <3>1. Replaying /\ phase' = phase /\ cur'.obs = cur.obs
      BY <2>1, <2>3 DEF Given, Replaying
    <3> QED BY <2>1, <3>1, FollowSame DEF FollowsParent
  <2> QED BY <1>4, <2>2, <2>3, AskGives
<1>5. CASE Fetch
  <2>1. UNCHANGED <<agent, drifted, traj, new, st, rng, ivs, extra, replays>> /\ Running
    BY <1>5 DEF Fetch, Running
  <2>2. CASE Refused(NetKey(st))
    <3>1. Replaying /\ phase' = "raised"
      BY <2>1, <2>2 DEF Refused, Replaying, PhaseInv
    <3> QED BY <2>1, <3>1, FollowSame
  <2>3. CASE Given(NetKey(st), "quote") /\ cur' = [pc |-> "end", obs |-> cur.obs, out |-> cur.out]
    <3>1. Replaying /\ phase' = phase /\ cur'.obs = cur.obs
      BY <2>1, <2>3 DEF Given, Replaying
    <3> QED BY <2>1, <3>1, FollowSame DEF FollowsParent
  <2> QED BY <1>5, <2>2, <2>3, FetchGives
<1>6. CASE StepEnd
  <2>1. PICK f : new' = Append(new, f)
    BY <1>6 DEF StepEnd
  <2>2. UNCHANGED <<phase, why, traj, ivs, replays>> /\ cur' = Resting /\ cur.pc = "end" /\ Running
    BY <1>6 DEF StepEnd, Running
  <2>3. Replaying /\ phase \in {"replay", "extra"}
    BY <2>2 DEF Replaying, PhaseInv
  <2>4. CASE phase = "replay"
    <3>1. Len(new) < N /\ Steps >= BranchPoint(ivs) /\ IvAt(Steps) = {}
      BY <2>2, <2>3, <2>4 DEF FollowsParent
    <3>2. Recorded
      BY <2>2, <2>3, <2>4 DEF CacheInv
    <3>3. BranchPoint(ivs) \in 1 .. N /\ Steps \in Nat
      BY <1>1, <2>3, BranchIs DEF FollowsParent, TypeInv, Steps
    <3>4. FromParent(Steps, f)
      BY <3>1, <3>2, <3>3 DEF FromParent
    <3> QED BY <2>1, <2>2, <2>3, <2>4, <3>1, <3>4, FollowGrown
  <2>5. CASE phase = "extra"
    <3>1. Len(new) >= N /\ Len(traj.facts) = N
      BY <2>3, <2>5 DEF FollowsParent, PhaseInv
    <3>2. Steps \notin DOMAIN traj.facts
      BY <1>1, <3>1 DEF Steps, TypeInv
    <3> QED BY <2>1, <2>2, <2>3, <2>5, <3>2, FollowGrown
  <2> QED BY <2>3, <2>4, <2>5
<1>7. CASE RecordEnd
  BY <1>7 DEF RecordEnd, Replaying, PhaseInv
<1>8. CASE Ship
  BY <1>8 DEF Ship, Replaying
<1>9. CASE ReplayBegin
  <2>1. PICK n \in 1 .. MaxIvs : ivs' \in [1 .. n -> Sensible]
    BY <1>9 DEF ReplayBegin
  <2>2. DOMAIN ivs' # {}
    <3>1. n \in Nat /\ n >= 1 /\ DOMAIN ivs' = 1 .. n
      BY <2>1
    <3>2. 1 \in DOMAIN ivs'
      BY <3>1
    <3> QED BY <3>2
  <2>3. new' = <<>> /\ phase' = "replay" /\ cur' = cur /\ phase = "idle"
    BY <1>9 DEF ReplayBegin
  <2>4. ~ Running'
    BY <2>3 DEF PhaseInv, Running
  <2>5. Len(new') = 0 /\ DOMAIN new' = {}
    BY <2>3
  <2> QED BY <1>1, <2>2, <2>3, <2>4, <2>5 DEF FollowsParent
<1>10. CASE CopyPrefix
  <2>1. /\ new' = Append(new, traj.facts[Steps]) /\ Steps < BranchPoint(ivs) /\ Len(new) < N
    BY <1>10, CopyGives
  <2>2. UNCHANGED <<phase, why, traj, ivs, replays>> /\ cur' = Resting
    BY <1>10 DEF CopyPrefix
  <2>3. Replaying
    BY <2>2 DEF Replaying
  <2>4. BranchPoint(ivs) \in 1 .. N /\ Steps \in Nat
    BY <1>1, <2>3, BranchIs DEF FollowsParent, TypeInv, Steps
  <2>5. FromParent(Steps, traj.facts[Steps])
    BY <2>1, <2>4 DEF FromParent
  <2> QED BY <2>1, <2>2, <2>3, <2>5, FollowGrown
<1>11. CASE Intervene
  <2>1. PICK iv \in IvAt(Steps), g \in Facts :
          /\ g = [Intervened(traj.facts[Steps], iv) EXCEPT !.draws = Took(Steps)]
          /\ new' = Append(new, g)
    BY <1>11, InterveneGives
  <2>2. UNCHANGED <<phase, why, traj, ivs, replays>> /\ cur' = Resting
    BY <1>11 DEF Intervene
  <2>3. Replaying
    BY <2>2 DEF Replaying
  <2>4. BranchPoint(ivs) \in 1 .. N /\ Steps \in Nat
    BY <1>1, <2>3, BranchIs DEF FollowsParent, TypeInv, Steps
  <2>5. Steps >= BranchPoint(ivs) /\ Len(new) < N
    BY <1>11, InterveneGives
  <2>6. ~ (Steps < BranchPoint(ivs))
    BY <2>4, <2>5
  <2>7. FromParent(Steps, g)
    BY <2>1, <2>6, Zenon DEF FromParent
  <2> QED BY <2>1, <2>2, <2>3, <2>5, <2>7, FollowGrown
<1>12. CASE Extrapolate
  <2>1. UNCHANGED <<traj, new, ivs>> /\ phase' = "extra" /\ Replaying /\ Len(new) = N
    BY <1>12 DEF Extrapolate, Replaying, PhaseInv
  <2> QED BY <1>1, <2>1, FollowSame
<1>13. CASE ReplayEnd
  <2>1. UNCHANGED <<traj, new, ivs>> /\ phase' \in {"idle", "raised"} /\ Replaying /\ Len(new) >= N
    BY <1>13 DEF ReplayEnd, Replaying, PhaseInv
  <2> QED BY <2>1, FollowSame
<1>14. CASE Rebranch
  BY <1>14 DEF Rebranch, Replaying
<1> QED BY <1>2, <1>3, <1>4, <1>5, <1>6, <1>7, <1>8, <1>9, <1>10, <1>11, <1>12, <1>13, <1>14 DEF Next

-----------------------------------------------------------------------------
(* What the cache of a replay answers. *)

LEMMA ExtendsOn ==
    ASSUME NEW c, NEW d, NEW e, Extends(c, d), Extends(d, e)
    PROVE  Extends(c, e)
BY DEF Extends, Answered

LEMMA CacheSame ==
    ASSUME Inv, UNCHANGED <<traj, new, ivs>>, Replaying, Extends(h.cache, h'.cache),
           ~ Recorded /\ phase' = "replay" => h'.cache = NoCache /\ cur'.pc \in {"rest", "llm"}
    PROVE  CacheInv'
<1>1. (\A k : IvAt(k)' = IvAt(k)) /\ Recorded' = Recorded
  BY IvsSame, Zenon
<1>2. Recorded => /\ Extends(traj.cache, h'.cache)
                  /\ \A i \in DOMAIN new : IvAt(i) = {} => Answered(h'.cache, new[i].llm_in, new[i].llm_out)
  BY ExtendsOn, StillAnswered DEF Inv, CacheInv
<1> QED BY <1>1, <1>2 DEF CacheInv

LEMMA CacheGrown ==
    ASSUME Inv, UNCHANGED <<phase, traj, ivs, h>>, Replaying, cur' = Resting,
           NEW f, new' = Append(new, f),
           Recorded /\ IvAt(Steps) = {} => Answered(h.cache, f.llm_in, f.llm_out)
    PROVE  CacheInv'
<1>1. (\A k : IvAt(k)' = IvAt(k)) /\ Recorded' = Recorded
  BY IvsSame, Zenon
<1>2. /\ DOMAIN new' = DOMAIN new \cup {Steps}
      /\ \A i \in DOMAIN new : new'[i] = new[i]
      /\ new'[Steps] = f
  BY NewIs DEF Inv
<1>3. Recorded => \A i \in DOMAIN new' : IvAt(i) = {} => Answered(h.cache, new'[i].llm_in, new'[i].llm_out)
  BY <1>2 DEF Inv, CacheInv
<1>4. cur'.pc = "rest"
  BY DEF Resting
<1> QED BY <1>1, <1>3, <1>4 DEF CacheInv, Inv

LEMMA CacheKept == Inv /\ [Next]_vars => CacheInv'
<1> SUFFICES ASSUME Inv, [Next]_vars, Replaying' PROVE CacheInv'
  BY DEF CacheInv
<1> USE DEF Inv
<1>1. Extends(h.cache, h.cache)
  BY DEF Extends, Answered
<1>2. CASE UNCHANGED vars
  <2>1. Replaying
    BY <1>2, Zenon DEF Replaying, vars
  <2> QED BY <1>1, <1>2, <2>1, CacheSame DEF CacheInv, vars
<1>3. CASE StepBegin
  <2>1. UNCHANGED <<phase, why, traj, new, h, ivs, replays>> /\ cur'.pc = "llm"
    BY <1>3 DEF StepBegin, Resting
  <2>2. Replaying
    BY <2>1 DEF Replaying
  <2> QED BY <1>1, <2>1, <2>2, CacheSame DEF CacheInv
<1>4. CASE AskModel
  <2>1. UNCHANGED <<agent, drifted, traj, new, st, rng, ivs, extra, replays>> /\ Running
    BY <1>4 DEF AskModel, Running
  <2>2. CASE Refused(Key)
    <3>1. Replaying /\ phase' = "raised" /\ h' = h
      BY <2>1, <2>2 DEF Refused, Replaying, PhaseInv
    <3> QED BY <1>1, <2>1, <3>1, CacheSame
  <2>3. ASSUME NEW ans \in Answers, Given(Key, ans)
        PROVE  CacheInv'
    <3>1. Replaying /\ phase' = phase /\ Extends(h.cache, h'.cache)
      BY <2>1, <2>3 DEF Given, Replaying
    <3>2. ~ (~ Recorded /\ phase = "replay")
      BY <2>3, <3>1 DEF Given, CacheInv, PhaseInv, NoCache
    <3> QED BY <2>1, <3>1, <3>2, CacheSame
  <2> QED BY <1>4, <2>2, <2>3, AskGives
<1>5. CASE Fetch
  <2>1. UNCHANGED <<agent, drifted, traj, new, st, rng, ivs, extra, replays>> /\ cur.pc = "net" /\ Running
    BY <1>5 DEF Fetch, Running
  <2>2. CASE Refused(NetKey(st))
    <3>1. Replaying /\ phase' = "raised" /\ h' = h
      BY <2>1, <2>2 DEF Refused, Replaying, PhaseInv
    <3> QED BY <1>1, <2>1, <3>1, CacheSame
  <2>3. CASE Given(NetKey(st), "quote")
    <3>1. Replaying /\ phase' = phase /\ Extends(h.cache, h'.cache)
      BY <2>1, <2>3 DEF Given, Replaying
    <3>2. ~ (~ Recorded /\ phase = "replay")
      BY <2>1, <3>1 DEF CacheInv
    <3> QED BY <2>1, <3>1, <3>2, CacheSame
  <2> QED BY <1>5, <2>2, <2>3, FetchGives
<1>6. CASE StepEnd
  <2>1. PICK f : new' = Append(new, f) /\ f.llm_in = Key /\ f.llm_out = cur.out
    BY <1>6 DEF StepEnd, FactOf, Key
  <2>2. UNCHANGED <<phase, why, traj, ivs, h, replays>> /\ cur' = Resting /\ cur.pc = "end"
    BY <1>6 DEF StepEnd
  <2>3. Replaying
    BY <2>2 DEF Replaying
  <2>4. Answered(h.cache, f.llm_in, f.llm_out)
    BY <2>1, <2>2 DEF RecordInv
  <2> QED BY <2>1, <2>2, <2>3, <2>4, CacheGrown
<1>7. CASE RecordEnd
  BY <1>7 DEF RecordEnd, Replaying, PhaseInv
<1>8. CASE Ship
  BY <1>8 DEF Ship, Replaying
<1>9. CASE ReplayBegin
  <2>1. h'.cache = traj.cache /\ DOMAIN new' = {} /\ traj' = traj /\ cur' = cur /\ phase = "idle"
    BY <1>9 DEF ReplayBegin, ReplayHandler
  <2>2. cur.pc = "rest" /\ (~ Recorded => traj.cache = NoCache)
    BY <2>1 DEF PhaseInv, Running, RecordInv
  <2>3. Extends(traj.cache, traj.cache)
    BY DEF Extends, Answered
  <2> QED BY <2>1, <2>2, <2>3 DEF CacheInv, Recorded
<1>10. CASE CopyPrefix
  <2>1. /\ new' = Append(new, traj.facts[Steps]) /\ Steps \in DOMAIN traj.facts
    BY <1>10, CopyGives
  <2>2. UNCHANGED <<phase, why, traj, ivs, h, replays>> /\ cur' = Resting /\ phase = "replay"
    BY <1>10 DEF CopyPrefix
  <2>3. Replaying
    BY <2>2 DEF Replaying
  <2>4. ASSUME Recorded PROVE Answered(h.cache, traj.facts[Steps].llm_in, traj.facts[Steps].llm_out)
    <3>1. Answered(traj.cache, traj.facts[Steps].llm_in, traj.facts[Steps].llm_out)
      BY <2>1, <2>2, <2>4 DEF RecordInv, RecordedBy
    <3> QED BY <2>3, <2>4, <3>1, StillAnswered DEF CacheInv
  <2> QED BY <2>1, <2>2, <2>3, <2>4, CacheGrown
<1>11. CASE Intervene
  <2>1. PICK iv \in IvAt(Steps), g \in Facts : new' = Append(new, g)
    BY <1>11, InterveneGives
  <2>2. UNCHANGED <<phase, why, traj, ivs, h, replays>> /\ cur' = Resting
    BY <1>11 DEF Intervene
  <2>3. Replaying
    BY <2>2 DEF Replaying
  <2> QED BY <2>1, <2>2, <2>3, CacheGrown
<1>12. CASE Extrapolate
  <2>1. UNCHANGED <<traj, new, ivs>> /\ phase' = "extra" /\ Replaying /\ h'.cache = h.cache
    BY <1>12 DEF Extrapolate, Extrapolating, Replaying, PhaseInv, TypeInv
  <2> QED BY <1>1, <2>1, CacheSame
<1>13. CASE ReplayEnd
  <2>1. UNCHANGED <<traj, new, ivs, h>> /\ phase' \in {"idle", "raised"} /\ Replaying
    BY <1>13 DEF ReplayEnd, Replaying, PhaseInv
  <2> QED BY <1>1, <2>1, CacheSame
<1>14. CASE Rebranch
  BY <1>14 DEF Rebranch, Replaying
<1> QED BY <1>2, <1>3, <1>4, <1>5, <1>6, <1>7, <1>8, <1>9, <1>10, <1>11, <1>12, <1>13, <1>14 DEF Next

-----------------------------------------------------------------------------
(* What was executed, and when. *)

LEMMA FiredKept == Inv /\ [Next]_vars => FiredInv'
<1> SUFFICES ASSUME Inv, [Next]_vars PROVE FiredInv'
  OBVIOUS
<1> USE DEF Inv
<1>1. CASE UNCHANGED vars
  BY <1>1, Zenon DEF FiredInv, Recorded, vars
<1>2. ASSUME NEW key, UNCHANGED traj, Running, Refused(key) PROVE FiredInv'
  <2>1. phase # "record" /\ phase' = "raised" /\ fired' = fired
    BY <1>2 DEF Refused, PhaseInv
  <2> QED BY <1>2, <2>1 DEF FiredInv, Recorded
<1>3. ASSUME NEW key, NEW ans, UNCHANGED traj, Running, Given(key, ans), replays' = replays PROVE FiredInv'
  <2>1. phase' = phase
    BY <1>3 DEF Given
  <2>2. CASE fired' = fired
    BY <1>3, <2>1, <2>2 DEF FiredInv, Recorded
  <2>3. CASE /\ key \notin DOMAIN h.cache
             /\ fired' = fired \cup {[in |-> phase, key |-> key]}
             /\ h.mode = "replay" => h.cache # NoCache /\ key.op # "net"
    <3>1. CASE phase = "record"
      BY <1>3, <2>1, <2>3, <3>1 DEF FiredInv, Recorded
    <3>2. CASE phase \in {"replay", "extra"} /\ Recorded
      <4>1. key \notin DOMAIN traj.cache
        BY <2>3, <3>2 DEF CacheInv, Replaying, PhaseInv, Extends, Answered
      <4>2. phase = "replay" => key.op # "net"
        BY <2>3 DEF PhaseInv
      <4> QED BY <1>3, <2>1, <2>3, <3>2, <4>1, <4>2 DEF FiredInv, Recorded
    <3>3. CASE ~ Recorded
      BY <1>3, <3>3 DEF FiredInv, Recorded
    <3> QED BY <1>3, <3>1, <3>2, <3>3 DEF PhaseInv
  <2> QED BY <1>3, <2>2, <2>3 DEF Given
<1>4. CASE AskModel
  <2>1. UNCHANGED <<traj, replays>> /\ Running
    BY <1>4 DEF AskModel, Running
  <2> QED BY <1>2, <1>3, <1>4, <2>1, AskGives
<1>5. CASE Fetch
  <2>1. UNCHANGED <<traj, replays>> /\ Running
    BY <1>5 DEF Fetch, Running
  <2> QED BY <1>2, <1>3, <1>5, <2>1, FetchGives
<1>6. CASE RecordEnd
  BY <1>6 DEF RecordEnd, FiredInv, Recorded, PhaseInv
<1>7. CASE Ship
  BY <1>7 DEF Ship, OverTheWire, FiredInv, Recorded
<1>8. CASE Rebranch
  BY <1>8 DEF Rebranch, FiredInv, Recorded
<1>9. CASE StepBegin \/ StepEnd \/ CopyPrefix \/ Intervene
  <2>1. UNCHANGED <<phase, traj, fired>>
    BY <1>9 DEF StepBegin, StepEnd, CopyPrefix, Intervene
  <2> QED BY <2>1 DEF FiredInv, Recorded
<1>10. CASE ReplayBegin \/ Extrapolate \/ ReplayEnd
  <2>1. UNCHANGED <<traj, fired>> /\ phase # "record" /\ phase' # "record"
    BY <1>10 DEF ReplayBegin, Extrapolate, ReplayEnd
  <2> QED BY <2>1 DEF FiredInv, Recorded
<1> QED BY <1>1, <1>4, <1>5, <1>6, <1>7, <1>8, <1>9, <1>10 DEF Next

-----------------------------------------------------------------------------
(* Interventions that change nothing. *)

Same == Replaying /\ Recorded /\ NoOp /\ ~ drifted

LEMMA SameStep ==
    ASSUME Inv, UNCHANGED <<traj, ivs, drifted>>, Replaying, Same'
    PROVE  Same
BY DEF Same, Recorded, NoOp

(* The call the replay is at is one the recording made. *)
LEMMA SameCall ==
    ASSUME Inv, Same, phase = "replay", Running
    PROVE  /\ Steps \in DOMAIN traj.facts /\ traj.facts[Steps] \in Facts
           /\ Len(new) < N /\ cur.obs = traj.facts[Steps].obs /\ st = traj.facts[Steps].state
           /\ Key = traj.facts[Steps].llm_in
           /\ Answered(h.cache, Key, traj.facts[Steps].llm_out)
           /\ Fetched(h.cache, traj.facts[Steps].llm_out, st)
           /\ traj.facts[Steps].action = traj.facts[Steps].llm_out
           /\ traj.facts[Steps].t = "tick" /\ Drew(agent, Steps, traj.facts[Steps].draws)
           /\ Steps + 1 \in DOMAIN traj.facts =>
                traj.facts[Steps + 1].state =
                   Apply(traj.facts[Steps].state, traj.facts[Steps].obs, traj.facts[Steps].action)
<1>1. Len(new) < N /\ cur.obs = traj.facts[Steps].obs
  BY DEF Inv, Same, FollowsParent
<1>2. st = traj.facts[Steps].state
  BY <1>1 DEF Inv, Same, SameInv
<1>3. Steps \in DOMAIN traj.facts
  BY <1>1, ReplayAssumption DEF Inv, TypeInv, PhaseInv, Steps
<1>4. traj.facts[Steps] \in Facts
  BY <1>3 DEF Inv, TypeInv
<1>5. RecordedBy(traj.facts, h.cache)
  BY StillAnswered DEF Inv, Same, CacheInv, RecordInv
<1>6. /\ Answered(h.cache, traj.facts[Steps].llm_in, traj.facts[Steps].llm_out)
      /\ Fetched(h.cache, traj.facts[Steps].llm_out, traj.facts[Steps].state)
      /\ traj.facts[Steps].llm_in = LlmKey(agent, FALSE, traj.facts[Steps].obs, traj.facts[Steps].state)
      /\ traj.facts[Steps].action = traj.facts[Steps].llm_out
      /\ traj.facts[Steps].t = "tick"
      /\ Steps + 1 \in DOMAIN traj.facts =>
           traj.facts[Steps + 1].state =
              Apply(traj.facts[Steps].state, traj.facts[Steps].obs, traj.facts[Steps].action)
  BY <1>3, <1>5 DEF RecordedBy
<1>7. Key = traj.facts[Steps].llm_in
  BY <1>1, <1>2, <1>6 DEF Key, Same, Inv, TypeInv
<1>8. Drew(agent, Steps, traj.facts[Steps].draws)
  BY <1>3 DEF Inv, DrawInv
<1> QED BY <1>1, <1>2, <1>3, <1>4, <1>6, <1>7, <1>8

(* A step that adds the fact the recording has there. *)
LEMMA SameGrown ==
    ASSUME Inv, Same, UNCHANGED <<phase, traj>>, cur' = Resting,
           NEW f, new' = Append(new, f), f.t = "tick",
           phase = "replay" \/ phase = "extra",
           f \in Facts,
           phase = "replay" => /\ Steps \in DOMAIN traj.facts
                               /\ Pinned(f) = Pinned(traj.facts[Steps])
                               /\ st' = Apply(f.state, f.obs, f.action)
    PROVE  SameInv'
<1>1. /\ DOMAIN new' = DOMAIN new \cup {Steps} /\ Len(new') = Steps
      /\ \A i \in DOMAIN new : new'[i] = new[i]
      /\ new'[Steps] = f
      /\ Len(new) \in Nat
  BY NewIs DEF Inv
<1>2. /\ \A i \in DOMAIN new : i \in DOMAIN traj.facts => Pinned(new[i]) = Pinned(traj.facts[i])
      /\ \A i \in DOMAIN new : new[i].t = "tick"
  BY DEF Inv, Same, SameInv
<1>3. Len(traj.facts) = N /\ N \in Nat /\ DOMAIN traj.facts = 1 .. N
  BY ReplayAssumption DEF Inv, TypeInv, PhaseInv
<1>4. Steps \in DOMAIN traj.facts => Pinned(f) = Pinned(traj.facts[Steps])
  BY <1>1, <1>3 DEF Steps, Inv, Same, FollowsParent
<1>5. ASSUME phase = "replay", Len(new') < N PROVE st' = traj.facts[Steps'].state
  <2>1. Steps' = Steps + 1 /\ Steps + 1 \in DOMAIN traj.facts
    BY <1>1, <1>3, <1>5 DEF Steps
  <2>2. RecordedBy(traj.facts, traj.cache)
    BY <1>5 DEF Inv, RecordInv, Same
  <2>3. traj.facts[Steps + 1].state =
           Apply(traj.facts[Steps].state, traj.facts[Steps].obs, traj.facts[Steps].action)
    BY <1>5, <2>1, <2>2 DEF RecordedBy
  <2>4. Steps \in DOMAIN traj.facts /\ traj.facts[Steps] \in Facts
    BY <1>5 DEF Inv, TypeInv
  <2>5. f.state = traj.facts[Steps].state /\ f.obs = traj.facts[Steps].obs
        /\ f.action = traj.facts[Steps].action
    BY <1>4, <2>4, PinnedSame
  <2> QED BY <1>5, <2>1, <2>3, <2>5
<1>6. /\ \A i \in DOMAIN new' : i \in DOMAIN traj.facts => Pinned(new'[i]) = Pinned(traj.facts[i])
      /\ \A i \in DOMAIN new' : new'[i].t = "tick"
  BY <1>1, <1>2, <1>4
<1>7. cur'.pc = "rest"
  BY DEF Resting
<1> QED BY <1>5, <1>6, <1>7 DEF SameInv

LEMMA SameKept == Inv /\ [Next]_vars => SameInv'
<1> SUFFICES ASSUME Inv, [Next]_vars, Same' PROVE SameInv'
  BY DEF SameInv, Same
<1> USE DEF Inv
<1>1. Len(new) \in Nat /\ N \in Nat /\ N >= 1
  BY ReplayAssumption DEF TypeInv
<1>2. CASE UNCHANGED vars
  <2>1. Same
    BY <1>2, Zenon DEF Same, Replaying, Recorded, NoOp, vars
  <2>2. SameInv
    OBVIOUS
  <2> QED BY <1>2, <2>1, <2>2, Zenon DEF SameInv, Same, Steps, vars
<1>3. CASE StepBegin
  <2>1. UNCHANGED <<phase, why, traj, new, ivs, drifted, st, replays>> /\ cur'.pc = "llm"
    BY <1>3 DEF StepBegin, Resting
  <2>2. Same
    BY <2>1, SameStep DEF Same, Replaying
  <2> QED BY <2>1, <2>2 DEF SameInv, Same, Steps
<1>4. CASE AskModel
  <2>1. UNCHANGED <<agent, drifted, traj, new, st, rng, ivs, extra, replays>> /\ Running
    BY <1>4 DEF AskModel, Running
  <2>2. CASE Refused(Key)
    <3>1. phase = "replay" /\ Replaying
      BY <2>1, <2>2 DEF Refused, Replaying, PhaseInv
    <3>2. Same
      BY <2>1, <3>1, SameStep
    <3>3. Key \in DOMAIN h.cache
      BY <2>1, <3>1, <3>2, SameCall DEF Answered
    <3> QED BY <2>2, <3>3 DEF Refused
  <2>3. ASSUME NEW ans \in Answers, Given(Key, ans),
               cur' = [pc |-> IF agent = "state" /\ ans = "trade" THEN "net" ELSE "end",
                       obs |-> cur.obs, out |-> ans]
        PROVE  SameInv'
    <3>1. phase' = phase /\ why' = why /\ Extends(h.cache, h'.cache) /\ Answered(h'.cache, Key, ans)
      BY <2>3 DEF Given
    <3>2. Same
      BY <2>1, <3>1, SameStep DEF Same, Replaying
    <3>3. phase = "replay" => ans = traj.facts[Steps].llm_out
      BY <2>1, <3>1, <3>2, SameCall, StillAnswered DEF Answered
    <3>4. cur'.out = ans
      BY <2>3
    <3> QED BY <2>1, <3>1, <3>2, <3>3, <3>4 DEF SameInv, Same, Steps
  <2> QED BY <1>4, <2>2, <2>3, AskGives
<1>5. CASE Fetch
  <2>1. UNCHANGED <<agent, drifted, traj, new, st, rng, ivs, extra, replays>> /\ Running /\ cur.pc = "net"
    BY <1>5 DEF Fetch, Running
  <2>2. CASE Refused(NetKey(st))
    <3>1. phase = "replay" /\ Replaying
      BY <2>1, <2>2 DEF Refused, Replaying, PhaseInv
    <3>2. Same
      BY <2>1, <3>1, SameStep
    <3>3. agent = "state" /\ traj.facts[Steps].llm_out = "trade"
      BY <2>1, <3>1, <3>2 DEF PhaseInv, SameInv, Same
    <3>4. NetKey(st) \in DOMAIN h.cache
      BY <2>1, <3>1, <3>2, <3>3, SameCall DEF Fetched
    <3> QED BY <2>2, <3>4 DEF Refused
  <2>3. CASE Given(NetKey(st), "quote") /\ cur' = [pc |-> "end", obs |-> cur.obs, out |-> cur.out]
    <3>1. phase' = phase /\ why' = why /\ cur'.out = cur.out
      BY <2>3 DEF Given
    <3>2. Same
      BY <2>1, <3>1, SameStep DEF Same, Replaying
    <3> QED BY <2>1, <3>1, <3>2 DEF SameInv, Same, Steps
  <2> QED BY <1>5, <2>2, <2>3, FetchGives
<1>6. CASE StepEnd
  <2>1. UNCHANGED <<phase, why, traj, ivs, drifted, h, replays>> /\ cur' = Resting /\ cur.pc = "end" /\ Running
    BY <1>6 DEF StepEnd, Running
  <2>2. PICK f : /\ f = FactOf(st, cur.obs, Key, cur.out, rng) /\ new' = Append(new, f)
                 /\ st' = Apply(f.state, f.obs, f.action)
    BY <1>6 DEF StepEnd, FactOf, Key
  <2>3. Same /\ phase \in {"replay", "extra"}
    BY <2>1, SameStep DEF Same, Replaying, PhaseInv
  <2>4. f.t = "tick" /\ f \in Facts
    BY <2>1, <2>2, FactIs DEF FactOf
  <2>5. ASSUME phase = "replay" PROVE /\ Steps \in DOMAIN traj.facts
                                            /\ Pinned(f) = Pinned(traj.facts[Steps])
    <3>1. /\ Steps \in DOMAIN traj.facts /\ traj.facts[Steps] \in Facts
          /\ cur.obs = traj.facts[Steps].obs /\ st = traj.facts[Steps].state
          /\ Key = traj.facts[Steps].llm_in
          /\ traj.facts[Steps].action = traj.facts[Steps].llm_out
          /\ traj.facts[Steps].t = "tick" /\ Drew(agent, Steps, traj.facts[Steps].draws)
      BY <2>1, <2>3, <2>5, SameCall
    <3>2. cur.out = traj.facts[Steps].llm_out /\ Drew(agent, Steps, rng)
      BY <2>1, <2>3, <2>5 DEF SameInv, Same, DrawInv
    <3>3. /\ f.state = traj.facts[Steps].state /\ f.obs = traj.facts[Steps].obs
          /\ f.llm_in = traj.facts[Steps].llm_in /\ f.llm_out = traj.facts[Steps].llm_out
          /\ f.action = traj.facts[Steps].action /\ f.t = traj.facts[Steps].t
          /\ f.draws.llm = traj.facts[Steps].draws.llm /\ f.draws.env = traj.facts[Steps].draws.env
      BY <2>2, <3>1, <3>2 DEF FactOf, Drew
    <3> QED BY <2>4, <3>1, <3>3, PinnedIs
  <2> QED BY <2>1, <2>2, <2>3, <2>4, <2>5, SameGrown
<1>7. CASE RecordEnd
  BY <1>7 DEF RecordEnd, Replaying, PhaseInv, Same
<1>8. CASE Ship
  BY <1>8 DEF Ship, Replaying, Same
<1>9. CASE ReplayBegin
  <2>1. new' = <<>> /\ traj' = traj /\ phase' = "replay" /\ cur' = cur /\ phase = "idle" /\ st' = traj.facts[1].state
    BY <1>9 DEF ReplayBegin
  <2>2. DOMAIN new' = {} /\ Steps' = 1 /\ cur.pc = "rest"
    BY <2>1 DEF Steps, PhaseInv, Running
  <2> QED BY <2>1, <2>2 DEF SameInv
<1>10. CASE CopyPrefix
  <2>1. /\ new' = Append(new, traj.facts[Steps]) /\ Steps \in DOMAIN traj.facts
        /\ st' = Apply(st, traj.facts[Steps].obs, traj.facts[Steps].action) /\ Len(new) < N
    BY <1>10, CopyGives
  <2>2. UNCHANGED <<phase, why, traj, ivs, drifted, replays>> /\ cur' = Resting /\ phase = "replay"
    BY <1>10 DEF CopyPrefix
  <2>3. Same
    BY <2>2, SameStep DEF Same, Replaying
  <2>4. st = traj.facts[Steps].state
    BY <2>1, <2>2, <2>3 DEF SameInv, Same
  <2>5. traj.facts[Steps].t = "tick"
    BY <2>1, <2>2, <2>3 DEF RecordInv, RecordedBy, Same
  <2>6. traj.facts[Steps] \in Facts
    BY <2>1 DEF TypeInv
  <2> QED BY <2>1, <2>2, <2>3, <2>4, <2>5, <2>6, SameGrown
<1>11. CASE Intervene
  <2>1. PICK iv \in Edits, g \in Facts :
          /\ iv.step = Steps /\ \E i \in DOMAIN ivs : iv = ivs[i]
          /\ g = [Intervened(traj.facts[Steps], iv) EXCEPT !.draws = Took(Steps)]
          /\ new' = Append(new, g) /\ st' = Apply(st, g.obs, g.action)
    BY <1>11, InterveneGives
  <2>2. UNCHANGED <<phase, why, traj, ivs, drifted, replays>> /\ cur' = Resting /\ phase = "replay"
    BY <1>11 DEF Intervene
  <2>3. Same
    BY <2>2, SameStep DEF Same, Replaying
  <2>4. Steps \in DOMAIN traj.facts /\ traj.facts[Steps] \in Facts /\ Steps \in Nat /\ Len(new) < N
    BY <1>1, <1>11, InterveneGives DEF Steps
  <2>5. traj.facts[Steps][iv.field] = iv.value
    BY <2>1, <2>3 DEF Same, NoOp
  <2>6. Drew(agent, Steps, traj.facts[Steps].draws)
    BY <2>4 DEF DrawInv
  <2>7. /\ Pinned(g) = Pinned(traj.facts[Steps]) /\ g.state = traj.facts[Steps].state
        /\ g.t = traj.facts[Steps].t
    <3>1. Edited(traj.facts[Steps], iv, Steps, g)
      BY <2>1, <2>4, IntervenedIs, Zenon
    <3>2. Pinned(g) = Pinned(traj.facts[Steps])
      BY <2>5, <2>6, <3>1 DEF Edited, Drew
    <3> QED BY <2>1, <2>4, <3>2, PinnedSame
  <2>8. st = traj.facts[Steps].state
    BY <2>2, <2>3, <2>4 DEF SameInv, Same
  <2>9. traj.facts[Steps].t = "tick"
    BY <2>2, <2>3, <2>4 DEF RecordInv, RecordedBy, Same
  <2> QED BY <2>1, <2>2, <2>3, <2>4, <2>7, <2>8, <2>9, SameGrown
<1>12. CASE Extrapolate
  <2>1. UNCHANGED <<traj, new, ivs, drifted>> /\ phase' = "extra" /\ Replaying
    BY <1>12 DEF Extrapolate, Replaying, PhaseInv
  <2>2. Same
    BY <2>1, SameStep
  <2> QED BY <2>1, <2>2 DEF SameInv, Same
<1>13. CASE ReplayEnd
  <2>1. UNCHANGED <<traj, new, ivs, drifted>> /\ Replaying
    BY <1>13 DEF ReplayEnd, Replaying, PhaseInv
  <2>2. Same
    BY <2>1, SameStep
  <2>3. \A i \in DOMAIN new : new[i].t # "inst"
    BY <2>2 DEF SameInv, Same
  <2>4. phase' = "idle"
    BY <1>13, <2>3 DEF ReplayEnd
  <2> QED BY <2>1, <2>2, <2>4 DEF SameInv, Same
<1>14. CASE Rebranch
  BY <1>14 DEF Rebranch, Replaying, Same
<1> QED BY <1>2, <1>3, <1>4, <1>5, <1>6, <1>7, <1>8, <1>9, <1>10, <1>11, <1>12, <1>13, <1>14 DEF Next

-----------------------------------------------------------------------------
(* The theorems. *)

LEMMA InitInv == Init => Inv
<1> SUFFICES ASSUME Init PROVE Inv
  OBVIOUS
<1> USE ReplayAssumption DEF Init
<1>1. DOMAIN h.cache = {} /\ DOMAIN traj.cache = {}
  BY DEF NoCache
<1>2. TypeInv
  <2>1. AnswersIn(h.cache) /\ AnswersIn(traj.cache)
    BY <1>1 DEF AnswersIn
  <2>2. <<>> \in Seq(Facts) /\ <<>> \in Seq(Edits)
    OBVIOUS
  <2>3. cur \in [pc : {"rest", "llm", "net", "end"}, obs : Positions, out : Answers \cup {"none"}]
    BY DEF Resting, Positions
  <2>4. traj = [facts |-> traj.facts, cache |-> traj.cache, from |-> traj.from]
    OBVIOUS
  <2>5. h = [mode |-> h.mode, cache |-> h.cache]
    OBVIOUS
  <2>6. st \in Positions /\ extra \in 0 .. MaxExtra /\ replays \in 0 .. MaxReplays
    BY DEF Positions
  <2>7. /\ agent \in Agents /\ drifted \in BOOLEAN /\ phase = "record" /\ why = "none"
        /\ traj.facts = <<>> /\ new = <<>> /\ ivs = <<>> /\ h.mode = "record"
    OBVIOUS
  <2> HIDE DEF Init
  <2> QED BY <2>1, <2>2, <2>3, <2>4, <2>5, <2>6, <2>7 DEF TypeInv
<1>3. PhaseInv /\ ~ Replaying
  BY DEF PhaseInv, Recorded, Running, Resting, Replaying
<1>4. DrawInv
  BY DEF DrawInv, Drew, Draws, NotDrawn, Running, Resting
<1>5. RecordInv /\ FiredInv
  BY DEF RecordInv, RecordedBy, Recorded, Resting, FiredInv
<1> QED BY <1>2, <1>3, <1>4, <1>5 DEF Inv, FollowsParent, CacheInv, SameInv

LEMMA Invariance == Spec => []Inv
<1>1. Inv /\ [Next]_vars => Inv'
  BY TypeKept, PhaseKept, DrawKept, RecordInvKept, FollowKept, CacheKept, FiredKept, SameKept, Zenon DEF Inv
<1> QED BY <1>1, InitInv, PTL DEF Spec

(* In every reachable state a replay draws what the recording drew at the   *)
(* same step, and one whose interventions change nothing is the recording   *)
(* and never raises (engine.py: _advance_rngs_to_match, replay).            *)
THEOREM ReplaysAlign == Spec => []RecordKept
<1>1. ASSUME Inv PROVE RecordKept
  <2>1. TypeOK
    <3>1. \A i \in DOMAIN traj.facts : traj.facts[i] \in Facts
      BY <1>1 DEF Inv, TypeInv
    <3>2. \A i \in DOMAIN new : new[i] \in Facts
      BY <1>1 DEF Inv, TypeInv
    <3>3. \A k \in DOMAIN h.cache : h.cache[k] \in (IF k.op = "llm" THEN Answers ELSE {"quote"})
      BY <1>1, Zenon DEF Inv, TypeInv, AnswersIn, AnswersOf
    <3> QED BY <1>1, <3>1, <3>2, <3>3 DEF Inv, TypeInv, PhaseInv, TypeOK
  <2>2. ASSUME NEW i \in DOMAIN new, i \in DOMAIN traj.facts
        PROVE  /\ new[i] \in Facts /\ traj.facts[i] \in Facts
               /\ new[i].draws.llm = traj.facts[i].draws.llm
               /\ new[i].draws.env = traj.facts[i].draws.env
               /\ agent # "tool" => new[i].draws = traj.facts[i].draws
    <3>1. new[i] \in Facts /\ traj.facts[i] \in Facts
      BY <1>1, <2>2 DEF Inv, TypeInv
    <3>2. Drew(agent, i, new[i].draws) /\ Drew(agent, i, traj.facts[i].draws)
      BY <1>1, <2>2 DEF Inv, DrawInv
    <3> QED BY <3>1, <3>2 DEF Drew, Draws
  <2>3. ASSUME Same
        PROVE  /\ phase # "raised"
               /\ \A i \in DOMAIN new : i \in DOMAIN traj.facts =>
                     /\ Pinned(new[i]) = Pinned(traj.facts[i])
                     /\ agent # "tool" => new[i] = traj.facts[i]
    <3>1. /\ phase # "raised"
          /\ \A i \in DOMAIN new : i \in DOMAIN traj.facts => Pinned(new[i]) = Pinned(traj.facts[i])
      BY <1>1, <2>3 DEF Same, Inv, SameInv
    <3> QED BY <2>2, <3>1, PinnedSame
  <2>4. NoOpIsTheRecording
    BY <2>3 DEF NoOpIsTheRecording, Same, Recorded
  <2>5. Aligned
    BY <2>2 DEF Aligned
  <2> QED BY <2>1, <2>4, <2>5 DEF RecordKept
<1> QED BY <1>1, Invariance, PTL

(* In every reachable state no effect of the recording has been executed    *)
(* again, and a finished counterfactual leaves its parent at the branch     *)
(* point, where its preference pair is taken (effect_handler.py: call;      *)
(* dpo.py: extract_dpo_pair).                                               *)
THEOREM CounterfactualsBranch == Spec => []WorldTouchedOnce
<1>1. ASSUME Inv PROVE WorldTouchedOnce
  <2>1. NothingFiresTwice
    BY <1>1 DEF NothingFiresTwice, Inv, FiredInv, PhaseInv, Recorded, Replaying
  <2>2. BranchesOnce
    <3> SUFFICES ASSUME phase = "idle", why = "replayed" PROVE
           LET b == BranchPoint(ivs)
               pair == DpoPair(traj.facts, new, b, TRUE)
           IN /\ PrefixMatches(traj.facts, new, b)
              /\ \A i \in Diverging(traj.facts, new) : i >= b
              /\ pair.prompt = new[b].llm_in
              /\ pair.chosen # pair.rejected => \E iv \in IvAt(b) : iv.field = "llm_out"
      BY DEF BranchesOnce
    <3> DEFINE b == BranchPoint(ivs)
    <3>1. Replaying
      BY <1>1 DEF Inv, PhaseInv, Replaying
    <3>2. DOMAIN ivs # {} /\ ivs \in Seq(Edits)
      BY <1>1, <3>1 DEF Inv, FollowsParent, TypeInv
    <3>3. b \in 1 .. N /\ IvAt(b) # {} /\ N \in Nat
      BY <3>2, BranchIs, FirstEdit, ReplayAssumption
    <3>4. Len(new) >= N /\ Len(traj.facts) = N /\ Len(new) \in Nat
      BY <1>1, <3>1 DEF Inv, FollowsParent, PhaseInv, TypeInv
    <3>5. DOMAIN traj.facts = 1 .. N /\ DOMAIN new = 1 .. Len(new)
      BY <1>1, <3>4 DEF Inv, TypeInv
    <3>6. \A i \in DOMAIN traj.facts : i \in DOMAIN new /\ FromParent(i, new[i])
      BY <1>1, <3>1, <3>3, <3>4, <3>5 DEF Inv, FollowsParent
    <3> HIDE DEF b
    <3>7. \A i \in 1 .. b - 1 : i \in DOMAIN traj.facts /\ new[i] = traj.facts[i]
      BY <3>3, <3>5, <3>6 DEF FromParent, b
    <3>8. PrefixMatches(traj.facts, new, b)
      BY <3>7 DEF PrefixMatches
    <3>9. \A i \in Diverging(traj.facts, new) : i >= b
      BY <3>3, <3>5, <3>7 DEF Diverging
    <3>10. b \in DOMAIN traj.facts /\ b \in Nat
      BY <3>3, <3>5
    <3>11. PICK iv \in IvAt(b) : new[b] = [Intervened(traj.facts[b], iv) EXCEPT !.draws = Took(b)]
      BY <3>3, <3>6, <3>10 DEF FromParent, b
    <3>12. iv \in Edits
      BY <1>1, <3>2, <3>11, IvAtIs DEF Inv, TypeInv
    <3>13. traj.facts[b] \in Facts
      BY <1>1, <3>10 DEF Inv, TypeInv
    <3>14. Edited(traj.facts[b], iv, b, new[b])
      BY <3>10, <3>11, <3>12, <3>13, IntervenedIs, Zenon
    <3> QED BY <3>8, <3>9, <3>11, <3>14 DEF Edited, DpoPair, b
  <2> QED BY <2>1, <2>2 DEF WorldTouchedOnce
<1> QED BY <1>1, Invariance, PTL

(* In every reachable state one prompt has one answer through a recording   *)
(* and its replay, and a replay that has lost its cache re-executes no step *)
(* of the window (effect_handler.py: call).                                 *)
THEOREM CachePinsAnswers == Spec => []CacheHonest
<1>1. ASSUME Inv PROVE CacheHonest
  <2>1. SamePromptSameAnswer
    <3> SUFFICES ASSUME Replaying, Recorded PROVE
           LET asked == {traj.facts[i] : i \in DOMAIN traj.facts}
                        \cup {new[i] : i \in {j \in DOMAIN new : IvAt(j) = {}}}
           IN \A f, g \in asked : f.llm_in = g.llm_in => f.llm_out = g.llm_out
      BY DEF SamePromptSameAnswer, Recorded
    <3>1. phase # "record"
      BY <1>1 DEF Inv, PhaseInv, Replaying
    <3>2. \A i \in DOMAIN traj.facts : Answered(traj.cache, traj.facts[i].llm_in, traj.facts[i].llm_out)
      BY <1>1, <3>1 DEF Inv, RecordInv, RecordedBy
    <3>3. \A i \in DOMAIN traj.facts : Answered(h.cache, traj.facts[i].llm_in, traj.facts[i].llm_out)
      BY <1>1, <3>2, StillAnswered DEF Inv, CacheInv
    <3>4. \A i \in {j \in DOMAIN new : IvAt(j) = {}} : Answered(h.cache, new[i].llm_in, new[i].llm_out)
      BY <1>1 DEF Inv, CacheInv
    <3> QED BY <3>3, <3>4 DEF Answered
  <2>2. LostCacheIsLoud
    <3> SUFFICES ASSUME Replaying, ~ Recorded, NEW i \in DOMAIN new, i \in DOMAIN traj.facts, i >= BranchPoint(ivs)
                 PROVE  IvAt(i) # {}
      BY DEF LostCacheIsLoud, Recorded
    <3>1. FromParent(i, new[i])
      BY <1>1 DEF Inv, FollowsParent
    <3> QED BY <3>1 DEF FromParent
  <2> QED BY <2>1, <2>2 DEF CacheHonest
<1> QED BY <1>1, Invariance, PTL

=============================================================================
