------------------------------- MODULE Replay -------------------------------
(***************************************************************************)
(* Recording an agent and replaying it under interventions                 *)
(* (src/persistence/replay): the record/replay effect handler, the replay   *)
(* engine, trajectories on the wire, and preference pairs.                 *)
(*                                                                         *)
(* The agent is the caller's code, the world answers its calls as it       *)
(* likes.  Agent and world are written down as the two toy agents of the   *)
(* tests have them: an agent's step draws once from the streams "llm" and  *)
(* "env", asks the model, and may fetch; its answer is its action.  Agent  *)
(* "obs" prompts with the observation alone; agent "state" also with what  *)
(* it holds, picks a larger model when it holds something, and fetches a   *)
(* quote before it trades; agent "tool" is like "obs" and draws from the   *)
(* third stream as well.  An observation stands for a price, a position is *)
(* the price paid.                                                         *)
(***************************************************************************)
EXTENDS Integers, Sequences, FiniteSets, TLC

CONSTANTS
    N,            \* steps of the recording
    MaxIvs,       \* interventions of one replay
    MaxExtra,     \* observations past the recorded window
    MaxReplays    \* replays, each of the recording or of the one before

ASSUME ReplayAssumption ==
    N \in Nat \ {0} /\ MaxIvs \in Nat \ {0} /\ MaxExtra \in Nat /\ MaxReplays \in Nat

VARIABLES
    agent,    \* which agent runs
    drifted,  \* has its prompt template changed since the recording?
    phase,    \* "record", "idle", "replay", "extra", "raised"
    why,      \* how the last recording or replay ended
    traj,     \* the trajectory on hand: facts, effect cache, provenance
    new,      \* the facts of the recording or replay under way
    h,        \* the EffectHandler: mode and cache
    st,       \* the agent's state
    rng,      \* draws taken from each stream: llm, tool, env
    cur,      \* the agent's step under way
    ivs,      \* interventions of this replay, in the order given
    extra,    \* observations still to extrapolate over
    fired,    \* ghost: the effects executed, and in which phase
    replays

vars == <<agent, drifted, phase, why, traj, new, h, st, rng, cur, ivs, extra, fired, replays>>

Agents == {"obs", "state", "tool"}
Obs == {"chop", "trend"}
Answers == {"wait", "trade"}
Positions == Obs \cup {"none"}
Fields == [action |-> Answers, obs |-> Obs, llm_out |-> Answers, state |-> Positions]
\* Fault: the names lack the catalog's prefix, as they once did.
NON_REPLAYABLE_OPS_Bare == {":net"}
NON_REPLAYABLE_OPS == {"net"}
PROMPT_HASH_OPS == {"llm"}
NoCache == [x \in {} |-> ""]
NotDrawn == [llm |-> 0, tool |-> 0, env |-> 0]
Resting == [pc |-> "rest", obs |-> "none", out |-> "none"]

Prompt(a, drift, o, s) ==
    [template |-> drift, obs |-> o, holds |-> IF a = "state" THEN s ELSE "none"]

LlmKey(a, drift, o, s) ==
    [op |-> "llm", prompt |-> Prompt(a, drift, o, s),
     other |-> IF a = "state" /\ s # "none" THEN "large" ELSE "small"]

NetKey(s) == [op |-> "net", prompt |-> Prompt("obs", FALSE, "none", s), other |-> s]

Apply(s, o, act) == IF act = "wait" THEN s ELSE IF s = "none" THEN o ELSE "none"

FactOf(s, o, key, out, draws) ==
    [state |-> s, obs |-> o, llm_in |-> key, llm_out |-> out, action |-> out,
     draws |-> draws, t |-> "tick"]

(* An :llm/call that was not seen, though one with the same other arguments *)
(* was.  The log of calls grows with the cache, simulated calls included,   *)
(* so the cache's keys stand for it.                                        *)
Drift(c, key) ==
    /\ key.op \in PROMPT_HASH_OPS
    /\ \E seen \in DOMAIN c : seen.op = key.op /\ seen.other = key.other

\* Fault: no check for an empty cache.
ServeOrMiss_Simulates(mode, c, key) ==
    IF key \in DOMAIN c THEN "hit"
    ELSE IF mode = "replay" /\ key.op \in NON_REPLAYABLE_OPS THEN "refused"
    ELSE IF mode = "replay" /\ Drift(c, key) THEN "mismatch" ELSE "execute"
ServeOrMiss(mode, c, key) ==
    CASE key \in DOMAIN c                                    -> "hit"
      [] key \notin DOMAIN c /\ mode = "record"              -> "execute"
      [] key \notin DOMAIN c /\ mode = "replay"
           /\ key.op \in NON_REPLAYABLE_OPS                  -> "refused"
      [] OTHER -> IF Drift(c, key) THEN "mismatch"
                  ELSE IF c = NoCache THEN "miss" ELSE "execute"

Init ==
    /\ agent \in Agents
    /\ drifted = FALSE
    /\ phase = "record" /\ why = "none"
    /\ traj = [facts |-> <<>>, cache |-> NoCache, from |-> "recording"]
    /\ new = <<>>
    /\ h = [mode |-> "record", cache |-> NoCache]
    /\ st = "none" /\ rng = NotDrawn
    /\ cur = Resting
    /\ ivs = <<>> /\ extra = 0
    /\ fired = {} /\ replays = 0

-----------------------------------------------------------------------------
(* The intervention that applies at step k: a later one of the list         *)
(* replaces an earlier one at the same step.                                *)
IvAt(k) ==
    LET at == {i \in DOMAIN ivs : ivs[i].step = k}
    IN {ivs[i] : i \in {j \in at : \A l \in at : l <= j}}

BranchPoint(list) ==
    CHOOSE b \in {list[i].step : i \in DOMAIN list} : \A i \in DOMAIN list : b <= list[i].step

Drawn(a, r) == [llm |-> r.llm + 1, tool |-> IF a = "tool" THEN r.tool + 1 ELSE r.tool,
                env |-> r.env + 1]

(* The observations the agent's next step may get.  *)
NextObs ==
    CASE phase = "record" /\ Len(new) < N -> Obs
      [] phase = "extra" /\ extra > 0     -> Obs
      [] phase = "replay" /\ Len(new) + 1 \in BranchPoint(ivs) .. Len(traj.facts) /\ IvAt(Len(new) + 1) = {}
                                          -> {traj.facts[Len(new) + 1].obs}
      [] OTHER                            -> {}

(* agent_step_fn is called: it draws, and is about to ask the model. *)
StepBegin ==
    /\ cur = Resting
    /\ \E o \in NextObs : cur' = [Resting EXCEPT !.pc = "llm", !.obs = o]
    /\ rng' = Drawn(agent, rng)
    /\ extra' = IF phase = "extra" THEN extra - 1 ELSE extra
    /\ UNCHANGED <<agent, drifted, phase, why, traj, new, h, st, ivs, fired, replays>>

\* Fault: an answer is not kept.
Remembered_Not(c, key, ans) == c
(* The world answers a call that is executed; its answer is cached.         *)
Remembered(c, key, ans) == [k \in DOMAIN c \cup {key} |-> IF k = key THEN ans ELSE c[k]]

(* handler.call: served from the cache, executed, or refused; next gives    *)
(* how the step goes on with each answer.                                   *)
Call(key, next) ==
    LET verdict == ServeOrMiss(h.mode, h.cache, key)
    IN \/ /\ verdict = "hit"
          /\ cur' = next[h.cache[key]]
          /\ UNCHANGED <<h, fired, phase, why>>
       \/ /\ verdict = "execute"
          /\ \E ans \in DOMAIN next : /\ cur' = next[ans]
                                      /\ h' = [h EXCEPT !.cache = Remembered(@, key, ans)]
          /\ fired' = fired \cup {[in |-> phase, key |-> key]}
          /\ UNCHANGED <<phase, why>>
       \/ /\ verdict \notin {"hit", "execute"}
          /\ phase' = "raised" /\ why' = verdict
          /\ cur' = Resting
          /\ UNCHANGED <<h, fired>>

AskModel ==
    /\ cur.pc = "llm"
    /\ Call(LlmKey(agent, drifted, cur.obs, st),
            [ans \in Answers |-> [cur EXCEPT !.out = ans,
                                  !.pc = IF agent = "state" /\ ans = "trade" THEN "net" ELSE "end"]])
    /\ UNCHANGED <<agent, drifted, traj, new, st, rng, ivs, extra, replays>>

Fetch ==
    /\ cur.pc = "net"
    /\ Call(NetKey(st), [ans \in {"quote"} |-> [cur EXCEPT !.pc = "end"]])
    /\ UNCHANGED <<agent, drifted, traj, new, st, rng, ivs, extra, replays>>

StepEnd ==
    /\ cur.pc = "end"
    /\ new' = Append(new, FactOf(st, cur.obs, LlmKey(agent, drifted, cur.obs, st), cur.out, rng))
    /\ st' = Apply(st, cur.obs, cur.out)
    /\ cur' = Resting
    /\ UNCHANGED <<agent, drifted, phase, why, traj, h, rng, ivs, extra, fired, replays>>

RecordEnd ==
    /\ phase = "record" /\ cur = Resting /\ Len(new) = N
    /\ traj' = [facts |-> new, cache |-> h.cache, from |-> "recording"]
    /\ phase' = "idle" /\ why' = "recorded"
    /\ UNCHANGED <<agent, drifted, new, h, st, rng, cur, ivs, extra, fired, replays>>

(* to_edn then from_edn: the effect cache and the log of calls are not on   *)
(* the wire, and a logical tick comes back as an instant.                   *)
OverTheWire(tr) ==
    [facts |-> [i \in DOMAIN tr.facts |-> [tr.facts[i] EXCEPT !.t = "inst"]],
     cache |-> NoCache, from |-> "wire"]

Ship ==
    /\ phase = "idle" /\ traj.from = "recording" /\ replays = 0
    /\ traj' = OverTheWire(traj)
    /\ UNCHANGED <<agent, drifted, phase, why, new, h, st, rng, cur, ivs, extra, fired, replays>>

-----------------------------------------------------------------------------
Interventions == {[step |-> s, field |-> f, value |-> v] : s \in DOMAIN traj.facts, f \in DOMAIN Fields,
                                                           v \in UNION {Fields[g] : g \in DOMAIN Fields}}
Sensible == {iv \in Interventions : iv.value \in Fields[iv.field]}

\* Fault: the recorded cache is not handed over.
ReplayHandler_Empty(tr) == [mode |-> "replay", cache |-> NoCache]
(* The handler of a replay starts from a copy of the recorded cache.        *)
ReplayHandler(tr) == [mode |-> "replay", cache |-> tr.cache]

(* The counterfactual has no cache of its own: replayed in turn, it starts  *)
(* from none.                                                               *)
ReplayBegin ==
    /\ phase = "idle" /\ replays < MaxReplays
    /\ \E n \in 1 .. MaxIvs : ivs' \in [1 .. n -> Sensible]
    /\ extra' \in 0 .. MaxExtra
    /\ drifted' \in BOOLEAN
    /\ new' = <<>>
    /\ h' = ReplayHandler(traj)
    /\ st' = traj.facts[1].state
    /\ rng' = NotDrawn
    /\ phase' = "replay" /\ why' = "none"
    /\ replays' = replays + 1
    /\ UNCHANGED <<agent, traj, cur, fired>>

\* Fault: one stream is not advanced.
Skipped_Model(r) == [r EXCEPT !.env = @ + 1]
(* _advance_rngs_to_match, and the same in _apply_intervention: for a step  *)
(* that is not executed one draw is taken from two of the three streams.    *)
Skipped(r) == [llm |-> r.llm + 1, tool |-> r.tool, env |-> r.env + 1]

(* Before the branch point facts are copied. *)
CopyPrefix ==
    /\ phase = "replay" /\ cur = Resting /\ Len(new) + 1 < BranchPoint(ivs)
    /\ LET orig == traj.facts[Len(new) + 1]
       IN /\ new' = Append(new, orig)
          /\ st' = Apply(st, orig.obs, orig.action)
    /\ rng' = Skipped(rng)
    /\ UNCHANGED <<agent, drifted, phase, why, traj, h, cur, ivs, extra, fired, replays>>

\* Fault: the answer is rewritten with the action.
Intervened_Both(orig, iv) ==
    IF iv.field = "action" THEN [orig EXCEPT !.action = iv.value, !.llm_out = iv.value]
    ELSE [orig EXCEPT ![iv.field] = iv.value]
Intervened(orig, iv) == [orig EXCEPT ![iv.field] = iv.value]

Intervene ==
    /\ phase = "replay" /\ cur = Resting /\ Len(new) + 1 \in BranchPoint(ivs) .. Len(traj.facts)
    /\ \E iv \in IvAt(Len(new) + 1) :
         LET draws == [Skipped(rng) EXCEPT !.tool = 0]       \* random_draws has none
             fact  == [Intervened(traj.facts[Len(new) + 1], iv) EXCEPT !.draws = draws]
         IN /\ new' = Append(new, fact)
            /\ st' = Apply(st, fact.obs, fact.action)
    /\ rng' = Skipped(rng)
    /\ UNCHANGED <<agent, drifted, phase, why, traj, h, cur, ivs, extra, fired, replays>>

\* Fault: the handler stays in replay mode.
Extrapolating_Not(hd) == hd
(* Past the recorded window effects are executed: the handler goes to       *)
(* record mode and keeps its cache.                                         *)
Extrapolating(hd) == [hd EXCEPT !.mode = "record"]

Extrapolate ==
    /\ phase = "replay" /\ cur = Resting /\ Len(new) = Len(traj.facts) /\ extra > 0
    /\ phase' = "extra"
    /\ h' = Extrapolating(h)
    /\ UNCHANGED <<agent, drifted, why, traj, new, st, rng, cur, ivs, extra, fired, replays>>

(* The counterfactual is hashed; an instant has no JSON form.               *)
ReplayEnd ==
    /\ phase \in {"replay", "extra"} /\ cur = Resting /\ Len(new) >= Len(traj.facts) /\ extra = 0
    /\ IF \E i \in DOMAIN new : new[i].t = "inst"
       THEN phase' = "raised" /\ why' = "unhashable"
       ELSE phase' = "idle" /\ why' = "replayed"
    /\ UNCHANGED <<agent, drifted, traj, new, h, st, rng, cur, ivs, extra, fired, replays>>

(* A finished counterfactual is taken up as the trajectory to replay.       *)
(* Bound: one that was not extrapolated.                                    *)
Rebranch ==
    /\ phase = "idle" /\ why = "replayed" /\ replays < MaxReplays /\ Len(new) = N /\ ~drifted
    /\ traj' = [facts |-> new, cache |-> NoCache, from |-> "replay"]
    /\ why' = "none"
    /\ UNCHANGED <<agent, drifted, phase, new, h, st, rng, cur, ivs, extra, fired, replays>>

Next ==
    \/ StepBegin \/ AskModel \/ Fetch \/ StepEnd \/ RecordEnd \/ Ship
    \/ ReplayBegin \/ CopyPrefix \/ Intervene \/ Extrapolate \/ ReplayEnd \/ Rebranch

Spec == Init /\ [][Next]_vars

-----------------------------------------------------------------------------
Facts == [state : Positions, obs : Obs, llm_out : Answers, action : Answers, t : {"tick", "inst"},
          draws : [llm : Nat, tool : Nat, env : Nat], llm_in : {LlmKey(a, d, o, s) : a \in Agents,
                                                    d \in BOOLEAN, o \in Obs, s \in Positions}]

(* The variables hold what the code can hold.  (trajectory.py, engine.py)   *)
TypeOK ==
    /\ agent \in Agents /\ drifted \in BOOLEAN
    /\ phase \in {"record", "idle", "replay", "extra", "raised"}
    /\ why \in {"none", "recorded", "replayed", "refused", "mismatch", "miss", "unhashable"}
    /\ \A i \in DOMAIN traj.facts : traj.facts[i] \in Facts
    /\ \A i \in DOMAIN new : new[i] \in Facts
    /\ phase = "replay" => h.mode = "replay"
    /\ phase \in {"record", "extra"} => h.mode = "record"
    /\ st \in Positions
    /\ \A k \in DOMAIN h.cache : h.cache[k] \in (IF k.op = "llm" THEN Answers ELSE {"quote"})
    /\ cur.pc \in {"rest", "llm", "net", "end"}
    /\ extra \in 0 .. MaxExtra /\ replays \in 0 .. MaxReplays

Replaying == replays > 0 /\ (phase \in {"replay", "extra", "raised"} \/ why = "replayed")
NoOp == \A i \in DOMAIN ivs : traj.facts[ivs[i].step][ivs[i].field] = ivs[i].value

(* A fact but for its draw from the tool stream.                            *)
Pinned(f) == [f EXCEPT !.draws = <<@.llm, @.env>>]

(* A replay of the recording whose interventions change nothing gives back  *)
(* the recording and never raises: what the engine calls its invariant      *)
(* (engine.py:3).  The draws are included, but for those an agent takes     *)
(* from the tool stream.                                                    *)
NoOpIsTheRecording ==
    Replaying /\ traj.from = "recording" /\ NoOp /\ ~drifted =>
        /\ phase # "raised"
        /\ \A i \in DOMAIN new : i \in DOMAIN traj.facts =>
              /\ Pinned(new[i]) = Pinned(traj.facts[i])
              /\ agent # "tool" => new[i] = traj.facts[i]

(* Every step of a counterfactual has taken the draws that step took in     *)
(* the recording from the streams llm and env, whichever interventions came *)
(* before: aligned randomness, of any agent.                                *)
Aligned ==
    Replaying => \A i \in DOMAIN new : i \in DOMAIN traj.facts =>
        /\ new[i].draws.llm = traj.facts[i].draws.llm
        /\ new[i].draws.env = traj.facts[i].draws.env

(* "Depends on the convention that agent_step takes exactly one draw per    *)
(* domain per step" (engine.py:56-61): with an agent that keeps to it, in   *)
(* all three domains of _mk_rngs (engine.py:47-52), a step that is executed *)
(* again takes the draws it took in the recording.  The stream of the tool  *)
(* domain is not advanced for the steps before it.                          *)
EveryDomainAligned ==
    Replaying /\ agent = "tool" =>
        \A i \in DOMAIN new : i \in DOMAIN traj.facts /\ IvAt(i) = {} =>
            new[i].draws = traj.facts[i].draws

(* Nothing the recording executed is executed again, neither in the window  *)
(* nor past it, and the window never executes a call that must not be       *)
(* replayed: as long as the trajectory still has its cache.                 *)
NothingFiresTwice ==
    Replaying /\ traj.from = "recording" =>
        \A f \in fired : /\ f.in \in {"replay", "extra"} => f.key \notin DOMAIN traj.cache
                         /\ f.in = "replay" => f.key.op # "net"

(* One prompt has one answer, through the recording and its counterfactual: *)
(* recorded answers are pinned, simulated ones are kept.                    *)
SamePromptSameAnswer ==
    Replaying /\ traj.from = "recording" =>
        LET asked == {traj.facts[i] : i \in DOMAIN traj.facts}
                     \cup {new[i] : i \in {j \in DOMAIN new : IvAt(j) = {}}}
        IN \A f, g \in asked : f.llm_in = g.llm_in => f.llm_out = g.llm_out

(* A trajectory that has lost its cache is never replayed by asking the     *)
(* model again: the replay raises at its first re-executed step, or has     *)
(* none (effect_handler.py:129 "so they notice").                           *)
LostCacheIsLoud ==
    Replaying /\ traj.from # "recording" =>
        \A i \in DOMAIN new : i \in DOMAIN traj.facts /\ i >= BranchPoint(ivs) => IvAt(i) # {}

(* compare(): the first step whose actions differ.                          *)
Diverging(a, b) == {i \in DOMAIN a \cap DOMAIN b : a[i].action # b[i].action}
PrefixMatches(a, b, upto) ==
    \A k \in 1 .. upto - 1 : /\ a[k].state = b[k].state /\ a[k].obs = b[k].obs
                             /\ a[k].llm_out = b[k].llm_out /\ a[k].action = b[k].action

(* extract_dpo_pair: the answers at the branch point, the better outcome's  *)
(* first.                                                                   *)
DpoPair(a, b, branch, better) ==
    [prompt |-> a[branch].llm_in,
     chosen |-> IF better THEN b[branch].llm_out ELSE a[branch].llm_out,
     rejected |-> IF better THEN a[branch].llm_out ELSE b[branch].llm_out]

(* A finished counterfactual leaves its parent at the branch point and not  *)
(* before, and a preference pair made of the two compares answers to one    *)
(* prompt, which differ only if it is the answer that was intervened on.    *)
BranchesOnce ==
    phase = "idle" /\ why = "replayed" =>
        LET b == BranchPoint(ivs)
            pair == DpoPair(traj.facts, new, b, TRUE)
        IN /\ PrefixMatches(traj.facts, new, b)
           /\ \A i \in Diverging(traj.facts, new) : i >= b
           /\ pair.prompt = new[b].llm_in
           /\ pair.chosen # pair.rejected => \E iv \in IvAt(b) : iv.field = "llm_out"

(* Every intervention the counterfactual's lineage lists was applied: what  *)
(* engine.py:170 says.                                                      *)
LineageIsApplied ==
    phase = "idle" /\ why = "replayed" =>
        \A i \in DOMAIN ivs : new[ivs[i].step][ivs[i].field] = ivs[i].value

(* A counterfactual differs from its recording by the interventions only, in*)
(* facts and in the draws that the engine aligns.                           *)
RecordKept ==
    /\ TypeOK
    /\ NoOpIsTheRecording
    /\ Aligned

(* Up to its branch point a counterfactual is its parent, and it executes   *)
(* nothing that the parent did.                                             *)
WorldTouchedOnce ==
    /\ NothingFiresTwice
    /\ BranchesOnce

(* Recorded answers are given where they belong, and missed aloud.          *)
CacheHonest ==
    /\ SamePromptSameAnswer
    /\ LostCacheIsLoud
=============================================================================
