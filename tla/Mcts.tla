-------------------------------- MODULE Mcts --------------------------------
(***************************************************************************)
(* Tree search over plans (src/persistence/plan/_mcts.py) and the rows it    *)
(* leaves in the fact store (_mcts_datoms.py).                             *)
(*                                                                         *)
(* A plan is a small tree, identified by its content.  The expander and    *)
(* the evaluator are the caller's: the expander proposes any list of at    *)
(* most K actions, or breaks its contract; the evaluator scores or fails.  *)
(* Which child the PUCT formula prefers is left open: any child may be     *)
(* selected, the same one whenever an iteration comes by.  A proposal may  *)
(* repeat another, be rejected, or make a plan the search already has.     *)
(* A hash is the content it is taken of.                                   *)
(***************************************************************************)
EXTENDS Integers, Sequences, FiniteSets, SequencesExt

CONSTANTS
    InitialPlan,
    Actions,           \* the actions an expander may propose
    SkillPlans,        \* registered skills: name to plan
    MAX_PLAN_DEPTH,
    K,                 \* expander_k
    MaxIter, MaxUniquePlans, RegretThreshold, RegretWindow,   \* MCTSConfig
    Scores             \* what an evaluator may return

ASSUME MctsAssumption ==
    /\ MAX_PLAN_DEPTH \in Nat \ {0} /\ K \in Nat /\ MaxIter \in Nat /\ MaxUniquePlans \in Nat
    /\ RegretWindow \in Nat \ {0} /\ Scores \subseteq Int

VARIABLES
    pc,        \* where the loop stands
    tree,      \* transposition: plan to its node
    known,     \* evaluator_cache: plan to score
    iter,      \* iter_index
    tried,     \* eval_attempts and eval_failures
    streak,    \* simple_regret_streak
    node,      \* the node SELECT has reached
    path,      \* the edges it went through
    pending,   \* rows of this iteration
    prev,      \* prev_hash
    log,       \* rows in the fact store
    backups,   \* ghost: iterations that backed a score up
    result     \* why the search ended, and its winner

vars == <<pc, tree, known, iter, tried, streak, node, path, pending, prev, log, backups, result>>

-----------------------------------------------------------------------------
(* Plans and the actions on them. *)
RECURSIVE PlanDepth(_), NodeIds(_), ReplaceAtPath(_, _, _), HasPath(_, _), At(_, _)

PlanDepth(p) ==
    IF p.kids = <<>> THEN 1
    ELSE LET depths == {PlanDepth(p.kids[i]) : i \in DOMAIN p.kids}
         IN 1 + CHOOSE d \in depths : \A e \in depths : e <= d

NodeIds(p) == {p} \cup UNION {NodeIds(p.kids[i]) : i \in DOMAIN p.kids}

HasPath(p, at) ==
    at = <<>> \/ (Head(at) \in DOMAIN p.kids /\ HasPath(p.kids[Head(at)], Tail(at)))

At(p, at) == IF at = <<>> THEN p ELSE At(p.kids[Head(at)], Tail(at))

ReplaceAtPath(p, at, new) ==
    IF at = <<>> THEN new
    ELSE [p EXCEPT !.kids[Head(at)] = ReplaceAtPath(@, Tail(at), new)]

Accepted(p) == [plan |-> p, reason |-> "ok"]
Rejected(why) == [plan |-> InitialPlan, reason |-> why]

AddStep(p, a) ==
    IF HasPath(p, a.path) /\ a.at \in 1 .. Len(At(p, a.path).kids) + 1
    THEN Accepted(ReplaceAtPath(p, a.path, [At(p, a.path) EXCEPT !.kids = InsertAt(@, a.at, a.arg)]))
    ELSE Rejected("plan_construction_raised")

SubstituteLeaf(p, a) ==
    IF HasPath(p, a.path) THEN Accepted(ReplaceAtPath(p, a.path, a.arg))
    ELSE Rejected("plan_construction_raised")

ComposeWithSkill(p, a) ==
    IF a.skill \notin DOMAIN SkillPlans THEN Rejected("skill_not_registered")
    ELSE LET skill == SkillPlans[a.skill]
         IN CASE PlanDepth(skill) > MAX_PLAN_DEPTH \div 2 -> Rejected("plan_too_deep")
              [] PlanDepth(skill) <= MAX_PLAN_DEPTH \div 2 /\ p \in NodeIds(skill)
                                          -> Rejected("compose_creates_cycle")
              [] OTHER -> IF HasPath(p, a.path)
                          THEN Accepted(ReplaceAtPath(p, a.path,
                                        [skill EXCEPT !.kids = <<At(p, a.path)>> \o @]))
                          ELSE Rejected("plan_construction_raised")

ApplyAction(p, a) ==
    LET made == CASE a.kind = "substitute" -> SubstituteLeaf(p, a)
                  [] a.kind = "add"        -> AddStep(p, a)
                  [] a.kind = "compose"    -> ComposeWithSkill(p, a)
    IN IF made.reason = "ok" /\ PlanDepth(made.plan) > MAX_PLAN_DEPTH
       THEN Rejected("plan_too_deep") ELSE made

-----------------------------------------------------------------------------
(* Rows of provenance, each linked to the content of the row before it.     *)
Row(phase, i, p, acts, score, reason) ==
    [phase |-> phase, iter |-> i, plan |-> p, acts |-> acts, score |-> score, reason |-> reason]

Summary == Row("start", 0, InitialPlan, <<>>, 0, "")

(* iter_id: the entity a row's facts are about. *)
IterId_NoIter(row) == <<row.phase, row.plan, IF row.phase = "reject" THEN row.reason ELSE "">>

IterId(row) == <<row.iter, row.phase, row.plan, IF row.phase = "reject" THEN row.acts ELSE <<>>>>

Linked(rows, before) ==
    [i \in DOMAIN rows |-> [row |-> rows[i], prev |-> IF i = 1 THEN before ELSE rows[i - 1]]]

HashAfter_First(rows, before) == IF rows = <<>> THEN before ELSE Head(rows)

HashAfter(rows, before) == IF rows = <<>> THEN before ELSE Last(rows)

FreshNode == [visits |-> 0, total |-> 0, edges |-> <<>>, terminal |-> FALSE]
FreshEdge(a, child) == [act |-> a, child |-> child, visits |-> 0, total |-> 0]

Init ==
    /\ pc = "check" /\ log = <<>>
    /\ tree = [p \in {InitialPlan} |-> FreshNode]
    /\ known = [p \in {} |-> 0]
    /\ iter = 0 /\ tried = [attempts |-> 0, failures |-> 0] /\ streak = 0
    /\ node = InitialPlan /\ path = <<>>
    /\ pending = <<>> /\ prev = Summary
    /\ backups = 0
    /\ result = [by |-> "none", winner |-> InitialPlan]

StartOver ==
    /\ tree' = [p \in {InitialPlan} |-> FreshNode]
    /\ known' = [p \in {} |-> 0]
    /\ iter' = 0 /\ tried' = [attempts |-> 0, failures |-> 0] /\ streak' = 0
    /\ node' = InitialPlan /\ path' = <<>>
    /\ pending' = <<>> /\ prev' = Summary
    /\ backups' = 0
    /\ result' = [by |-> "none", winner |-> InitialPlan]

-----------------------------------------------------------------------------
(* Termination, checked before each iteration.                              *)
Root == tree[InitialPlan]

(* top1 and top2: the most visited edges, earlier ones first.               *)
Leads(edges, i, j) ==
    edges[i].visits > edges[j].visits \/ (edges[i].visits = edges[j].visits /\ i < j)

TopTwo(edges) ==
    {ij \in (DOMAIN edges) \X (DOMAIN edges) :
        /\ Leads(edges, ij[1], ij[2])
        /\ \A l \in DOMAIN edges \ {ij[1], ij[2]} : Leads(edges, ij[2], l)}

Weight(e) == IF e.visits = 0 THEN 1 ELSE e.visits
(* q(d) - q(e) >= t, with q = total / visits and 0 for an unvisited edge.    *)
QGap(d, e, t) == d.total * Weight(e) - e.total * Weight(d) >= t * Weight(d) * Weight(e)

RegretLooked == iter >= RegretWindow /\ Len(Root.edges) >= 2
RegretClear == \E ij \in TopTwo(Root.edges) :
                   QGap(Root.edges[ij[1]], Root.edges[ij[2]], RegretThreshold)
StreakNow == IF ~RegretLooked THEN streak ELSE IF RegretClear THEN streak + 1 ELSE 0

Verdict ==
    CASE iter >= MaxIter -> "max_iter"
      [] iter < MaxIter /\ Cardinality(DOMAIN tree) >= MaxUniquePlans -> "max_unique_plans"
      [] OTHER -> IF RegretLooked /\ RegretClear /\ StreakNow >= RegretWindow THEN "simple_regret"
                  ELSE IF tried.attempts > 0 /\ tried.attempts = tried.failures
                  THEN "all_evaluations_failed" ELSE "go on"

Stop ==
    /\ pc = "check" /\ Verdict # "go on"
    /\ pc' = "finish" /\ result' = [result EXCEPT !.by = Verdict]
    /\ UNCHANGED <<tree, known, iter, tried, streak, node, path, pending, prev, log, backups>>

BeginIteration ==
    /\ pc = "check" /\ Verdict = "go on"
    /\ pc' = "select" /\ streak' = StreakNow
    /\ node' = InitialPlan /\ path' = <<>>
    /\ pending' = IF iter = 0 THEN Linked(<<Summary>>, Summary) ELSE <<>>
    /\ UNCHANGED <<tree, known, iter, tried, prev, log, backups, result>>

Inner(p) == tree[p].edges # <<>> /\ ~tree[p].terminal

OnPath(p) == {i \in DOMAIN path : path[i].at = p}
Through(p, e) == {i \in DOMAIN path : path[i].at = p /\ path[i].edge = e}

Select ==
    /\ pc = "select" /\ Inner(node) /\ OnPath(node) = {}
    /\ \E i \in DOMAIN tree[node].edges :
         /\ path' = Append(path, [at |-> node, edge |-> i])
         /\ node' = tree[node].edges[i].child
    /\ UNCHANGED <<pc, tree, known, iter, tried, streak, pending, prev, log, backups, result>>

(* No count changes during SELECT, so at a plan it has passed it chooses    *)
(* as before, for ever; of the path this makes, one round is kept.          *)
GoRound ==
    /\ pc = "select" /\ Inner(node)
    /\ \E i \in OnPath(node) : node' = tree[node].edges[path[i].edge].child
    /\ UNCHANGED <<pc, tree, known, iter, tried, streak, path, pending, prev, log, backups, result>>

(* A leaf that was found to be terminal is not asked about again.           *)
Selected ==
    /\ pc = "select" /\ tree[node].terminal
    /\ pc' = "evaluate"
    /\ UNCHANGED <<tree, known, iter, tried, streak, node, path, pending, prev, log, backups, result>>

Outcome(ps, i) == ApplyAction(node, ps[i])

Proposals == UNION {[1 .. n -> Actions] : n \in 0 .. K}

GoodOnes(ps) ==
    SelectSeq([i \in DOMAIN ps |-> i],
              LAMBDA i : Outcome(ps, i).reason = "ok" /\ \A j \in 1 .. i - 1 : ps[j] # ps[i])
BadOnes(ps) == SelectSeq([i \in DOMAIN ps |-> i], LAMBDA i : Outcome(ps, i).reason # "ok")

(* The row of the expansion, then one for each rejected proposal.           *)
ExpandRows(ps) ==
    <<Row("expand", iter, node, ps, 0, "")>>
    \o [i \in DOMAIN BadOnes(ps) |->
          LET b == BadOnes(ps)[i]
          IN Row("reject", iter, node, <<ps[b]>>, 0, Outcome(ps, b).reason)]

EdgesOf(ps) ==
    [i \in DOMAIN GoodOnes(ps) |->
        FreshEdge(ps[GoodOnes(ps)[i]], Outcome(ps, GoodOnes(ps)[i]).plan)]

(* _populate_children: a child that is a plan already seen shares its node. *)
Populated_Overwrites(ps) ==
    LET edges == EdgesOf(ps)
        new == {edges[i].child : i \in DOMAIN edges}
        grown == [p \in DOMAIN tree \cup new |-> IF p \in new \ {node} THEN FreshNode ELSE tree[p]]
    IN [grown EXCEPT ![node] = [@ EXCEPT !.edges = edges, !.terminal = edges = <<>>]]

Populated(ps) ==
    LET edges == EdgesOf(ps)
        new == {edges[i].child : i \in DOMAIN edges} \ DOMAIN tree
        grown == [p \in DOMAIN tree \cup new |-> IF p \in new THEN FreshNode ELSE tree[p]]
    IN [grown EXCEPT ![node] = [@ EXCEPT !.edges = edges, !.terminal = edges = <<>>]]

Expand ==
    /\ pc = "select" /\ ~Inner(node) /\ ~tree[node].terminal
    /\ \E ps \in Proposals :
         /\ tree' = Populated(ps)
         /\ pending' = pending \o Linked(ExpandRows(ps), prev)
         /\ prev' = HashAfter(ExpandRows(ps), prev)
         /\ pc' = IF iter = 0 /\ EdgesOf(ps) = <<>> THEN "exhausted" ELSE "evaluate"
    /\ UNCHANGED <<known, iter, tried, streak, node, path, log, backups, result>>

(* db.transact of the iteration's rows. *)
Flushed_Newest(rows) == IF rows = <<>> THEN log ELSE Append(log, Last(rows))

Flushed(rows) == log \o rows

Exhausted ==
    /\ pc = "exhausted"
    /\ log' = Flushed(pending) /\ pending' = <<>>
    /\ iter' = iter + 1
    /\ pc' = "finish" /\ result' = [result EXCEPT !.by = "exhausted"]
    /\ UNCHANGED <<tree, known, tried, streak, node, path, prev, backups>>

Evaluate_Twice ==
    /\ pc = "evaluate"
    /\ tried' = [tried EXCEPT !.attempts = @ + 1]
    /\ \E score \in Scores :
         LET rows == <<Row("evaluate", iter, node, <<>>, score, "")>>
         IN /\ known' = [p \in DOMAIN known \cup {node} |-> IF p = node THEN score ELSE known[p]]
            /\ pending' = pending \o Linked(rows, prev)
            /\ prev' = HashAfter(rows, prev)
    /\ pc' = "backup"
    /\ UNCHANGED <<tree, iter, streak, node, path, log, backups, result>>

Evaluate ==
    /\ pc = "evaluate" /\ node \notin DOMAIN known
    /\ tried' = [tried EXCEPT !.attempts = @ + 1]
    /\ \E score \in Scores :
         LET rows == <<Row("evaluate", iter, node, <<>>, score, "")>>
         IN /\ known' = [p \in DOMAIN known \cup {node} |-> IF p = node THEN score ELSE known[p]]
            /\ pending' = pending \o Linked(rows, prev)
            /\ prev' = HashAfter(rows, prev)
    /\ pc' = "backup"
    /\ UNCHANGED <<tree, iter, streak, node, path, log, backups, result>>

EvaluateCached ==
    /\ pc = "evaluate" /\ node \in DOMAIN known
    /\ pc' = "backup"
    /\ UNCHANGED <<tree, known, iter, tried, streak, node, path, pending, prev, log, backups, result>>

EvaluateFails_Retry ==
    /\ pc = "evaluate" /\ node \notin DOMAIN known
    /\ pending' = <<>> /\ pc' = "check"
    /\ UNCHANGED <<tree, known, iter, tried, streak, node, path, prev, log, backups, result>>

(* It raised, returned None, or a score that is not finite: the iteration   *)
(* ends without a backup.                                                   *)
EvaluateFails ==
    /\ pc = "evaluate" /\ node \notin DOMAIN known
    /\ tried' = [attempts |-> tried.attempts + 1, failures |-> tried.failures + 1]
    /\ LET rows == <<Row("reject", iter, node, <<>>, 0, "evaluator_raised")>>
       IN /\ log' = Flushed(pending \o Linked(rows, prev))
          /\ prev' = HashAfter(rows, prev)
    /\ pending' = <<>> /\ iter' = iter + 1 /\ pc' = "check"
    /\ UNCHANGED <<tree, known, streak, node, path, backups, result>>

(* One visit for every node passed, and for the one that was reached.       *)
VisitsOf_Path(p) == Cardinality(OnPath(p))

VisitsOf(p) == Cardinality(OnPath(p)) + (IF p = node THEN 1 ELSE 0)

BackedUp(score) ==
    [p \in DOMAIN tree |->
        [tree[p] EXCEPT
            !.visits = @ + VisitsOf(p),
            !.total = @ + score * VisitsOf(p),
            !.edges = [e \in DOMAIN @ |->
                [@[e] EXCEPT !.visits = @ + Cardinality(Through(p, e)),
                             !.total = @ + score * Cardinality(Through(p, e))]]]]

Backup ==
    /\ pc = "backup"
    /\ tree' = BackedUp(known[node])
    /\ log' = Flushed(pending) /\ pending' = <<>>
    /\ backups' = backups + 1 /\ iter' = iter + 1
    /\ pc' = "check"
    /\ UNCHANGED <<known, tried, streak, node, path, prev, result>>

(* _pick_winner_edge: most visits, then the better mean.  Which hash is the *)
(* smaller is left open.                                                    *)
Beaten(edges, i) ==
    \E j \in DOMAIN edges :
        \/ edges[j].visits > edges[i].visits
        \/ edges[j].visits = edges[i].visits
           /\ edges[j].total * Weight(edges[i]) > edges[i].total * Weight(edges[j])

Winners ==
    IF result.by = "all_evaluations_failed" \/ Root.edges = <<>> THEN {InitialPlan}
    ELSE {Root.edges[i].child : i \in {j \in DOMAIN Root.edges : ~Beaten(Root.edges, j)}}

Finish ==
    /\ pc = "finish"
    /\ \E w \in Winners :
         /\ result' = [result EXCEPT !.winner = w]
         /\ LET start == IF iter = 0 THEN Linked(<<Summary>>, Summary) ELSE <<>>
                end == [row |-> Row("finish", iter, w, <<>>, 0, result.by), prev |-> prev]
            IN log' = Append(log \o start, end)
    /\ pc' = "done"
    /\ UNCHANGED <<tree, known, iter, tried, streak, node, path, pending, prev, backups>>

(* The priors do not sum to 1 (ExpanderContractError), the store refuses    *)
(* the rows, or the process dies: what the search had in memory is gone.    *)
Abort ==
    /\ pc \in {"select", "evaluate", "exhausted", "backup", "finish"}
    /\ pc' = "aborted" /\ log' = log
    /\ StartOver

Advance ==
    \/ Stop \/ BeginIteration \/ Select \/ GoRound \/ Selected \/ Expand \/ Exhausted \/ Evaluate
    \/ EvaluateCached \/ EvaluateFails \/ Backup \/ Finish

Next == Advance \/ Abort

Spec == Init /\ [][Next]_vars

(* The search is one thread that runs on.                                   *)
FairSpec == Spec /\ WF_vars(Advance)

-----------------------------------------------------------------------------
(* The variables hold what the code can hold, and no plan of the search is  *)
(* deeper than the ceiling.  (_mcts.py)                                     *)
TypeOK ==
    /\ pc \in {"check", "select", "exhausted", "evaluate", "backup", "finish", "done", "aborted"}
    /\ node \in DOMAIN tree /\ InitialPlan \in DOMAIN tree
    /\ \A p \in DOMAIN tree :
         /\ PlanDepth(p) <= MAX_PLAN_DEPTH
         /\ tree[p].visits \in Nat /\ tree[p].total \in Int /\ tree[p].terminal \in BOOLEAN
         /\ \A i \in DOMAIN tree[p].edges : tree[p].edges[i].child \in DOMAIN tree
    /\ \A p \in DOMAIN known : known[p] \in Scores
    /\ iter \in 0 .. MaxIter /\ streak \in Nat
    /\ tried.failures <= tried.attempts

EdgesInto(p) ==
    {<<q, i>> \in (DOMAIN tree) \X (1 .. K) : i \in DOMAIN tree[q].edges /\ tree[q].edges[i].child = p}

(* A plan reached over several paths has one node, and that node has been   *)
(* visited as often as all edges into it together, the root once more for   *)
(* every score backed up: shared plans, and plans that lead back to one     *)
(* before them, neither lose nor double visits (_mcts.py:678, 1060-1069).   *)
VisitsConserved ==
    pc = "check" =>
        \A p \in DOMAIN tree :
            tree[p].visits = MapThenSumSet(LAMBDA qi : tree[qi[1]].edges[qi[2]].visits, EdgesInto(p))
                             + (IF p = InitialPlan THEN backups ELSE 0)

IterRows == SelectSeq(log, LAMBDA r : r.row.phase \notin {"start", "finish"})

(* Every row of an iteration carries the hash of the one before it, the     *)
(* first that of the summary, wherever the search was cut off.              *)
ChainLinked ==
    \A i \in DOMAIN IterRows :
        IterRows[i].prev = IF i = 1 THEN Summary ELSE IterRows[i - 1].row

(* Rows of a search that are about one entity (_iter_id) say the same, and  *)
(* they are rejections of one proposal that the expander's list repeats:    *)
(* only where they stand in the chain tells them apart.                     *)
RowsAgree ==
    \A i, j \in DOMAIN IterRows :
        LET r == IterRows[i].row  t == IterRows[j].row
        IN IterId(r) = IterId(t) /\ i # j => r = t /\ r.phase = "reject" /\ r.acts # <<>>

(* No two rows of a search are about one entity (_mcts_datoms.py:151        *)
(* "unique by construction within a search").                               *)
RowsDistinct ==
    \A i, j \in DOMAIN IterRows : IterId(IterRows[i].row) = IterId(IterRows[j].row) => i = j

(* The expander and the evaluator answer for a plan once; later visits are  *)
(* served from what they said.                                              *)
AskedOnce ==
    \A i, j \in DOMAIN IterRows :
        LET r == IterRows[i].row  t == IterRows[j].row
        IN r.phase = t.phase /\ r.phase # "reject" /\ r.plan = t.plan => i = j

(* The rows explain the winner: it is the initial plan, or what an action   *)
(* recorded as proposed for the initial plan makes of it, and no row says   *)
(* that action was rejected.                                                *)
WinnerExplained ==
    pc = "done" /\ result.winner # InitialPlan =>
        \E i \in DOMAIN IterRows :
            /\ IterRows[i].row.phase = "expand" /\ IterRows[i].row.plan = InitialPlan
            /\ \E n \in DOMAIN IterRows[i].row.acts :
                 LET a == IterRows[i].row.acts[n]
                 IN /\ ApplyAction(InitialPlan, a) = Accepted(result.winner)
                    /\ \A j \in DOMAIN IterRows :
                         IterRows[j].row.plan = InitialPlan /\ IterRows[j].row.phase = "reject"
                         => IterRows[j].row.acts # <<a>>

Children(p) == {tree[p].edges[i].child : i \in DOMAIN tree[p].edges}

RECURSIVE Descendants(_)
Descendants(plans) ==
    LET more == plans \cup UNION {Children(p) : p \in plans}
    IN IF more = plans THEN plans ELSE Descendants(more)

(* The graph of plans has no cycle (_mcts.py:346 "the search graph is a DAG *)
(* over plan ids"): SELECT, which stops at a plan without children, would   *)
(* go round one for ever.                                                   *)
GraphIsADag ==
    \A p \in DOMAIN tree : p \notin Descendants(Children(p))

(* The search ends, with every iteration counted, unless a proposal has led *)
(* back to a plan before it: nothing but a cycle can keep it going          *)
(* (_mcts.py:875-943).                                                      *)
SearchEnds == <>(pc \in {"done", "aborted"}) \/ <>~GraphIsADag

(* The tree counts each score once, asks once for each plan, and its winner *)
(* is a plan that the rows lead to.                                         *)
TreeSound ==
    /\ TypeOK
    /\ VisitsConserved
    /\ AskedOnce
    /\ WinnerExplained

(* The rows are one chain, and rows about one entity agree.                 *)
RowsSound ==
    /\ ChainLinked
    /\ RowsAgree
=============================================================================
