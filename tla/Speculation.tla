---------------------------- MODULE Speculation ----------------------------
(***************************************************************************)
(* persistence: the two ways to try things out on one log.  DB.fold runs   *)
(* fn over items and commits the facts as it goes, a batch per checkpoint. *)
(* DB.fork and fold_into run fn once per branch inside a dosync and keep   *)
(* the facts of one branch; they leave :fork/* entries in the audit log.   *)
(*                                                                         *)
(* A fold and a dosync run in threads of their own.  What fn and choose do *)
(* is the caller's business: each may answer, raise or break its contract. *)
(* The conflict check of the dosync is in Dosync.tla; here a commit may    *)
(* find a conflict at any time.  Every fact is about another entity, so    *)
(* there are no companion retracts; a branch that succeeds has one fact.   *)
(***************************************************************************)
EXTENDS Integers, SequencesExt

CONSTANTS
    N,             \* items of a fold, branches of a fork
    Intervals,     \* values of checkpoint_every
    MaxFolds,      \* bound: folds
    MaxBodies,     \* bound: dosync calls
    MaxForks,      \* bound: forks in one run of a body
    MaxRetries     \* dosync retries

ASSUME SpeculationConstantsOK ==
    /\ N \in Nat \ {0} /\ Intervals \subseteq Nat /\ Intervals # {}
    /\ {MaxFolds, MaxBodies, MaxForks, MaxRetries} \subseteq Nat

VARIABLES
    log,      \* facts: [op, call, nth, item]
    audit,    \* :fork/* entries as they were performed: [op, call, nth, index]
    fold,     \* the fold under way, see Idle
    body,     \* the dosync under way, see NoBody
    folds, bodies    \* calls so far

vars == <<log, audit, fold, body, folds, bodies>>
bodyVars == <<audit, body, bodies>>
foldVars == <<fold, folds>>

Items == 1 .. N
Outcomes == {"ok", "raise", "bad"}     \* bad: not the shape or the score asked for

FoldStates == {"idle", "run", "flush", "append", "count",          \* under way
               "returned", "FoldError", "raised", "died"}          \* over
Over == {"returned", "FoldError", "raised", "died"}

Idle == [st |-> "idle", policy |-> "abort", every |-> 0, idx |-> 1, acc |-> <<>>, ckpt |-> <<>>,
         pending |-> <<>>, since |-> 0, pre |-> 0, total |-> 0, gave |-> {}, raced |-> FALSE]

NoBody == [st |-> "idle", attempt |-> 0, staged |-> <<>>, intents |-> <<>>, forks |-> 0]

TypeOK ==
    /\ fold.st \in FoldStates /\ fold.policy \in {"abort", "skip", "checkpoint"}
    /\ fold.idx \in 1 .. N + 1 /\ fold.gave \subseteq Items
    /\ ToSet(fold.pending) \subseteq ToSet(fold.acc) /\ IsPrefix(fold.ckpt, fold.acc)
    /\ fold.every > 0 => fold.since <= fold.every
    /\ body.st \in {"idle", "body", "replay"} /\ body.attempt \in 0 .. MaxRetries
    /\ body.forks \in 0 .. MaxForks /\ folds \in 0 .. MaxFolds /\ bodies \in 0 .. MaxBodies

Init ==
    /\ log = <<>> /\ audit = <<>> /\ folds = 0 /\ bodies = 0
    /\ fold = Idle /\ body = NoBody
-----------------------------------------------------------------------------
(* DB.fold.                                                                *)
FoldBegin(policy, every) ==
    /\ fold.st \in {"idle"} \cup Over /\ folds < MaxFolds
    /\ folds' = folds + 1
    /\ fold' = [Idle EXCEPT !.st = "run", !.policy = policy, !.every = every]
    /\ UNCHANGED <<log, bodyVars>>

Skipped_Buffers(f) ==           \* seeded fault: facts of the item that raised are kept
    [f EXCEPT !.idx = @ + 1, !.pending = Append(@, f.idx)]

Skipped(f) == [f EXCEPT !.idx = @ + 1]

(* fn raises: skip goes on to the next item, the others end in FoldError.  *)
FoldRaise ==
    /\ fold.st = "run" /\ fold.idx <= N
    /\ fold' = IF fold.policy = "skip" THEN Skipped(fold) ELSE [fold EXCEPT !.st = "FoldError"]
    /\ UNCHANGED <<log, folds, bodyVars>>

(* fn answers with something that is not a list of facts.                  *)
FoldBad ==
    /\ fold.st = "run" /\ fold.idx <= N
    /\ fold' = [fold EXCEPT !.st = "FoldError"]
    /\ UNCHANGED <<log, folds, bodyVars>>

Due_Late(f) == f.since > f.every     \* seeded fault: one item more

(* Whether a flush is due after an item: at every item when every = 0.     *)
Due(f) == f.since >= f.every

FoldItem(facts) ==
    /\ fold.st = "run" /\ fold.idx <= N
    /\ LET f == [fold EXCEPT !.idx = @ + 1, !.since = @ + 1, !.acc = Append(@, fold.idx),
                     !.pending = IF facts THEN Append(@, fold.idx) ELSE @,
                     !.gave = IF facts THEN @ \cup {fold.idx} ELSE @] IN
       fold' = [f EXCEPT !.st = IF Due(f) THEN "flush" ELSE "run"]
    /\ UNCHANGED <<log, folds, bodyVars>>

(* _flush: without pending facts it only restarts the count; otherwise it  *)
(* measures the log, writes the batch and measures the log again.          *)
FlushNothing ==
    /\ fold.st = "flush" /\ fold.pending = <<>>
    /\ fold' = [fold EXCEPT !.st = "run", !.since = 0]
    /\ UNCHANGED <<log, folds, bodyVars>>

FlushBegin ==
    /\ fold.st = "flush" /\ fold.pending # <<>>
    /\ fold' = [fold EXCEPT !.st = "append", !.pre = Len(log), !.since = 0]
    /\ UNCHANGED <<log, folds, bodyVars>>

FoldFacts == [i \in DOMAIN fold.pending |->
                 [op |-> "fold", call |-> folds, nth |-> 0, item |-> fold.pending[i]]]

FlushAppend ==
    /\ fold.st = "append"
    /\ log' = log \o FoldFacts
    /\ fold' = [fold EXCEPT !.st = "count", !.pending = <<>>]
    /\ UNCHANGED <<folds, bodyVars>>

(* transact_batch refuses or fails: its error leaves fold as it is.        *)
FlushRaises ==
    /\ fold.st = "append"
    /\ fold' = [fold EXCEPT !.st = "raised", !.pending = <<>>]
    /\ UNCHANGED <<log, folds, bodyVars>>

Counted_Live(f) ==              \* seeded fault: only what was pending is counted
    [f EXCEPT !.total = @ + 1, !.ckpt = f.acc]

(* Checkpoint and count.                                                   *)
Counted(f) == [f EXCEPT !.total = @ + Len(log) - f.pre, !.ckpt = f.acc]

FlushCount ==
    /\ fold.st = "count"
    /\ fold' = [Counted(fold) EXCEPT !.st = "run"]
    /\ UNCHANGED <<log, folds, bodyVars>>

FoldEnd_Behind ==               \* seeded fault: flush while the checkpoint is behind
    /\ fold.st = "run" /\ fold.idx = N + 1
    /\ fold' = [fold EXCEPT !.st = IF fold.ckpt = fold.acc THEN "returned" ELSE "flush"]
    /\ UNCHANGED <<log, folds, bodyVars>>

(* After the last item: the rest is flushed, then fold returns.            *)
FoldEnd ==
    /\ fold.st = "run" /\ fold.idx = N + 1
    /\ fold' = [fold EXCEPT !.st = IF fold.pending = <<>> THEN "returned" ELSE "flush"]
    /\ UNCHANGED <<log, folds, bodyVars>>
-----------------------------------------------------------------------------
(* A dosync body: each run of it starts with nothing staged.               *)
BodyBegin ==
    /\ body.st = "idle" /\ bodies < MaxBodies
    /\ bodies' = bodies + 1
    /\ body' = [NoBody EXCEPT !.st = "body"]
    /\ UNCHANGED <<log, audit, foldVars>>

Entry(op, index) == [op |-> op, nth |-> body.forks + 1, index |-> index]

Emitted_Interleaved ==          \* seeded fault: branch and score in one loop
    <<Entry(":fork/probe", N)>>
        \o FlattenSeq([i \in Items |-> <<Entry(":fork/branch", i), Entry(":fork/score", i)>>])

(* :fork/probe, then one :fork/branch per branch, then the scores.         *)
Emitted ==
    <<Entry(":fork/probe", N)>>
        \o [i \in Items |-> Entry(":fork/branch", i)] \o [i \in Items |-> Entry(":fork/score", i)]

ChosenFacts_All(b) ==           \* seeded fault: every branch's facts stay
    [i \in Items |-> [nth |-> body.forks + 1, item |-> i]]

ChosenFacts(b) == <<[nth |-> body.forks + 1, item |-> b]>>

(* Branches that answered, and those that choose may pick: in a bare fork  *)
(* a failed branch stays in the list, with the seed as its state.          *)
Good(outcome) == {i \in Items : outcome[i] = "ok"}

Choice(kind, outcome) == IF kind = "fork" THEN Items ELSE Good(outcome)

(* What is queued and staged when choose picks pick, or 0 when it raises   *)
(* or answers no index: a bare fork has no facts.                          *)
Queued(kind, pick) ==
    [body EXCEPT
        !.forks   = @ + 1,
        !.intents = @ \o Emitted \o
                        (IF pick = 0 THEN <<>> ELSE <<Entry(":fork/chosen", pick)>>),
        !.staged  = @ \o (IF pick = 0 \/ kind = "fork" THEN <<>> ELSE ChosenFacts(pick))]

(* A branch that fails without "continue" (fold_into: "skip") ends the     *)
(* call before anything is queued.                                         *)
Run(kind, keepGoing, outcome, pick) ==
    /\ body.st = "body" /\ body.forks < MaxForks
    /\ IF ~keepGoing /\ Good(outcome) # Items THEN pick = 0 /\ UNCHANGED body
       ELSE pick \in Choice(kind, outcome) \cup {0} /\ body' = Queued(kind, pick)
    /\ UNCHANGED <<log, audit, bodies, foldVars>>

Fork(keepGoing, outcome, pick) ==
    (\A i \in Items : outcome[i] # "bad") /\ Run("fork", keepGoing, outcome, pick)

FoldInto(keepGoing, outcome, pick) == Run("fold_into", keepGoing, outcome, pick)

BodyRaise_Keeps ==              \* seeded fault: fold_into committed on its own
    /\ body.st = "body"
    /\ log' = log \o [i \in DOMAIN body.staged |-> body.staged[i] @@ [op |-> "fork", call |-> bodies]]
    /\ body' = NoBody
    /\ UNCHANGED <<audit, bodies, foldVars>>

(* The body raises, an error of a fork that it does not catch or its own.  *)
BodyRaise ==
    /\ body.st = "body"
    /\ body' = NoBody
    /\ UNCHANGED <<log, audit, bodies, foldVars>>

(* The commit finds a conflict: the body runs again on a new Transaction.  *)
Conflict ==
    /\ body.st = "body"
    /\ body' = IF body.attempt = MaxRetries THEN NoBody
               ELSE [NoBody EXCEPT !.st = "body", !.attempt = body.attempt + 1]
    /\ UNCHANGED <<log, audit, bodies, foldVars>>

(* The staged facts and the commit datom, in one batch.                    *)
BodyCommit ==
    /\ body.st = "body"
    /\ log' = log \o Append(
          [i \in DOMAIN body.staged |-> body.staged[i] @@ [op |-> "fork", call |-> bodies]],
          [op |-> "commit", call |-> bodies, nth |-> 0, item |-> 0])
    /\ body' = [body EXCEPT !.st = "replay", !.staged = <<>>]
    /\ fold' = [fold EXCEPT !.raced = @ \/ fold.st \in {"append", "count"}]
    /\ UNCHANGED <<audit, bodies, folds>>

Perform ==
    /\ body.st = "replay" /\ body.intents # <<>>
    /\ audit' = Append(audit, Head(body.intents) @@ [call |-> bodies])
    /\ body' = [body EXCEPT !.intents = Tail(@)]
    /\ UNCHANGED <<log, bodies, foldVars>>

(* The last effect is performed, or a handler raises and the rest is left. *)
ReplayEnds ==
    /\ body.st = "replay"
    /\ body' = NoBody
    /\ UNCHANGED <<log, audit, bodies, foldVars>>

(* The process dies.                                                       *)
Die ==
    /\ fold.st \notin {"idle"} \cup Over \/ body.st # "idle"
    /\ fold' = IF fold.st \in {"idle"} \cup Over THEN fold ELSE [fold EXCEPT !.st = "died"]
    /\ body' = NoBody
    /\ UNCHANGED <<log, audit, folds, bodies>>
-----------------------------------------------------------------------------
FoldStep ==
    \/ FoldRaise \/ FoldBad \/ \E facts \in BOOLEAN : FoldItem(facts)
    \/ FlushNothing \/ FlushBegin \/ FlushAppend \/ FlushRaises \/ FlushCount \/ FoldEnd

BodyEnds == BodyRaise \/ BodyCommit \/ ReplayEnds

BodyStep ==
    \/ \E keepGoing \in BOOLEAN, outcome \in [Items -> Outcomes], pick \in 0 .. N :
          Fork(keepGoing, outcome, pick) \/ FoldInto(keepGoing, outcome, pick)
    \/ Conflict \/ Perform \/ BodyEnds

Next ==
    \/ \E policy \in {"abort", "skip", "checkpoint"}, every \in Intervals : FoldBegin(policy, every)
    \/ FoldStep \/ BodyBegin \/ BodyStep \/ Die

Spec == Init /\ [][Next]_vars

FairSpec == Spec /\ WF_vars(FoldStep)
-----------------------------------------------------------------------------
FoldedInLog(f) == LET mine == SelectSeq(log, LAMBDA d : d.op = "fold" /\ d.call = f)
                  IN  [i \in DOMAIN mine |-> mine[i].item]

(* The last checkpoint is what the log has: whenever a fold is over or     *)
(* between two flushes, however it got there, its facts in the log are     *)
(* those of the items in the checkpointed accumulator, in order and once   *)
(* each, so that a caller who goes on from FoldError.acc repeats and loses *)
(* no fact of theirs.                                                      *)
CheckpointIsTheLog ==
    fold.st \notin {"idle", "count", "died"} =>
        FoldedInLog(folds) = SelectSeq(fold.ckpt, LAMBDA i : i \in fold.gave)

(* committed_count is the number of datoms of the fold, unless another     *)
(* writer came between the two measurements of _flush.                     *)
CountsOwnUnlessRaced ==
    fold.st \notin {"count", "died", "idle"} /\ ~fold.raced => fold.total = Len(FoldedInLog(folds))

Of(call, seq) == SelectSeq(seq, LAMBDA x : x.call = call)
PicksOf(call) == {<<e.nth, e.index>> : e \in {x \in ToSet(Of(call, audit)) : x.op = ":fork/chosen"}}
FactsOf(call) == {<<d.nth, d.item>> : d \in {x \in ToSet(Of(call, log)) : x.op = "fork"}}
Committed(call) == \E i \in DOMAIN log : log[i].op = "commit" /\ log[i].call = call

(* At most the chosen branch of each fork has facts in the log, they came  *)
(* with a commit, and every fork of a committed body tells so: what the    *)
(* audit log says was chosen belongs to a commit, and of a fold_into the   *)
(* facts are there.  Failed, retried and abandoned bodies leave nothing.   *)
OnlyTheChosenLand ==
    \A call \in 1 .. bodies :
        /\ FactsOf(call) # {} \/ PicksOf(call) # {} => Committed(call)
        /\ \A x, y \in FactsOf(call) : x[1] = y[1] => x = y
        /\ \A x \in FactsOf(call), y \in PicksOf(call) : x[1] = y[1] => x = y

(* The entries of one fork, or as many of them as were performed: a probe  *)
(* with the number of branches, that many branches and scores in order,    *)
(* and then the choice, of one of them.                                    *)
CanonicalShape ==
    \A call \in 1 .. bodies, n \in 1 .. MaxForks :
        LET mine == SelectSeq(audit, LAMBDA e : e.call = call /\ e.nth = n) IN
        \A i \in DOMAIN mine :
            \/ i = 1 /\ mine[i].op = ":fork/probe" /\ mine[i].index = N
            \/ i \in 2 .. N + 1 /\ mine[i].op = ":fork/branch" /\ mine[i].index = i - 1
            \/ i \in N + 2 .. 2 * N + 1 /\ mine[i].op = ":fork/score" /\ mine[i].index = i - 1 - N
            \/ i = 2 * N + 2 /\ mine[i].op = ":fork/chosen" /\ mine[i].index \in Items

(* Every fold ends, whatever fn raises.                                    *)
FoldEnds == fold.st = "run" ~> fold.st \in Over

(* "every item's facts are committed in their own per-item transact_batch  *)
(* call AND the accumulator after that item is the new last checkpoint"    *)
(* (DB.fold): with checkpoint_every = 0, FoldError.acc is the accumulator  *)
(* after the last item that succeeded.                                     *)
CheckpointEveryItem ==
    fold.st = "FoldError" /\ fold.every = 0 => fold.ckpt = fold.acc

(* What a fold tells its caller, checkpoint and count, is what the log has. *)
FoldSound ==
    /\ TypeOK
    /\ CheckpointIsTheLog
    /\ CountsOwnUnlessRaced

(* What a fork leaves is the chosen branch and the entries that explain it. *)
ForkSound ==
    /\ OnlyTheChosenLand
    /\ CanonicalShape
=============================================================================
