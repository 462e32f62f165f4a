# A formal model of persistence-os

persistence-os is a Python substrate for agents: a bitemporal, append-only fact
database with software transactional memory on top of it, an effect system with a
hash-chained audit log, replay, a plan language, and a REPL server through which
operators look into a live database and edit it. This directory holds TLA+
specifications of its core, the TLC instances that check them, and TLAPS proofs.
All paths below are relative to `src/persistence/` of the repository.

1. [Inventory](#1-inventory)
2. [Modules](#2-modules-and-the-code)
3. [Runs](#3-runs)
4. [Proofs](#4-proofs)
5. [Disagreements between code and documentation](#5-disagreements-between-code-and-documentation)
6. [What is not modelled](#6-what-is-not-modelled)
7. [Plan](#7-plan)

## 1. Inventory

| component | state | operations | hard behaviour | what makes it correct |
|---|---|---|---|---|
| `fact/` datom log (`db.py`, `store.py`, `projection.py`, `datom.py`) | the log: datoms with entity, attribute, value, `tx`, `tx_time`, `valid_from`, `valid_to`, `invalidated_by`; `store._lock`; projections | `transact`, `transact_batch`, `allocate_and_append`, `mark_invalidated`, `entity`, `as_of`, `since`, `rebuild` | a `transact` reads the clock, then the log, then appends, then stamps: four steps, each with the lock only for itself; retroactive dates; a death before the stamps | the newest assert of a key is the one readers see; the projection agrees with `entity`; both write paths agree; stamps point to a transaction that replaced something |
| `txn/` (`transaction.py`, `_db_extension.py`, `conflict.py`, `atom.py`, `_commute.py`, `intents.py`) | per attempt a `Transaction`: snapshot time, read, write and ensure sets, commute log, intent log; nothing of its own in the store | `dosync` (with-form and decorator), `deref`, `assoc`, `alter`, `commute`, `ensure`, `effect`; `atom`, `swap`, `reset`, `compare_and_set` | optimistic commit by threads against one log; retries; commutes that are applied twice; effects after the commit; plain `transact` beside it | serializable; no write skew under `ensure`; snapshots stable; all or nothing; effects once and after the commit; every call ends |
| `repl/` (`_ws.py`, `_ops.py`, `_session.py`, `_audit.py`, `_caps.py`, `_protocol.py`) | `_active_sessions`, the audit ring `_audit_entries`, the audit datoms in the store, one session variable per connection | handshake, inspect, rewind, branch, edit; emission of an audit entry per operation | connections interleave at every await; a client may leave while it is being answered; the ring is bounded; restarts lose everything but the store | one audit entry per answer, in chain order; the entry shows the view the operator had; edits only at HEAD |
| `effect/` (`runtime.py`, `handlers/*`, `catalog.py`, `policy_eval.py`, `_audit_stack.py`) | the handler stack of a runtime and its masks; per handler a context: audit entries, cache, token bucket, policy decisions | `perform`, `mask`, `with_runtime`; audit, retry, rate limit, cache, dry run, clock, policy, redaction, raw | handlers that perform effects themselves; retry around or inside audit; a context shared by threads | one entry per performed effect, chained; a masked handler never sees its own effects; no tokens spent twice |
| `store/` (`postgres.py`, `_migration_runner.py`, `_codec.py`, `_pool_config.py`) | tables of datoms, tx allocator row, audit chain lock row, schema migrations; per process a connection pool and `_lock` | opening with migrations, `allocate_and_append`, `transact_serializable`, `persist_repl_audit` | several processes; serialization failures and retries; commits whose connection is lost; migrations that race; processes that die | a call that was told a tx is in the log once, in tx order, and one that failed is not; one audit chain over all processes; each migration once; every call ends |
| `fact/` branch, fold, fork (`db.py`, `_fork.py`, `sdk/_fold_into.py`) | the accumulator, checkpoint and pending facts of a fold; staged facts and queued entries of a fork | `branch`, `fold`, `fork`, `fold_into` | error policies and checkpoints; forks that fail in the middle, inside a dosync that is tried again | the checkpoint of a fold is what the log holds; only the chosen branch leaves facts |
| `replay/` (`engine.py`, `effect_handler.py`, `trajectory.py`, `dpo.py`) | the trajectory with its effect cache, the handler's mode, the random streams | record, replay under interventions, extrapolation, the wire form, DPO pairs | a counterfactual mixes copied, re-executed and simulated steps; a trajectory that lost its cache | external effects never happen twice; a no-op replay is the recording; randomness stays aligned |
| `plan/` search and promotion (`_mcts.py`, `_mcts_datoms.py`, `_promotion.py`, `_skill_library.py`) | the transposition table, scores, a chain of rows in the store; promotion records; per library a cache over the store | `mcts_search`, `promote`, `register`, `lookup` | shared sub-plans, failing evaluators, several reasons to stop; gates that read an audit log other processes extend; several libraries over one store | visits are conserved and rows chained; no skill without the evidence the gates ask for; a library follows its store |
| `plan/` trees (`_parse.py`, `_execute.py`, `_edit.py`, `_optimize.py`) | none: functions on trees | parse, execute, edit, optimize | none of its own | |
| `sdk/mcp/` (`_server.py`, `_tools.py`, `_budgets.py`) | per session: initialized, subscriptions, last seen length of the audit list, replay rate events; shared: the substrate's store and audit list | `remember`, `recall`, `forget`, `replay_check`, `audit_window`, `view_at`, subscriptions | sessions and the application append to one list without a lock; a commit may fail; the budget of replay checks | one audit entry for each call that reaches its handler; facts and entries agree; a subscriber hears of its own entries |
| `sdk/` facade (`_facade.py`, `_audit.py`, `uri.py`) | the open substrate and its audit list | `Substrate.open` and `close`; facade calls; escape hatches | life cycle | calls after close fail; every entry reaches the list |
| `spec/` | a registry of validators | combinators, `conform` | none: pure functions | |

**How they interact.** Everything ends in one log. `txn` calls
`DB.transact_batch` under `store._lock`; plain `DB.transact` and the audit writer
of `repl` reach the same store without that lock around the whole call. Effects
queued in a dosync are performed through the active effect runtime after the
commit, and those of a fork are such effects. Promotion reads from the log the audit
entries that the audit handler wrote to it. With Postgres the log is shared by
processes that have nothing else in common. The REPL server runs on one asyncio loop and
calls `DB.transact` for an edit; the MCP server and the application that owns the substrate
append to one audit list. `sdk` is a facade over all of them. Shared state is the log, the
lock and the per-handler contexts; there are no callbacks into the store.

The behaviours that unit tests hardly reach are listed, with the line where each
bites and the property that watches it, in `PROJECT.json` under `hazards`.

## 2. Modules and the code

| module | models | role |
|---|---|---|
| `SerialStore` | what a dosync promises: cells that whole transactions update one at a time | abstract specification |
| `Dosync` | `txn/` on the log, with atoms and plain `transact` calls | detailed specification |
| `DosyncProofs`, `DatomProofs`, `ReplProofs`, `EffectProofs`, `PgProofs`, `ReplayProofs`, `PromotionProofs`, `McpProofs` | | theorems about `Dosync`, `DatomLog`, `ReplServer`, `EffectStack`, `PgStore`, `Replay`, `Promotion` and `McpServer` |
| `DatomLog` | writing the log step by step, and the ways of reading it | detailed specification |
| `ReplServer` | `repl/` | detailed specification |
| `EffectStack` | `effect/runtime.py` and the handlers of `effect/handlers/` that gate, retry, remember or record | detailed specification |
| `OrderedLog` | what a shared log promises: what a call was told and what is in the log agree | abstract specification |
| `PgStore` | `store/postgres.py` and the migration runner, in several processes | detailed specification |
| `Speculation` | `DB.fold`, `DB.fork`, `fold_into`, beside a dosync | detailed specification |
| `Replay` | `replay/`: recording, counterfactuals, the wire, preference pairs | detailed specification |
| `Mcts` | `plan/_mcts.py` and the rows of `_mcts_datoms.py` | detailed specification |
| `Promotion` | `plan/_promotion.py`, the audit window it reads, `_skill_library.py` | detailed specification |
| `McpServer` | `sdk/mcp/` with the audit list of the substrate | detailed specification |
| `MCDosync`, `MCDatomLog`, `MCDatomTies`, `MCReplServer`, `MCEffectStack`, `MCPgStore`, `MCMcts`, `MCPromotion`, `MCMcpServer` | | instances for TLC; the other two modules need none |

In every module, operators with an underscore in their name (`Touched_ReadsOnly`,
`Keep_Oldest`, ...) are seeded faults: a plausible bug in the operator that
follows (`NON_REPLAYABLE_OPS` and `PROMPT_HASH_OPS` of `Replay` are names of the source).
They are not part of the specification; each one breaks the property that `PROJECT.json`
pairs it with.

### Dosync

A thread is a dosync caller, a user of an atom, or a caller of plain
`DB.transact`. Its `pc` follows the code:

```
dosync   start -> body -> build -> locked -> replay -> committed
                            |         \-> failed       \-> effect_failed
                            \-> start (conflict) -> ... -> exhausted
atom     start -> locked -> committed
plain    start -> raw -> mark -> committed
```

* `Begin` is the top of the loop in `_run`: it reads the clock into `t_start` and
  makes a new `Transaction`. `Deref`, `Assoc`, `Alter`, `Commute`, `Effect` are
  its methods; `tx.ensure` is a `deref` whose extra set changes only provenance.
* `Build` is what `_commit_attempt` does before the lock. It reads the `valid_from`
  of the write facts, a step before the lock is taken.
* `Conflict` and `Check` are the two outcomes of `any_datoms_since` under the lock;
  `Check` keeps the lock and computes the commuted values from the latest state.
  `Append` is `transact_batch` with its own clock reading, its retroactivity
  check, the append, and `mark_invalidated`. Nobody else can append between the
  two in one process; plain transacts take the lock for their append as well.
* `RawBegin`, `RawAppend`, `RawMark` are `DB.transact`, whose three phases are
  not under one lock.
* `ProcOf` says which process a thread is in: `store._lock` belongs to a process,
  a Postgres log may be shared by several.

The log is a set of asserts. `Current` reads it as `DBView.entity` does, greatest
`(valid_from, tx)`; `AtomValue` and the retroactivity check read it as
`_find_prior_assert` does, last one not invalidated. The two differ, and much of
the module is about when that matters. Companion retracts are left out here:
`DatomLog` shows that, where `valid_from` values do not tie, they close asserts
that are not the newest. References are entity ids because that is what the
conflict check goes by. Values are numbers, and every commute adds 1: addition
is what the code registers as its standard commute, and it tells a lost or a
doubled application from a right one.

### DatomLog

One writer step per phase of `DB.transact`: `Call` (the clock), `Snap` or `Refuse`
(the snapshot of the log and the loop over the facts), `AllocateAndAppend`,
`MarkInvalidated` once per replaced transaction, `Done`; and `Die` at any point,
after which the log on disk is as it was. A writer in `Locked` holds the lock
through the whole call, as a dosync commit does, and uses `transact_batch`.
`Transact` and `TransactBatch` are the two loops, as recursive functions of the position
in the list of facts, with the companion retracts, the retroactivity check and the two
different ways of looking for the assert to replace: `transact` scans the log and what it
has built, `transact_batch` scans the log once and then keeps an index. A fact is open, or
closed by its caller with a `valid_to`, after which it is no longer there to be replaced.
`Entity` is `DBView.entity`; `Rebuilt` feeds the log into `DictProjection.apply`.
`Corrections` finds in the log the companions of forced retroactive corrections, which are
dated before the assert that they were made for.

What callers do is in the constant `Batches`, and three operators say what the properties
ask of them: `CallersOnlyAssert` (retracts come from `transact` itself), `NoTies` (two facts
of a key never get one `valid_from`, within a call or by a lag that reaches another one) and
`ClosedComesLast` (no closed fact between two asserts of its key). `MCDatomLog` asserts all
three of its instance, `PremisesHold`; the instances of `MCDatomTies` drop one each.

### ReplServer

A connection is `out`, `idle` (waiting for a message) or in `reply` (its handler
has run, the answer is being sent). Handlers run to completion between awaits on
the one event loop, so a handler is one action (`Auth`, `AuthDenied`, `PreAuth`,
`Rewind`, `Branch`, `Edit`, `Look`, `Poll`, `Refused`), and what the server does
after the answer is another: `Reply` picks up the registered session and emits the
audit entry, `ReplyFails` is the case in which the client has gone and the send
raises. `Restart` loses the registry and the ring but not the store. Capabilities
are left open: any request may be refused. Requests, edits, entries and the
view a client last saw are recorded in history variables. A session's view has two
dates, of transaction time and of valid time, each set back or not: `Rewind` sets both (to
none what the request does not name), `Branch` the first, `Edit` is refused by the first.

### EffectStack

One `Runtime` and the threads that call it. `stack` is `Runtime.handlers`, `masks` the
frames of the mask that a thread has pushed, `frame` the call that a thread is in:
its place in the stack (`at`, 1 is the outermost handler), whether it goes down or
comes back up (`phase`), and the local variables of the clauses. `Perform` and
`Named` are `perform` and `named_perform`: they choose the candidates, the places of the
handlers that the call goes through, which do not change during the call. A clause that
calls `k(args)` moves `Deeper`; one that answers or raises sends an `Answer` up to the next
clause that does something with it.

* `Policy`, `DryRun`: one step each, on the way down only.
* `CacheLookup`, `CacheStore`: the key is the hash of what is in `args` at that moment.
* `RetryEnter`, `RetryLeave`, `RetryAgain`: the loop over attempts; `RetryAgain` ends the
  sleep.
* `RateClock`, `RateTake`, `RateSlept`: the clock before the lock, the bucket under it,
  the sleep after it. Tokens are counted in ticks of refill (`TokenCost` make one).
* `AuditEnter`, `AuditReadOp`, `AuditReadHead`, `AuditAppend`, `AuditSink`: every access to
  the shared context is a step, because none is under a lock. `link` is the
  `txn_commit` that a dosync's replay puts into `args` and that audit takes out again.
* `Raw`: the vendor, with a result, a transient or a fatal error.

`calls` records what each call did, `contended` which calls were in an unguarded part
of the audit clause at the same time as another thread.

### PgStore

Two layers. A process goes `closed -> creating -> reading -> migrating -> open`
(`OpenStore`, `EnsureHistoryTable`, `AppliedNames`, `ApplyOne`, `CommitMigration`,
`Migrated`): the history table is a transaction of its own, each migration is another
together with its history row. A client's call goes

```
Start -> lock -> pool -> allocator -> chain -> insert -> commit -> told
                  ^---- backoff <---- 40001 at allocator, chain or commit
```

`Start` builds the batch as the callers do: `DB.transact` adds companion retracts,
`emit_repl_op_audit` links its entries on the ring of its own process. `Connect` takes a
connection and the transaction's snapshot; `LockAllocator` and `LockChain` are the two
`SELECT ... FOR UPDATE`, which fail to serialize when their row changed after the
snapshot; `Insert` rebinds audit rows to the locked head and meets
`UNIQUE (tx, e, a)`; `Commit`, `CommitConflict` and `ConnectionLost` are what a
`COMMIT` may do, the last of them with or without the batch in the log. `TimedOut` is
`pool_timeout` and `lock_timeout`; `Crash` kills a process anywhere. Postgres itself is
reduced to what the code relies on, listed at the head of the module.

`OrderedLog` is the abstract specification: calls are opened, land in a sequence once,
and are told their place in it, an error, or nothing certain (`Lost`). `LogSpec` is
`PgStore` seen as `OrderedLog` through the call numbers of the log.

### Speculation

`fold` is a call of `DB.fold`: `FoldItem`, `FoldRaise` and `FoldBad` are what `fn` may do
with an item, `Flush...` the five steps of `_flush`, which measures the log, writes a
batch, measures again and moves the checkpoint. `body` is a dosync body in another
thread: `Fork` and `FoldInto` run `fn` in every branch and `choose` or the scores among
them, and queue facts and `:fork/*` entries on the transaction; `Conflict` runs the body
again from nothing, `BodyCommit` writes the staged facts, `Perform` emits the entries one
by one, `Die` ends the process. The user's functions are free to answer, raise or break
their contract at each call.

### Replay

One agent at a time: `StepBegin`, `AskModel`, `Fetch`, `StepEnd` are an
`agent_step_fn` with an observation, its draws, an `:llm/call` and perhaps
a `:net` call; `Call` is `EffectHandler.call`, served, executed or refused. `RecordEnd`
makes the trajectory, `Ship` sends it over the wire, where it loses its cache.
`ReplayBegin` is `replay` with its interventions, `CopyPrefix`, `Intervene`
and the agent's steps are its three ways to treat a step, `Extrapolate` the steps past
the window, `Rebranch` the replay of a counterfactual. Agent, prompts and world are those
of the tests: one agent whose prompt depends on the observation only, one whose
prompt also carries its state. `rng` counts the draws from the three streams of `_mk_rngs`:
these two draw from `llm` and `env`, a third agent keeps to the convention of one draw per
domain and draws from `tool` too. `Skipped` is what the engine draws in place of a step that
is not executed, `llm` and `env` only.

### Mcts

One action per phase of an iteration: `Stop` or `BeginIteration`, `Select` edge by edge,
`Expand` or `Selected` (a terminal leaf), `Evaluate`, `EvaluateCached` or
`EvaluateFails`, `Backup` with the flush of the iteration's rows, `Finish`; `Abort` is an
exception or a death. Plans are trees, and the three actions on them (add, substitute,
compose with a skill) are translated with their depth and cycle checks. `tree` is the
transposition table, so plans reached on two paths share a node. Rows carry the row they
were chained to, in place of a hash. PUCT only ranks edges, so `Select` takes any; the
stop by simple regret, the winner and the backup use the real numbers. The expander proposes
any list of actions, with repetitions, and plans that the search already has. Within one
`SELECT` no count changes, so a plan that the walk meets again is left by the edge it was left
by before: `GoRound`, which never comes to a leaf. `Abort` forgets what was in memory and
keeps the rows.

### Promotion

Servers `Build` audit entries on their own chain and `Persist` them later, or fail to, or
`Restart`; callers go through `G1` to `G4` of `promote` and on to `register`
(`Known`, `Scan`, `Write`, `WriteFails`) in a library that may be reopened. `G2` reads the
window from the log and verifies it: an entry goes through `AuditDatom` and `FromDatom`,
the conversion of its float time to a datetime included. Times are counted in steps below a
microsecond for that reason (`Grain` is what a clock reading is a multiple of). `closed`
and `raced` remember whether the window was over when `G2` looked and whether another
caller wrote between a caller's look and its own write.

### McpServer

A session is an `MCPServer` that handles one request after the other; a tool call is
`Begin` (the handler up to its transact), `Commit` or `CommitFails`, `ReadTail`, `ReadLength`
and `AppendEntry` (`_emit_audit`, whose three list accesses are not under a lock), `Answer`
(the response, then the notification to a subscriber). `CommitFails` is an exception inside the
`try` around the transact, with the fact in the store or without it: the answer to a Postgres
`COMMIT` may be lost, and the walk of the log that follows may raise. `Denied` is a missing
capability, `Bounce` a call that is refused before it reaches a handler. An entry remembers
the length at which its session read the tail (`seen`, not in the code) beside the `tx` that
it was given.
`Effect` and `Escape` are the application's own entries: audit entries of the runtime and
the dicts of an escape hatch. The list is the chain; an entry's hash is its position.
`Read` stands for `audit_window` and `view_at`, which change nothing but the list.
`Hits` lists each memory at the rank of its newest datom, which is the order in which
`tool_recall` meets it on its way back through the log; `Recent` is what the loop at the
head of `_RateLimiter.allow` leaves.

## 3. Runs

The passing runs fire every action of their specifications between them. A property with
parts is a conjunction of named definitions; the parts are in brackets.

| run | instance | what it checks |
|---|---|---|
| `dosync` | two dosync callers, two references, at most 2 operations and 1 effect per body, 1 retry; one uses the with-form, one has a deadline and a runtime | `TypeOK`, `SnapshotStable`, `AllOrNothing`, `EffectsFollowCommit`, `RetriesArePaidFor`, `NeverRetroactive`; `EnsureHolds`; refinement of `SerialStore` (`SerialSpec`) |
| `dosync_mixed` | one dosync and one atom user on the same reference, a plain transact on another one | `AtomReadsLatest`, and liveness: `EveryCallEnds` |
| `datomlog` | two writers, one under the lock; two keys, at most 2 facts per call, 3 calls; dates now or back past the previous call, forced or not; deaths | `LogWellFormed` (`TypeOK`, `StampsExplained`), `NewestStaysVisible`, `PathsAgree` (`ProjectionMirrors`, `BatchEquivalent`) |
| `repl` | two connections with one token, views that are set back in either time, branch depth 1, a ring of 1, four requests, one restart | `SessionsApart` (`TypeOK`, `EntryShowsView`, `RegistryIsCurrent`, `EditsAtHead`), `StoredInChainOrder`, `OneEntryPerAnswer` |
| `effects` | two threads on the canonical stack of the demo, two operations, two arguments, one answer of the policy for each pair; 2 calls, 2 attempts, one token, one commit, a mask of audit, a named call of the cache, a sink | `PaidOrRemembered` (`TypeOK`, `EveryAttemptPaid`, `HitAfterAnswer`), `AuditComplete`, `LogFaithfulUnlessRaced`, `GateHolds` |
| `pg` | three clients in two processes, one of them a newer release with one more migration; pools of one connection, two calls (a fact, or a pair of audit entries), one retry, one crash | `SchemaReady` (`TypeOK`, `MigratedOnce`), `ChainUnbroken`; refinement of `OrderedLog` (`LogSpec`); liveness: `EveryCallEnds` |
| `speculation` | one fold of three items, `checkpoint_every` 0 or 2, every policy; one dosync with one fork of three branches and one retry; deaths | `FoldSound` (`TypeOK`, `CheckpointIsTheLog`, `CountsOwnUnlessRaced`), `ForkSound` (`OnlyTheChosenLand`, `CanonicalShape`); liveness: `FoldEnds` |
| `replay` | three recorded steps, one of three agents, one intervention of any kind, one step past the window, two replays, with and without the wire and a drifted template | `RecordKept` (`TypeOK`, `NoOpIsTheRecording`, `Aligned`), `WorldTouchedOnce` (`NothingFiresTwice`, `BranchesOnce`), `CacheHonest` (`SamePromptSameAnswer`, `LostCacheIsLoud`) |
| `mcts` | four iterations, four plans, depth ceiling 4, two proposals for each expansion, three actions and one skill, scores 0 and 1 or a failure, every stop rule in reach | `TreeSound` (`TypeOK`, `VisitsConserved`, `AskedOnce`, `WinnerExplained`), `RowsSound` (`ChainLinked`, `RowsAgree`); liveness: `SearchEnds` |
| `promotion` | one server with up to three entries and restarts, two callers, two libraries, one plan, windows of one and two milliseconds | `SkillsEarned` (`TypeOK`, `PassedIsComplete`, `SkillIsPromoted`, `RegisteredOnce`), `VerdictSound` (`WholeRunPasses`, `VerdictStands`), `LibraryFollowsStore` |
| `mcp` | two sessions, one that may do everything and one that may only forget; two memories, three calls or entries of which one may be the application's, one replay check per window | `AuditAgrees` (`TypeOK`, `EveryCallAudited`, `FactsMatchAudit`), `ReplaySound` (`MismatchExplained`, `ReplayRateHolds`), `RecallComplete`; `SubscriberHears` on every step |
| `mcp_forget` | one session, two memories | `ForgottenStaysForgotten`, violated: section 5 |

Seventeen more configurations refute a property each, `MctsClaims.cfg` two (the second is
found with `-continue`): they stand beside the runs for the disagreements of section 5 and are
started by hand, for example `tlc -config ReplDisconnect.cfg MCReplServer.tla`. The module is
the `MC` one of the specification in the name (`Replay` and `Speculation` have none;
`MCDatomTies` is for the three with ties, closed facts and retracts by callers).

**Why the bounds are enough.** *dosync*: the anomalies of a multi-version
protocol (lost update, write skew, unstable read, commute on a stale value) need
two transactions and two references, with two operations each. One retry covers
the second attempt, which differs from the first only in what it must reset;
exhaustion is reached as well. The proofs of section 4 remove these bounds for
safety. *datomlog*: the interesting writes replace an assert that another writer
replaces at the same time or has left unstamped: two writers, a third call on
top, and two facts on one key within one call. `Lags = {0, 3}` with `Tick = 2` puts
a fact before the previous call's, so refusals and forced corrections happen, and
never lets two `valid_from` values tie. Ties, caller retracts and closed facts are kept to
the three refuting configurations of `MCDatomTies`, since they do break the properties.
`NewestStaysVisible` promises the newest assert for keys without a forced correction and
some assert for the others: what a correction does to the one it corrects is section 5. The
proofs cover what the run leaves out of the rest: closed facts that come last, lists and
calls of any length.
*repl*: one date in the past and the present give every view, set back in either time, in
both or in none; a ring of 1 overflows with the second entry; two connections are what
interleaving needs; four requests are a handshake for each and an operation for
each, or a handshake and a rewind-branch-edit sequence of one connection.
Clock readings advance by 1: a session id is derived from token and clock, and
two handshakes that tie would share a record.
*effects*: what the properties relate is at most two calls: an earlier one that left
an entry, an answer in the cache or a debt in the bucket, and a later or overlapping
one. Two attempts show a retry and its last attempt. With one token the second
attempt already waits. Time moves only for a thread that sleeps (`MaxTime = 0`), and
the model ends when the calls are used up. Adding a third call to the whole stack
is out of TLC's reach in a few minutes; the bucket, where a third call matters, has
a configuration of its own.
*pg*: two calls suffice for a lost allocation, a broken chain, a wait for a row and a
wait for the pool; the third client is the one that waits behind both. With one retry a
call both fails and is tried again. Two crashes differ from one only in repeating it.
*speculation*: three items give a batch, a batch that is cut off by an error, and a rest;
an interval of 2 has a checkpoint in the middle, an interval of 0 at every item. Three
branches have a first, a chosen and a last one. A second fork of one body adds only its
number, which the entries carry.
*replay*: three steps are a copied one, the intervened one and a re-executed one, in every
place; the second replay is the one that starts from a trajectory without a cache.
Two interventions at one step, of which the later counts, need `MaxIvs = 2`, which
is too many states with the rest; the refuting configuration has it with two steps.
*mcts*: the first iteration expands the root and visits a child, the second or third expands
that child to a plan the root leads to as well, and the iterations after it visit the shared
plan over both of its edges: a backup that loses or doubles one of the visits, or an
expansion that makes the shared node anew, breaks `VisitsConserved`. The fourth plan is the
last that `MaxUniquePlans` lets an expansion find; a ceiling of 4 rejects the compositions that
are too deep. Two proposals suffice for a repeated one and for one that leads back, since
`substitute` gives the same plan wherever it is applied.
*promotion*: three entries are a run, its continuation and a run after a restart. Two callers
race at every step, and libraries are reopened without a bound. Clock readings are
whole microseconds (`Grain = 4`): section 5.
*mcp*: three entries are a remember, a forget and a recall or a check of the two before it;
one of them may be the application's, and a call that leaves none takes the place of one.
The second session exists to interleave its entries, so a right to forget, which is granted,
and to the rest, which is denied, is enough for it. A denied call does the same for every
verb, and the instance has one of them (`Attempted`). One tick puts a check at both ends of
the replay window.

**Symmetry.** References in `dosync`, keys and values in `datomlog`, connections in
`repl`, threads in `effects`, callers and libraries in `promotion`, memories in `mcp` are
interchangeable: no definition orders or names them. In `mcp`, where a step property is
checked as well, the permutations only rename the values in the answers it looks at.
The runs that check liveness use no symmetry.

**Fairness.** `dosync_mixed` assumes weak fairness of each thread's steps: threads
are preemptively scheduled by the operating system, and a thread waiting for an
`RLock` gets it once it is free and the thread is scheduled. With one process the
lock is held for one step of the model, so a thread that keeps being overtaken
finds it free again; TLC checks exactly that assumption. Nothing is assumed about
the order of threads or about conflicts: that a retried dosync ends follows from
the bound on retries. `pg` assumes the same of each client's own next step, a commit
included, and nothing of crashes, time-outs, lost connections or of the opening of a
store: that nobody waits for ever for a row or a connection follows from the ends of the
transactions before. `speculation` assumes that the thread of the fold keeps running,
whatever `fn` raises, and `mcts` that the one thread of the search does; death ends both
in a state of their own. `SearchEnds` asks for an end only as long as the plans found form a
DAG: a search that has closed a cycle may go round it for ever. No other run needs fairness.

**Deadlock** is checked in `dosync`, `dosync_mixed`, `datomlog`, `repl`, `effects` and `pg`.
`Dosync`, `DatomLog`, `EffectStack` and `PgStore` end in a state where all calls have
returned, which has an explicit step (`Terminating`, `Finished`); the server of `repl`
never ends. In `EffectStack` every counter is bounded and no step loops, so that absence
of deadlock says that every call comes back. The other five really stop: a fold, a
search and a replay are over, callers have had their promotion, and the audit list of
`mcp` reaches its bound.

## 4. Proofs

The theorems are checked by TLAPS with no unproved leaf. They hold for every value of
the constants that the named assumptions of the modules allow, which TLC evaluates on
each run.

| module | theorem | states | from |
|---|---|---|---|
| `DosyncProofs` | `TypeCorrect` | `TypeOK` always holds | `ConstantsOK` only |
| | `SnapshotIsolation` | `SnapshotStable` | `Premises` |
| | `NeverRefused` | `NeverRetroactive` | `Premises` |
| | `AtomsReadLatest` | `AtomReadsLatest` | `Premises` |
| | `Serializable` | `Spec` implements `SerialSpec` | `Premises` |
| | `EnsureIsKept` | `EnsureHolds` | `Premises` |
| | `CommitIsAtomic` | `AllOrNothing` | `ConstantsOK` only |
| | `EffectsAfterCommit` | `EffectsFollowCommit` | `ConstantsOK` only |
| | `RetriesArePaid` | `RetriesArePaidFor` | `ConstantsOK` only |
| `DatomProofs` | `LogIsWellFormed` | `LogWellFormed` | `ConstantsOK` only |
| | `NewestIsNeverHidden` | `NewestStaysVisible` | `CallersOnlyAssert`, `NoTies` |
| | `PathsAlwaysAgree` | `PathsAgree` | `CallersOnlyAssert`, `NoTies`, `ClosedComesLast` |
| `ReplProofs` | `AnswersAudited` | `OneEntryPerAnswer` | `ConstantsOK` only |
| | `ChainInOrder` | `StoredInChainOrder` | `ConstantsOK` only |
| | `ConnectionsApart` | `SessionsApart` | `ClockAdvances`: every tick of the clock is positive |
| `EffectProofs` | `TypeCorrect` | `TypeOK` | `EffectConstantsOK` only |
| | `RefusedNeverServed` | `GateHolds` | `PolicyFirst` |
| | `EntriesNameTheirCalls` | `LogFaithfulUnlessRaced` | `AuditOverRetry` |
| | `EveryCallAuditedOnce` | `AuditComplete` | `AuditOutermost` |
| | `PaidOnceThenRemembered` | `PaidOrRemembered` | `VendorGuarded`, `AuditOverRetry` |
| `PgProofs` | `SchemaKept` | `SchemaReady` | `PgConstantsOK` only |
| | `StoreIsOrderedLog` | `Spec` implements `OrderedLog` (`LogSpec`) | `PgConstantsOK` only |
| | `ChainStays` | `ChainUnbroken` | `SignedBatches`: callers sign their audit rows |
| `ReplayProofs` | `ReplaysAlign` | `RecordKept` | the constants' assumptions only |
| | `CounterfactualsBranch` | `WorldTouchedOnce` | the constants' assumptions only |
| | `CachePinsAnswers` | `CacheHonest` | the constants' assumptions only |
| `PromotionProofs` | `SkillsAreEarned` | `SkillsEarned` | `PromotionAssumption` only |
| | `LibrariesFollowTheStore` | `LibraryFollowsStore` | `PromotionAssumption` only |
| | `VerdictsStay` | `VerdictStands` | `PromotionAssumption` only |
| | `VerdictsAreSound` | `VerdictSound` | `WholeClock`: readings are whole microseconds |
| `McpProofs` | `AuditMatches` | `AuditAgrees` | `McpAssumption` only |
| | `RecallsComplete` | `RecallComplete` | `McpAssumption` only |
| | `ReplaysSound` | `ReplaySound` | `McpAssumption` only |
| | `SubscribersHear` | `SubscriberHears` | `McpAssumption` only |

### Transactions

`Premises` are what the code needs to be used under:

* `OneLock`: all writers share one `store._lock`, so one process per database;
* `ClockAdvances`: two clock readings differ. `any_datoms_since` compares times
  strictly, so a commit in the same microsecond as a snapshot would be missed;
* `RawApart`: plain `DB.transact` calls touch no reference of a dosync and no atom,
  and come from one thread;
* `AtomsApart`: a dosync that uses a reference that is an atom uses no other.

`DosyncTwoProcesses.cfg`, `DosyncPlainTransact.cfg` and `DosyncSharedAtom.cfg` drop
`OneLock`, `RawApart` and `AtomsApart` and find the theorem false without them.

**The argument.** Serializability is not inductive. `IInv` adds to it:

* `TypeInv`: types; tx ids within what was allocated; `Ordered`, that every set of
  asserts of a reference has a newest one and a last one (so that the two `CHOOSE`s
  mean something);
* `Places`, `LockHeld`: who can be where, and that between `Check` and `Append` a
  thread holds the lock, which with `OneLock` excludes every other append;
* `ClockBound`, `Recorded`: snapshots and `valid_from` values lie in the past, a datom
  starts no later than it is recorded. A commit therefore has a `tx_time` above
  every snapshot taken before, and the strict comparison finds it;
* `Footprint`, `SwapFresh`, `RawAlone`: which references each kind of caller touches;
* `AtomAlone`, `AtomOpen`: the write to an atom is alone in its tx, so only an
  overwrite of that atom can stamp it: the newest assert is also the last open one
  and the two readings of the log agree;
* `SnapshotStable`, `Ready`: under the lock, what the body saw at its snapshot is the
  current value, and the facts are what the commit should write.

`Ready` is where the parts meet: `Check` establishes it (no newer datom on a
touched reference, so `AsOf(t_start) = Current`), `Exclusion` keeps it until `Append`,
and there it is exactly the guard of `SerialStore!Atomically`. Each conjunct has a
lemma that says every step keeps it. `Serializable` then maps every `Append` and
`RawAppend` to one step of `SerialStore` and every other step to a stutter.

The last three theorems need none of the premises: they hold with
several processes, a clock that stands still, and plain transacts on any reference.

* `AllOrNothing` is inductive with `TypeInv`. Whoever has datoms in the log is in one of
  the places of `Landed` and keeps its facts from then on (`LandedKept`), and the two
  appending steps add the whole batch of a thread that had none (`BatchLands`).
* `EffectsFollowCommit` needs that a plain transact, which passes from `mark` to `committed`
  without emitting anything, has no intents (`RawQueuesNothing`).
* `RetriesArePaidFor` rests on `Paid`: every datom newer than the snapshot of a running
  attempt has a tx id above the number of conflicts met so far. A new snapshot makes it
  vacuous, an append takes a tx id above everybody's count, and a conflict, which has
  found such a datom, may therefore count one more.

### The datom log

`TypeOK` and `StampsExplained` become inductive with `LogInv`, and that needs no premise at
all: a call that has built its datoms knows which transactions they replaced, in the log
as it was when the call looked (`WroteOver`), and the log only grows under it (`Grows`).
So a stamp names a later transaction that replaced something of the stamped one, although
the call may set it long after others have appended, and may die before.

`NewestStaysVisible` is a statement about lists of facts as much as about interleavings.
`DateInv` says that every call reads a multiple of `Tick` of its own, so that under `NoTies`
no two asserts of a key tie in `valid_from` (`TimesApart`), and that a log so dated is tidy
(`Tidy`):

* every retract is a companion, right before the assert for which it makes room;
* the asserts it may close are those that a younger one outdates.

Two writers that race both replace the same assert; neither companion touches the winner.
The newest assert of a key is then one that no retract closes, and `entity()` shows it
(`EntityIsNewest`), forced corrections or not; the property that the theorem states asks for
that where no correction was forced, and for some assert everywhere, because the documents
want a corrected assert gone that the code goes on showing (section 5).

`PathsAgree` adds two loops that run side by side. The projection is at each position of
the log what holds the newest assert up to there (`ShownAt`): its `apply` ignores retracts of
older transactions, and the tidy log has no others. For `transact_batch`, the index has at
each position of the list the assert that a scan of the log and of the datoms built so far
would find (`IndexHolds`), and the two loops have made the same datoms (`Alike`).
`ClosedComesLast` is needed exactly there: a closed assert takes the one it replaces out of the
index and puts nothing in, while a scan finds the replaced one once more, see section 5.

The loops are recursive functions. That they are defined at all is shown with chains of
states (`ChainExists`), and what they compute for a list of any length by induction over
a set of positions (`Upwards`), with a least counterexample in place of the library's
induction operators.

### The REPL server

`TypeInv` has the shape of the registry: the record under a session id has that id.

* `OneEntryPerAnswer` is made inductive by `RequestInv`: a request is in one place, waiting
  for its answer at one connection or done with, and an entry is for one answered request.
  A handler opens a request nobody else has; what follows the answer closes it.
* `StoredInChainOrder` needs `ChainInv`: the last number of the ring is the last entry
  emitted in this life of the server, and an empty ring means that this life has
  emitted none. `_emit` links to the ring's last entry, which is therefore the chain's.
* `SessionsApart` is about both dates of a view but in `EditsAtHead`, which is about the one that
  an edit is checked by; what the code lets through is section 5. It needs `IdsApart`, that
  two connections never hold one session id, and `KnowsItsSession`, that the registry has
  the record a connection holds. Both fail without the premise `ClockAdvances` of the
  theorem, that the clock moves between handshakes: the id is a digest of token and clock
  (`repl/_session.py`), and two handshakes of one microsecond would share a record and its
  cursor.

### The Postgres store

`Inv` has four parts besides types.

* `PoolInv`: the connections that are in use were taken from the pool.
* `SchemaInv`: the history is a prefix of the migrations; what a process has read of it is
  still there; the one that migrates is the next one by its own list. A process that
  lost a race has nothing to apply, or fails.
* `CallInv`: a call number is with one client while it is open, and is answered when it is
  told. `TxInv`: who is past the allocator's row holds its lock, has the `tx` that the row
  then gave, and no batch has been appended since.

`StoreIsOrderedLog` maps the log to its call numbers: a landed commit is the one step of
`OrderedLog!Commit`, of a batch that nobody else has landed and at the place the caller is
told; time-outs, refusals and deaths of processes are steps of `Fail`, or stutters.

`ChainUnbroken` becomes inductive with `ChainInv`: the rows of an open call are
signed, and those of a call that has inserted are chained to the head as it is now. The
insert establishes that (`ReboundChains`), and nobody else can land meanwhile, because
whoever may land holds the allocator's row: the lock of the chain is not used in the proof,
it matters only to a writer that does not go through the allocator. A chained batch at the
end of an unbroken log leaves it unbroken (`Extends`). What the recursive functions of
`Built`, `Rebound` and `FlattenSeq` return is shown row by row, and that they are defined at
all, by the least length for which they are not. The premise is needed: a bare audit row
resets the head, see section 5.

### Replay

The facts recorded so far can be given back by the cache: each starts where the one
before it left off, and the cache answers each call as the world did (`RecordInv`). A
replay has three bonds with its parent trajectory: its position, that is what it has
copied, intervened on and re-executed (`FollowsParent`); its cache, which answers what the
parent's does, its own answers alike (`CacheInv`); and, if no intervention changes anything,
the very facts (`SameInv`). `DrawInv` counts the draws from the streams `llm` and `env`, which
a step that is not executed advances without using, so that these are aligned for every
agent; of the third it says only that an agent that takes nothing from it finds it untouched.
A no-op replay is the recording in full for such agents, and save for that stream for the
others. `FiredInv` says when the world may be touched at all.

### Promotion

`PromotionInv` has five groups, and every step of a call is first reduced to one form
(`GoesTo`): the call keeps its plan, its window and an approved record, and has passed G2
before or passes it with this step.

* `JobInv`: what a call has behind it by where it is. Only a call that was answered yes,
  after `MinCount` equal replays and a delta of at least `Epsilon`, has an approved record.
* `PassInv`: the first `at` datoms still hold the chain that G2 saw; the log only grows. Completeness
  follows, because the first entry of a verified window carries the genesis hash, and every
  other one the id of the entry before it, and an id determines the content it was taken of
  (`IdOnce`): an entry that one builds on cannot be missing, nor one of another run lie between.
* `SkillInv`, `CacheInv`: each skill datom is of an approved call's record, the companion
  retracts included; a library caches what is registered.
* `WriterInv`, `CountInv`: a call that is about to write has looked and found nothing, or has
  raced. A second registration of a plan therefore is always of a call that raced, and is
  paid for by that call when it stops being about to write.
* `ClosedInv`: a window that was over when G2 looked lies before the clock and before every
  entry that a server has built and not yet written (`Late`), so nothing that is still to be
  written falls into it.

`WholeRunPasses` needs that an entry comes back from its datom as it was hashed. It does when
clock readings are whole microseconds (`WholeInv`); for finer ones it is false (section 5),
which is why `VerdictsAreSound` has a premise and `VerdictsStay` has none.

### The MCP server

Each of the run's invariants speaks of what was answered. What makes it inductive is the
same said of the call that is under way:

* a recall and a check are decided when they begin and answered later. What they found is
  said of the prefix of the store and of the list that they saw (`Sound`), and both only
  grow (`StepExtends`);
* a session's entry names the entry that was last when the session read the tail, and no later
  place than it has (`EntriesFollow`, by the ghost `seen`), so a chain that looks broken has a
  foreign entry or one whose session read the tail before another append, before it took
  the length or after;
* every entry that claims a fact has one, and so has a call between its commit and its
  entry; the facts beyond that are no more than the calls that failed inside transact,
  answered (`FailedAnswers`) or about to (`Failing`). These two inequalities are `ClaimInv`;
* `RateInv` is about every instant at once: no fewer times are remembered since any instant
  the window can still reach than checks were admitted since (`Checked`), the one under way
  included. A check that is admitted finds fewer than the limit remembered, so the window
  that ends with it holds at most the limit.

`HitsAre` says of the operator `Hits`, for any log, that it lists distinct memories, all of
them or `k`; `RecentIs` that dropping from the left forgets no time the window holds.
Counting goes by `RanksAre` and by minimal counterexamples (`LeastNat`, `GreatestNat`).

### The handler stack

The constants allow a stack of any of the handlers in any order, and types are correct in
all of them (`TypeCorrect`). What else a stack promises depends on its order, and each
theorem names the order it needs:

* `PolicyFirst`: policy above the mock, the cache, the bucket and the vendor;
* `AuditOverRetry`: audit takes the commit out of `args`, which the attempts of a retry
  share; below retry, the entry of a second attempt would have lost it;
* `AuditOutermost`: an entry is written for what a handler above audit refuses or answers
  only if there is none;
* `VendorGuarded`: the bucket right above the vendor, cache and retry above both.

The canonical stack of the demo satisfies all four; `OrdersHold` in `MCEffectStack` has
TLC evaluate them for the stacks of the runs.

`Base` says, beside the types, where a thread can be (`Placed`): at a place that its call goes
through, at a handler that has the clause its phase belongs to. It also turns `Through`,
which the properties use and which speaks of masks, into membership of the call's
candidates. A step moves a thread in one of three ways: it sinks to the nearest candidate
below, rises to the nearest clause above that does something, or stays where it is. One
lemma per action says which, and `Before` and `Inside` (not yet beyond a handler, within
its clause) are all that the invariants need of a place:

* `GateInv`: a call that policy refuses has never got below policy, whatever else its
  thread or other threads do;
* `LogInv`: the commit of a call is in `args` until audit and with audit after that
  (`LinkInv`); threads in the unguarded lines know of each other (`Races`); and one that
  has met nobody reads back the operation it wrote and the tail it read (`Alone`);
* `AuditInv`: no entry is written for a call until it comes back through audit, and from
  there on one;
* `PaidInv`: a call has been performed as often as its attempts say, granted once more when
  it stands before the vendor; one whose answer is remembered never gets below the cache,
  because what a thread holds inside the cache's clause is the key of its own call.

TLC found no violation of the five on the instance of `effects`, before they were proved.

**Only model-checked.**

* Liveness (`EveryCallEnds`, `FoldEnds`, `SearchEnds`): fairness brings in `ENABLED`.
* `Mcts`, whose plans are trees described with `RECURSIVE` operators. A module that declares
  one cannot hold a theorem; and that visits are conserved is a sum over the edges of a
  graph that grows, an induction over its nodes.
* `Speculation`: the datoms of a fold and of a branch are counted and compared through filters
  over the log (`SelectSeq`), which are recursive as well.
* The configurations that refute a property.

## 5. Disagreements between code and documentation

Each was found while modelling, and each configuration named here has a trace that shows
it; `mcp_forget` is a run, the others are started by hand.

* **Forgetting does not forget** (`mcp_forget`): `persistence_forget` writes a retract that
  is valid from the time of the forget, and `DBView.entity` closes an assert only by a
  retract of the same `valid_from`. The memory is recalled for ever after, and a second
  forget succeeds as well.
* **Two processes on one database** (`DosyncTwoProcesses.cfg`, `EnsureHolds`): the conflict
  check is atomic with the append under an in-process lock only. The Postgres design
  (`docs/plans/2026-04-30-v0.8.0-postgres-store-design.md:741`) promises that with
  `tx.ensure` "exactly one commits; the other retries".
* **Plain transact beside a dosync** (`DosyncPlainTransact.cfg`, `EnsureHolds`): `transact`
  reads its `tx_time` before it appends, so its datom can be dated before a snapshot that
  did not see it, and the conflict check does not report it.
* **An atom in a dosync** (`DosyncSharedAtom.cfg`, `AtomReadsLatest`): `mark_invalidated`
  stamps every assert of a transaction, also on references that nobody replaced. An atom on
  such a reference reads `None` or an older value (`txn/atom.py:132`: "Read the latest value
  of this atom").
* **Asserting the same value again at the same date** (`DatomLogReassert.cfg`,
  `NewestStaysVisible`): the companion retract matches by value and `valid_from` and closes
  the new assert with the old one. Two idempotent commutes in one dosync do this
  (`txn/_commute.py:84-93`), and the key vanishes.
* **A forced correction closes nothing** (`DatomLogForced.cfg`, `CorrectionCloses`): the companion
  retract of a retroactive correction is valid from the date of the correction. It should
  close the prior assert "from the new effective date onward" (`fact/db.py:216-220`, and so
  `fact/db.py:265-270` and `tests/fact/test_db.py:120-125`), but at that date `entity` finds
  no assert of the old value to close. The prior assert, which is dated later, stays what
  `entity` shows, as if nothing had been corrected; the test looks at the retract alone.
* **A closed fact between two open ones** (`DatomLogClosed.cfg`, `BatchEquivalent`): given one
  key three times, open, closed by `valid_to`, and open again, both write a companion retract of
  the first for the second; for the third, `transact` finds the first once more and retracts
  it again, where `transact_batch` has dropped it from its index and writes none (`fact/db.py:351-353`:
  "Equivalent to ``transact`` for correctness — the same companion retract datoms are
  emitted").
* **Projection and retract** (`DatomLogProjection.cfg`, `ProjectionMirrors`): `DictProjection`
  compares the retract's `tx` with the winner's and never finds them equal; `entity` goes by
  value and date, and `fact/projection.py:79-80` says that the two mirror each other.
* **Audit after the answer** (`ReplDisconnect.cfg`, `EveryOpAudited`): the entry is emitted
  after the answer; if the client has left, the send raises and a committed edit or a
  handshake has no entry (`repl/_ws.py:495`: "every auth attempt is audited").
* **Edits while the valid time is set back** (`ReplValidTime.cfg`, `EditsAtPresent`): a rewind may
  set the valid time alone (`repl/_ops.py:336-345`, `tests/repl/test_rewind.py:141`), and the
  check of an edit, under the comment "Stale-cursor reject: edits at HEAD only"
  (`repl/_ops.py:557`), looks only at the transaction time: the edit is committed.
* **The bucket credits a sleep twice** (`EffectBucket.cfg`, `NeverDoubleSpent`): a caller
  without a token leaves the bucket empty as of the time before its sleep; the next caller
  is credited the time of that sleep again, and more calls pass than capacity and refill
  allow (`effect/handlers/rate_limit.py:5-6`: "never double-spend tokens").
* **Updates through `DB.transact` on Postgres** (`PgUnique.cfg`, `UniqueNeverFires`): a
  companion retract and the assert that replaces it share tx, entity and attribute, which
  `UNIQUE (tx, e, a)` refuses; `store/postgres.py:23-27` expects that only from code that
  bypasses the allocator.
* **A checkpoint for every item** (`SpeculationCheckpoint.cfg`, `CheckpointEveryItem`): with
  `checkpoint_every=0` an item without facts does not move the checkpoint, since `_flush`
  returns early; the docstring of `fold` says that the accumulator after each item does.
* **Lineage of a counterfactual** (`ReplayLineage.cfg`, `LineageIsApplied`): of two
  interventions at one step only the later is applied, but `lineage` lists both
  (`replay/engine.py:164-170`).
* **The stream of the tool domain** (`ReplayTool.cfg`, `EveryDomainAligned`): the engine makes three
  random streams and relies "on the convention that agent_step takes exactly one draw per
  domain per step" (`replay/engine.py:56-61`), but advances `llm` and `env` only for the steps
  that it does not execute (lines 65-66 and 257-258, after a comment that names these two): an
  agent that keeps to the convention draws from `tool`, after a copied or an intervened step,
  what it drew some steps earlier.
* **Repeated rejections** (`MctsClaims.cfg`, `RowsDistinct`): rejected proposals that one answer of
  the expander repeats have one row id, which `plan/_mcts_datoms.py:151` calls "unique by
  construction within a search". `RowsAgree` says that these are the only ones, and alike.
* **Cycles of plans** (`MctsClaims.cfg`, `GraphIsADag`): `plan/_mcts.py:346` has it that "the search
  graph is a DAG over plan ids", but an expander whose proposals lead back to a plan before
  closes a cycle, and the walk of `SELECT` (lines 935-940), which stops at a plan without
  children, goes round it for ever: no limit on iterations is looked at inside.
* **Calls without an entry** (`McpSchema.cfg`, `EveryAnswerAudited`): a call of an unknown tool, or
  one with arguments that the schema refuses, returns before it reaches a handler
  (`sdk/mcp/_server.py:345-370`) and leaves no audit entry, where `sdk/mcp/_tools.py:25` says that
  "every tool call appends exactly ONE entry".
* **Time stamps of audit entries** (`PromotionClock.cfg`, `WholeRunPasses`): `recorded_at` is a
  float in the entry that is hashed and a datetime in the store; a reading finer than a
  microsecond does not come back, and G2 fails a chain that nobody touched.

Observed in the code, without a configuration of their own:

* `store/postgres.py`: of several writers that wait for a row all but the first fail to
  serialize, and the budget of retries is per call; a lock time-out and an exhausted pool
  are not retried; of two processes that open a new database at once one fails in
  `__init__`; an audit datom without a signature resets the head of the chain although the
  comment says it does not (`BareKeepsHead` in `PgStore`); `allocate_and_append` returns the
  datoms as they were before they were rebound.
* `fold_into(on_error="skip")` also skips over answers that break the contract of `fn`;
  `committed_count` counts what other writers appended between its two measurements
  (hence `CountsOwnUnlessRaced`).
* `replay/`: an intervention on `state` does not reach later steps; a preference pair made
  from an intervention on `action` has two equal answers; a trajectory that came over the
  wire, or is itself a counterfactual, can only be replayed where nothing is re-executed
  (`LostCacheIsLoud` says that it at least raises).
* `repl/`: an edit is refused after a branch as after a rewind, where the design
  (`docs/plans/2026-04-28-v0.7.0a1-module-7-repl-design.md:839`) has operators branch in order to
  edit; `inspect` without dates of its own follows the transaction time of the view and not
  its valid time (`_ops.py:81-93`).
* `plan/_promotion.py`: a window that does not start with the first entry of a chain fails G2.
  `plan/_skill_library.py`: a library that found a skill in the log has no record for it and
  `lookup` answers `None`; two libraries that register at once both write (`raced`).
* `sdk/mcp/`: an error entry of a remember or a forget does not say that nothing was stored: what
  raises inside the `try` (`_tools.py:333-370`) may be the walk of the log after the append, or a
  `COMMIT` whose answer was lost (`FactsMatchAudit` allows for it). `replay_check` reports a
  mismatch for a window with an escape-hatch dict or with
  the entry of a session that another one overtook between its readings of the tail (line 145)
  and of the length (160) or before its append (`MismatchExplained`); the rate limit "per token" is
  per server object; a subscriber learns of other writers' entries with its own next call.

Not a disagreement, but a condition of `LogFaithfulUnlessRaced`: threads on one runtime
that are in the audit clause at the same moment may chain two entries to one head,
or record each other's operation. `effect/CHANGELOG-effect.md` (18-25) claims no
concurrency of this kind, so the property excludes those calls, and only those:
calls that overlap elsewhere are covered.

## 6. What is not modelled

* In `txn/`: staged facts (`tx.add_facts`) outside forks, nested calls (refused at the door),
  spec registries (a failed spec is a body that raises), commutes other than an
  addition, refs of another branch.
* In `fact/`: a `mark_invalidated` that raises after the append (`db.py:465-466`): append and stamps
  are one step of `Dosync`, and `DatomLog` lets a process die between them. `history` and
  `causal_history`, which filter the log; `branch(t)`, a copy of it; the wire format and the
  mem0 adapter, which convert one datom at a time.
* In `store/`: the codec, indexes, the drift check of migration checksums, SQL for
  `mark_invalidated` (its effect is in `DatomLog`).
* In `repl/`: capability tables, token minting and revocation (any request may be
  refused), the command line and the browser UI, JSON-RPC parsing (a frame that
  does not parse is `PreAuth`'s kind of answer: unaudited, without effect).
* In `effect/`: arguments that cannot be hashed, for which the audit clause raises before its `try`
  and leaves no entry (`handlers/audit.py:421`); redaction (`pii_redact`), the refusal of
  effects inside a dosync body (that effects wait for the commit is in `Dosync`),
  `with_runtime`, the catalog, the wire form and hashes of entries (an entry is known by its
  place), a bucket without refill, which raises; clock, sleep and random handlers are the
  variable `now` and a deadline. `effect/handlers/code.py` runs snippets in an interpreter,
  which is Python's behaviour and not this program's.
* In `replay/`: scoring and the regression report, which are arithmetic on finished trajectories.
* In `plan/`: the arithmetic of PUCT (any edge may be chosen), the metric that G3 compares (any
  number), and parsing, editing, optimizing and executing plan trees, which are sequential and
  reach the rest of the system through effects only.
* In `sdk/`: `open` and `close` with the runtime they activate, URIs and stability decorators; of
  the MCP server what a schema takes (any call may be refused), token minting, tag filters of a
  recall and the experimental HTTP handler; a server and a database with clocks of their own
  (`create_server` can replace the server's alone; `McpServer` has one); and the moment between
  a response and the notification after it (`_server.py:526-531`), one step in `Answer`.
  `spec/` is pure.
* Crashes inside SQLite or Postgres: an append is atomic there.

## 7. Plan

In order of importance:

1. Composition: `ReplServer`'s edits and `McpServer`'s facts as writers of `DatomLog`, with
   application threads beside them; `Dosync`'s append on `PgStore` with several processes.
2. The life cycle of `Substrate`: `open`, `close`, the runtime it activates and restores, and calls
   after `close`; with it the refusal of effects in a dosync body.
3. `branch(t)`, whose copies carry the stamps they got after `t`.
4. `plan/_execute.py` over `EffectStack`: which effects a plan that fails half way has had.

5. `Speculation` with sets of positions in place of filters, as in `Promotion`, and then the
   part of it that counts nothing (`OnlyTheChosenLand`) as a theorem.
