# machinum-pipeline: a verification development

TLA+ modules, TLC configurations and TLAPS proofs about machinum-pipeline, a
resumable stream-processing pipeline for text (books, chapters) with LLM tools.
A pipeline is an async-iterable chain `source -> step ... -> target`, possibly with
parallel forks, run by `packages/core/src/engine/runner.ts`. A run leaves
`.mt/runs/<id>/state.json` (state machine and checkpoint tree with one *cursor* per
pipeline level), `events.jsonl`, and the outputs of its targets. `resume(runId)`
restarts a run from that record, in another process if need be. Whether such a
resume duplicates or *loses* output is what this system is hardest to get right
about, and what the first modules are for.

## 1. Inventory

| Component (source) | State | Operations | Talks to | Hard behaviour | Correct when |
|---|---|---|---|---|---|
| Runner, cursors and persists (`core/src/engine/runner.ts`, `checkpoint.ts`) | checkpoint tree, `openTargets`, `writesSincePersist`, `persistDirty`, `persistInFlight`; files `state.json`, `context.json` | `buildStream`, `writeTarget`, `recordCursor`, `persistState`, `clampCursorsToCommitted`, `schedulePersist`, `drainPersists`, `flushPersists`, `failRun`, `resume` | targets (`write`, `checkpoint`, `close`), sources (`resume`, `start`), store | persists race with the write loops and with each other; crash anywhere; a rejected `open`/`close`/rename | a resume skips only durable output; a done run is complete; every session ends |
| Runner, life of a run (`runner.ts`) | `stateMachine.current`, loop index, event log | `start`, `resume`, `pause`, `unpause`, `executeSteps`, `markRunDone`, `failRun`, `emitEvent` | state machine, store, CLI, backend | pause and unpause at any await; failures while paused; order of persist and event | the loop runs on a machine that may finish; done means all steps; the end is announced |
| State machine (`state-machine.ts`) | current state | `transition`, `canTransition` | runner | - | illegal transitions throw |
| Nested streams (`runner.ts` groups, batch scopes, forks and subflows; `batch-scope.ts`) | checkpoint nodes, scope members, branch outputs | `groupStream`, `batchScopeStream`, `forkStream`, `parallelForkStream`, `subflowStream` | runner, tools, `batch://` waypoints | branches that settle in any order over one payload; several stages editing one group; a failing branch; node ids over a resume | outputs come in declared order from copies of their own; members leave as committed |
| mapConcurrent (`engine/stream.ts`) | window of pending slots | seed, await head, pull, emit, return | upstream iterator, tool function | failures with others in flight, end of the source, a consumer that leaves | order kept, window bounded, nothing after the failure |
| Tool execution (`retry.ts`, `cache.ts`, `dead-letter.ts`, runner 815-913) | attempts, cache entries, dead-letter file | `withRetry`, cache get/put/clear, policy per item | mapConcurrent, LLM tools | retries, timeouts, concurrent equal keys | attempts bounded, an item is emitted, dropped or fails exactly once |
| Atomic files and store (`atomic.ts`, `store.ts`) | temp files, outputs | write, rename, sweep, backpressure | runner, targets | crash between write and rename; sweeps of a temp file in use | old or new content, never a mixture, never another's |
| Waypoints: files (`packages/waypoint`) | per-source position, per-target files and counters | open, next/resume, write, close, checkpoint | runner | resume against output of an earlier session | see the first row |
| Waypoints: HTTP and events (`http-server.ts`, `events.ts`) | buffer, waiting consumer, counts, subscribers | ingest, pull, stop, tail | HTTP clients, event log | late requests, limits, clients that vanish, shutdown with open connections | no acknowledged item of a run is dropped, a full count ends the run |
| Ephemeral buffers (`ephemeral.ts`, `entity-buffers.ts`) | in-memory maps | put, flush | suites | content over a resume | a reader that resumes finds what its producer is recorded to have written |
| Git worktrees (`engine/git*.ts`) | branches, worktrees, the operator's checkout | open, commit, rebase, merge, remove | git, operator | one step of several fails; the operator works meanwhile; a killed run's leftovers | no committed work is lost; shared branches only grow |
| Exchange variables (`exchange.ts`) | variable scopes | set, push, merge, fold, unfold | nested streams, tools | what a group changed against what its members had | see nested streams |
| Vault (`embed.ts`, `vault.ts`, `commands/vault.ts`, `master-key.ts`) | store file, keyring, key files, `vault.json`, memoized store | add, rotate, generate, use, retire, remove, re-key, resolve | CLI commands, router, tools | commands without a lock; two files per change; a re-key that fails halfway | the store opens, references resolve, no stale secret is read |
| Router (`packages/router`) | registry of upstreams, key pools, cost log, day | reload, pick, block, disable, check budget, log | OpenRouter, vault | requests that hold an old pool; concurrent calls at the budget; midnight; restarts | refused keys stay out, reloads keep pools, overspending is bounded |
| LLM calls (`tools/src/core/llm-*.ts`, `openrouter-pool*.ts`) | pin, pool, cache, attempts, corrections | prepare, call, retry, refit, fail over, correct | router, model, tools | calls that share a pin; late answers; every kind of error | no model is tried twice, the pin moves off failed models only, calls settle |
| Text tools (`llm-context.ts`, `chunk-processor.ts`, `translate-text.ts`, ...) | messages, chunks | shrink, split, merge | LLM calls | two computations of one budget; strategies that run after each other | protected messages survive, chunks are the text, chunks are sent whole |
| Backend (`packages/backend`) | runner registry, event tail | start, pause, resume, tail | runner | requests against a run that settles | events delivered in order |
| DSL, settings, CLI, MCP, user interfaces | static values, files | construction, parsing, presentation | all | little state | - |

`PROJECT.json` lists the components with their status and the hazards, each at
the line where it bites.

## 2. Plan

Done are the modules of section 3. What remains, in order of importance:

1. `NestedStreams` over a resume: a group that is re-formed from another offset after a
   crash, in one model with `DurableCursor`'s persists.
2. **EventsSource** composed with `RunControl`: a source that follows the event log of its own
   run waits for a terminal event that comes after the source has ended.
3. `FailedRun`: `ToolStage` with `RunControl`; items of a failed run go on writing cache and
   dead letters after `state.json` says `failed`.
4. The answers of tools that merge by id (`proofread.ts`, `proofread-xml.ts`), as operators.

Abstract specifications: `AtLeastOnce` (what a resumable run promises), `SequentialStage`
(what later steps see of a tool step), `AcknowledgedQueue` (what a 200 of the ingest endpoint
promises). Each component has one passing run; runs that would ask the same
question of two instances are one instance that has both.

## 3. Modules

| Module | Models | Kind |
|---|---|---|
| `AtLeastOnce` | what a resumable run promises | abstract specification |
| `DurableCursor` | cursors, target output, persists, crash and resume | component |
| `RunState` | the transition table | operators |
| `RunControl` | start, pause, unpause, resume, terminal phases, events | component, extends `RunState` |
| `SequentialStage` | what later steps see of a tool step | abstract specification |
| `ToolStage` | `mapConcurrent` and the items in flight: cache, retries, error policy | component |
| `Exchange` | exchanges and their variables | operators |
| `BatchScope` | the state of one group of a batch scope | operators, extends `Exchange` |
| `NestedStreams` | groups, batch scopes and forks inside a stream | component, extends `BatchScope` |
| `SuiteRun` | sub-pipelines that hand over, over resumed sessions | component |
| `AtomicWriter` | `AtomicStreamWriter` and `atomicWriteFile` on one path | component |
| `HttpSource` | the ingest server and its generator | component |
| `HttpToFile` | `hs:// -> jsonl://` through `writeTarget` | composition of the two |
| `AcknowledgedQueue` | what an acknowledgement promises | abstract specification |
| `GitWorktree` | worktree targets beside an operator | component |
| `Keyring` | the contents of a secret store and its edits | operators |
| `SecretStore` | the commands and readers that share one store | component, extends `Keyring` |
| `UpstreamPools` | registry of upstreams, key pools | component |
| `RouterCalls` | requests through budget, pool, upstream and log | component, extends `UpstreamPools` |
| `LlmCall` | calls that share a pin and a key pool | component |
| `ContextFit` | shrinking messages to a token budget | component |
| `LongText` | one call or a call per chunk | component, extends `ContextFit` |
| `MC*` | instances for TLC | model-checking modules |
| `*Proofs` | theorems about `DurableCursor`, `GitWorktree`, `HttpToFile`, `SecretStore`, `SuiteRun` | proofs |
| `EngineProofs` | theorems about `RunControl` and `ToolStage` | proofs |
| `SequenceProofs` | theorems about `NestedStreams` and `LongText` | proofs |
| `ModelCallProofs` | theorems about `RouterCalls` and `LlmCall` | proofs |

Every component module has a type invariant, which describes its state. It is proved for
every component with a module of theorems; elsewhere it serves the reader and was an invariant of
the run while the module was written.

### DurableCursor

*State.* For every level with its own source and target (the top-level pipeline, or
the self-contained branches of a parallel fork): where its write loop stands (`at`),
the node's `cursor`, `start` (`sourceStart`), `base` (`baseCursor`), `written`
(`envelopesWritten`), `committed` and the durable output `out`. Of the run:
`openTargets`, `writes` (`writesSincePersist`), `dirty` (`persistDirty`), the three
callers of `persistState` (`drain`: the throttled mid-run persist; `main`:
`markRunDone`, `failRun`, `flushPersists`; `ctl`: `pause`/`unpause`), each with what
it serialized, and `disk`/`diskDone`, the content of `state.json`.

*Data abstraction.* A level's source yields `N` envelopes; the steps between source
and target are the monotone function `Before`: how many envelopes the target gets for
the first `c` of the source. `OneToOne`, `SecondDropped` (skip-item, dead-letter) and
`FanOutTwo` (flatMap) are its instances. Output is a set of slots holding the
envelope's number. The four target kinds are the ways the shipped targets (and the
`Target` interface) make output durable: `keyed` and `indexed` file per envelope,
`rename` on close, and `commit` for append-only sinks that answer `checkpoint()`. No
shipped target implements the optional `checkpoint()` hook yet; `commit` models the
contract the interface documents, since the runner's clamp exists for it.

*Actions.* One per piece of code between two awaits. `OpenTarget` .. `StepDone` are
`writeTarget` and the target step that follows; `TargetWrite` and `RecordCursor` are
the two sides of the await of `target.write()`. `Clamp` is one answered
`checkpoint()` of the loop in `clampCursorsToCommitted`, which goes on to the next
index of `openTargets` *as it is then* (`NextEntry`). `Land`/`LandFails` are the
rename over `state.json` and what the caller does next. `Control`, `EndRun`, `Flush`
begin a persist. `Crash` drops everything but the files, `Resume` starts over from
them.

*Choices a reader should know.*
- Two awaits are no yields: from the last clamp to the serialization, and
  `clampCursorsToCommitted` without an open target. Both only hop through the
  microtask queue. A persist starts either from an I/O callback, when nothing else is
  queued, or inside the write loop's own continuation, whose next `recordCursor` is
  more hops away (`trackStep`'s generators lie between). No other task runs first.
- `Land` is the rename together with the continuation of its caller. Another task may
  run between the two, but it neither reads `state.json` nor the persister's
  variables, so the order does not matter.
- The first persist of `start()` writes cursors of 0, the model's initial record;
  `RunControl` models it as a step.
- `CompleteNested` may be repeated, the code runs it once per branch that succeeded;
  more persists only add behaviours. `Control` may happen after a failure in any
  state (the code needs the machine to be paused): again more behaviours.
- A failed `checkpoint()` counts as 0 committed, as the code has it; an answer may be
  older than what has been committed meanwhile (`reported \in 0..c`).

### RunState, RunControl

`pc` names what `start()` or `resume()` is awaiting; `state` is the machine's
state, `log` the last event, `snap`/`disk` the state a persister serialized and the
one in `state.json`. `Calls` are `pause()`/`unpause()` calls of other tasks (CLI
signal handler, backend routes): each changes the machine synchronously, then
persists, then appends its event, with the step loop running in between. One
iteration of the loop stands for the stages of a pipeline up to a target, where
`buildStream` awaits; with sources and transformations alone the loop runs through
without a yield that could be observed. A pause is seen at `gate` only, as in the code
(the poll of `buildStream`). `PersistRejects` is a store failure at any persist, with
what each caller makes of it: the drain warns, the flush warns, `failRun` logs, a call
rejects, `start` and `markRunDone` throw. `Resume` takes any record that is not done
and drives the machine through `resumed` to `running` as far as the table allows.

The machine's `checkpoint` state is never entered by the engine; it stays in the
table.

### SequentialStage, ToolStage

*State.* Of the generator `mapConcurrent`: `gen` names what it awaits (`seeding` and
`pulling`: `iter.next()`; `awaiting`: the head's promise; `yielded`: its consumer;
`releasing`: `iter.return()`), `reason` why it has ended, `pulled` is `nextIndex`,
`pending` the window, `head` the slot that is shifted but not resolved, `out` what the
consumer got. Of `runToolItem`, per item: `item` says what it awaits (`lookup`,
`invoking`, `backoff`, `caching`, `deadLettering`) or how it settled (`result`,
`dropped`, `error`), `attempt` counts calls of the tool, `fatal` whether the last one
failed with `retryable: false`. Files: `cache` (the keys with an entry) and
`deadLetters` (the lines of `dead-letter.jsonl`).

*Actions.* `SourceYields`, `SourceEnds` and `SourceThrows` are the three answers of
`iter.next()`; each runs on to the next await, so in the loop it also resolves the head
(`Resolve`: throw, yield or go on). `HeadSettles` is the await of the head's promise;
when the source has ended there is nothing to pull and the head is resolved at once.
`ConsumerNext` and `ConsumerLeaves` are the two ways a consumer goes on after a
`yield`, `Release` the end of the `finally` block. `Lookup` .. `DeadLetter` are the
awaits of one item, `ItemStep(i)` any of them.

*Choices a reader should know.*
- Every item in flight is a task of its own. It goes on after the stage has failed or
  was left, as the promise does in the code: nobody cancels it.
- The head is resolved after the next pull has answered, as in `stream.ts:70-76`. A
  pull that rejects takes a finished head with it, and a source that never answers
  withholds it.
- `size` and the error policy are chosen in `Init`, so one run covers all.
- Only `ordered: true` is modelled; `runTool` passes it, and no caller in the
  repository asks for the other mode. The window is at least 1, as
  `Math.max(1, Math.floor(...))` makes it.
- `exists()` and the read of a cache entry are one step: an entry that vanishes or is
  torn between the two is a miss, and so is any failure (`Lookup`'s second disjunct).
  A failed `cache.set` may or may not have left the entry.
- An item whose key cannot be computed is treated like one of a tool that is not
  cacheable (`NoKey`), which is what `tryCacheGet` makes of it.
- A cache starts empty: entries of earlier runs are left out, so that a result can be
  traced to a call of this run.
- How long a backoff lasts, what an error says, and `Cache.clear`/`has`, which no
  step calls, are left out. A rejecting `iter.return()` ends the stage all the same.

`SequentialStage` is what is left when the window is taken away: items are given one
by one in order, each passed on or passed over, until the stage is complete, fails or is
closed. `ToolStage` implements it with `given` as the items that have left window and
head.

### Exchange, BatchScope, NestedStreams

*State.* `Exchange` has an exchange as its id, its variables (a function on name and
qualifier, the payload being the variable `item`) and, for a folded group, `members` and
`base`. `BatchScope` is a record of the folded group, the group's edits (`groupVars`) and the
committed members (`patched`). `NestedStreams` is one pipeline
`source -> .batch(Size, scope) -> .fork -> target`: `pc` is where the target's pull
is, `views` what the scope's stage has still to run, `ready` the members that left the scope,
`branch` and `payload` the branches of the fork, `nodes` the checkpoint nodes; `due` is history.

*Actions.* `EnterScope` .. `LeaveScope` are `groupStream` and `batchScopeStream`; a tool of a
stage may leave, set or push a variable or replace the payload (`Results`). `EnterFork`,
`BranchWrites`, `BranchEnds`, `BranchFails`, `Settle`, `Emit` are `parallelForkStream`;
`PassOn`, `ChildEnds`, `ChildFails` the sequential fork.

*Choices a reader should know.*
- Streams are pulled, so the only concurrency is that of the branches of one parent.
- A branch's copy is what `cloneEnvelopeForFork` makes; `Reached` says which copies a write
  in place reaches.
- Group stages come before member stages, and a stage writes values of its own: otherwise
  the named divergences of section 4 (`batch_*`) apply and `MembersAsCommitted` does not hold.
- A completion event that the store refuses leaves `Settle` at once, later branches keep their
  `in-progress` nodes. Pause, sliding groups, groups without a scope, meta and blank values
  are left out.

### SuiteRun

*State.* The stage being run, the checkpoint `nodes` with duplicates over sessions, `held`
(what each stage's target holds), `flight` and `saved` (a snapshot under way and
`state.json`). A resumed session walks every stage again, appends a second node of the same
id and looks the *first* one up (`findNode`) for the cursor. `docs/guiding/architecture.md:78`
speaks of skipping nodes that are `done`; no code does, and the second node stays
`in-progress` in a run that is done.

*Choices.* Media are one file per envelope and named in-memory buffers; a rename target in a
suite loses output as `cursor_rename` says. `MCSuiteRun` takes buffers only behind a
stage that replays (see `suite_handoff` in section 4). Crashes and failures happen at every step;
only one mid-run persist is under way at a time, the rest is `DurableCursor`'s matter.

### AtomicWriter, HttpSource, HttpToFile, AcknowledgedQueue

*State.* `AtomicWriter`: per writer what it awaits, the temp names it has still to sweep,
chunks handed to the stream and flushed, the inode it holds; the directory as temp names and
the inode at the path. `HttpSource`: what the generator awaits (`src`), what became of each
request (`req`), `buffer`, the `hand` of the resolver, counts and subscribers. `HttpToFile`
adds `stage`, what `writeTarget` awaits.

*Choices a reader should know.*
- A descriptor survives the sweep of its name, so a swept writer goes on writing and fails at
  its rename. Tags of temp names are the writers' own (`OwnTag`); see `shared_temp`.
- `OneRival`: one other writer (a stream or a whole-file write) works at a time.
- A 200 for an item over `count` promises nothing (`surplus`); items that wait in the buffer when
  the pipeline fails or dies are gone, which `AcknowledgedQueue` allows (`Break`).
- A client that leaves while its body is read rejects an async handler nobody awaits
  (`http-server.ts:155`): the process ends, like with any crash. A port in use is the same.
- Clients need not finish a body nor send anything; the server's close does not wait for them.

### GitWorktree

*State.* `head` per branch and of a HEAD without one (a sequence of commits each), the
operator's checkout, per target its worktree, base, uncommitted output and what it awaits,
`warned`; `committed` and `astray` are history.

*Actions.* The git commands of `openWorktree` and of `close` (commit, rebase, the check of
the operator's checkout, fast-forward, removal of worktree and branch), each of which may
fail, and the operator who switches, detaches HEAD, edits and commits between any two. `Restart`
leaves branches and worktrees behind. `git merge --ff-only` moves whatever is checked out when it
runs and is content if that has the branch already; `git branch -d` asks HEAD, not the base.

*Choices.* Commit on close only. An output git ignores is not modelled (`ignored_output`).
Known and allowed by the properties: an operator who switches branch between the check
and `merge --ff-only` has the wrong branch fast-forwarded (`docs/steering/waypoint.md:164-166`
describes the check); one who detaches HEAD then has the commit on no branch (`detached_merge` in
section 4), which `astray` records and the properties except; a worktree starts at HEAD, not at its base; a crash leaves a branch that
makes a resumed run with a fixed branch name fail to open; a failing commit is warned of
while the output goes with the tree.

### Keyring, SecretStore

*State.* `Keyring` has the contents of a store as keys and sealed secrets, and every edit as
the set of contents it may lead to. `SecretStore` has the file with its signature and
password, key files, the operator's exported password, `vault.json`'s entries, per command
what it awaits and has read (`job`), and a reader with `storeCache`.

*Actions.* One per await of a command: locate, load, edit and save, entry, peek, record,
check, write key, verify, roll back; `Killed` at any of them; the reader's stat and read.

*Choices.* The code compares a time stamp and a size, so a new file has a signature of its own or
that of an earlier one (`Signatures`); only one that the reader holds makes a difference.
`ties` records those, and `ReadsAreFresh` excepts them (`same_tick` in section 4).
Nothing locks the files, so two commands at once lose one edit: `excuses` records
what the operator did (`raced`, `cut` short, `forced`, `removed` a key in use) and a property
that cannot hold then says so. `MaxFaults` writes may fail; a rollback that fails is a second one.
`embed-add --kid` seals with a retired key although `retireEmbedKey`'s comment says "never used
for new writes"; `peek` takes an unreadable secret for none. `keepass` and `vlt` backends are
read-only and left out; the router's `embed.ts` is a synchronous copy of the reader.

### UpstreamPools, RouterCalls

*State.* `registry` (spec and pool per upstream), `pools` with `disabled` and `blocked` keys,
the vault; per slot the request (`call`) with its pool, key and remaining calls, `log` per day
and client, `day`, `boots`; `peak` is history: how many requests were under way at once.

*Actions.* Reload on a changed vault, expiry of a pool, check of the budget, pick, send, 402,
429 with its one retry on another key, success, append; midnight, restart.

*Choices.* A `retry-after` that is an HTTP date counts as no time at all, so it lifts a block
(`Limited`); the log's rotation at boot lets a day start over; a failed append is reported on the
console only. `translate` makes its calls after one check; a request that brings keys of its own gets a pool
of its own (`translate.ts:72-75`), shares nothing with others and is left out. Marks made on a pool that was
replaced meanwhile are lost with it; the property speaks of one pool. Streamed answers
are not logged (`unlogged_stream`).

### LlmCall

*State.* The shared `pin`, `disabled` and `blocked` keys, `cache`; per call what it awaits,
`asked`, `managed` (the pin is in charge), `current`, `failed` models, attempts, refits,
corrections; `late` requests that a timeout has given up.

*Actions.* `llmPrepare`, the pin's loop, cache lookup, pick of a key, send, each answer
(success, 402, 404, 429, length, server error, timeout, a late one), refit, correction, return.

*Choices.* How long waits last is left out; a blocked key may come back at any time and the pool's
disabled keys are forgotten when it expires, as in the code. Answers are cached before they are
checked. A call with a model of its own is not managed, unless it names the pinned one.
Names that `RouterCalls` has too are lengthened here (`CallSpec`, `CallKeys`, `keyPool`), so that `ModelCallProofs` can extend both.

### ContextFit, LongText

*State.* `ContextFit`: the messages as asked and as they are, the budget, strategies and how far
they are. `LongText` adds the text (words with the strength of the break before each), the
chunks and the answers.

*Actions.* One turn of a strategy's loop each; `summarize` may answer any size or fail. In
`LongText` the split, one call per chunk through the same fitter, the merge.

*Choices.* One character is one token, joiners weigh nothing, chunks do not overlap and are
called one after the other (`ToolStage` has the concurrency). The budget of a chunk and the budget of the
call that carries it are two readings of the settings. The first one sets aside what it takes the prompts
for (`prompts`) and what it holds back for the answer (`held`: `outputReserve` and the reasoning
reserve); the second counts the prompts that are sent (`SystemSize`, `PrefixSize`), holds back
`context.reserve` or the answer's tokens, and keeps to `context.maxTokens`. Summary and proofread render
their prompts before they guess, `translate` does not (`translate_estimate` in section 4).
`Covers` says when the first is enough for the second, and `ChunksAreSentWhole` asks for it; the
last two of the run's settings have a guess that is too small, once covered by
what is held back and once not. `MT_CONTEXT_LIMITS` and the automatic limit, which only the gate's fitter
applies, are settings of the call alike. Also: the conversation ends with the user where `summarize` is on
(`summary_last` in section 4), and loops the code caps at 100 are not capped. A chunk that is too
large for one strength of break is split at the next weaker one: at most four times, which
`Chunked` writes out, and the greedy grouping is a function of where groups begin (`Starts`).
Names that `NestedStreams` has too are avoided (`ToolSpec`, `ToolTypes`, `Unset`), so that
`SequenceProofs` can extend both.

## 4. Runs

| Run | Instance | Properties |
|---|---|---|
| `cursor_single` | one level, append-only target with `checkpoint()`, 3 envelopes, the second dropped, persist every 2 writes, failures, 3 sessions, fair scheduling | refinement `DeliversAtLeastOnce`, `SessionEnds` |
| `cursor_forks` | two branches: one that resumes and writes a file per envelope, one that replays from the start into a file published on close; failures, 2 sessions | `ResumeLosesNothing`, `DoneIsComplete` |
| `control` | 2 target stages, 2 control calls, failing steps and store, 2 sessions, fair scheduling | `ExecutingMayFinish`, `DoneMeansComplete`, `FinishedIsAnnounced`, `EndsOrIsPaused` |
| `tool_stage` | window of 2, up to 4 items of which two share a key and one has none, one retry, every policy, everything may fail, fair scheduling | `WindowIsBounded`, `NothingVanishes`, `ResultsAreEarned`, refinement `IsSequential`, `StageSettles` |
| `nested` | 3 envelopes in groups of 2, scopes of up to two stages, a sequential fork or three branches with 1, 2 and 0 children, a store that rejects | `DeclaredOrder`, `MembersAsCommitted` |
| `suite` | 3 stages, 2 envelopes, files throughout or a buffer behind a stage that replays, 3 sessions | `SkipsOnlyWritten`, `DoneIsDelivered`, `NothingIsRedone` |
| `http_to_file` | 3 posts, buffer of 1, count of 2, one event client, high-water mark 2, one other stream and one whole-file writer, fair scheduling | `DoneIsPublished`, refinement `AcknowledgedIsHandedOver`, `CommitsPublish`, `CountSettles` |
| `git_worktree` | 2 targets, 2 branches of the operator, 2 pieces of work of hers, 2 runs | `CommittedIsKept`, `SilentMeansMerged`, `SharedBranchesGrow` |
| `secret_store` | a first command that makes a store or key and two of any kind, one secret, two keys, one fault | `KeyringFits`, `RefsResolve`, `StaysOpenable`, `ReadsAreFresh` |
| `router` | 2 connections of two clients, one translating, 2 upstreams, 2 keys, budgets of 1, one vault change, 2 days, one restart | `LoggedIsBounded`, `ReloadKeepsPools`, `RefusedStaysOut` |
| `llm_calls` | 2 calls with the same prompt, 2 models, 2 keys, one retry and correction, one refit, fair scheduling | `NoModelTwice`, `PinMovesFromFailed`, `CallsSettle` |
| `long_text` | 432 texts of three words, seven settings; conversations of up to five messages with every strategy | `ProtectedSurvive`, `LongestRecentPart`, `ChunksAreTheText`, `NoCallTooMany`, `ChunksAreSentWhole` |

All hold. Each property is stated with a comment in its module.

*Bounds.* `MaxSessions` bounds starts plus resumes: two sessions show what a single resume
does, three also a resume of a resumed run (the cursor of a session that began at a clamped
cursor). `N` of 2 or 3 with `PersistEvery` of 1 or 2 has persists at the start, in the middle and
after the end of a stream, and a dirty flag set while one is in flight. Two levels suffice for the
clamp loop: one entry before and one behind the one awaited. Two control calls give
pause/pause, pause/unpause and unpause racing the end of the run. Four items over a window of
two let it fill, move on twice and run empty, with an item overtaking the head before, at and
after the end of the source; of two items with one key either may be first. One retry is the least
that tells the last attempt from the others. Three envelopes in groups of two make a full
group and a remainder, and two stages let one see the other's commits; with a branch that
fans out, one that drops and one that does neither, any order that is not the declared one shows. Three
posts with a buffer of 1 and a count of 2 have a refused, a surplus and a full answer. Two
worktrees make one close find the other's merge; two runs have a resumed one. Three commands are a
store to begin with and two that run into each other. Two connections at budgets of 1 are the
least that overspend, two days have a request cross midnight. Two calls and two models have
one call move the pin under the other, and both models failing.
Three words of sizes 1, 2 and 5 with every strength of break include a word larger than the budget.

`CHECK_DEADLOCK FALSE` everywhere: a finished run, a run that was paused and nobody
unpauses, a session bound that is used up, settled calls and finished commands really stop.

*Symmetry* is used in `secret_store` only: the two commands of any kind and the key ids are
alike, and the run checks invariants only.

*Fairness.* Weak fairness of each task: the event loop runs every continuation that
is ready, and files, timers and git settle. None is assumed of what users or the world do:
`pause`, `unpause`, `resume`, failures and crashes, clients, operators. In `control` the stream a
target stage awaits is assumed to end (`FinishStep` is part of `MainStep`); `DurableCursor` shows
on its own that the write loop does. A record that cannot be written is an end of its own there (`threw` with the machine at `done`).
In `tool_stage` the generator's steps (`GenStep`) and each item (`ItemStep(i)`) are fair. A source
that waits for the outside world may not answer, and then results that are ready stay in the
window. In `http_to_file` the pipeline (`PipelineStep`), its writer (`PipeWorks`) and the server's
listen and close are fair; clients may never finish a body. In `llm_calls` every `CallStep(c)` is fair,
since each request ends by an answer or by its timeout. The other runs check no liveness.

### Known divergences

Met while the modules were written: what a doc or a comment says and the code does not do.
The instances above keep clear of them, by a constant or an assumption that names the case.

- `cursor_fork_commit`: the clamp loop clamps level *a*, awaits the `checkpoint()` of level *b*;
  *a* accepts another envelope meanwhile and is serialized unclamped (`runner.ts:1235-1246`,
  against the comment at 997-1000). No shipped target implements `checkpoint()` yet.
- `cursor_fanout`: the cursor counts target writes and a resume skips as many *source*
  envelopes; with a fan-out the count runs ahead (against `docs/steering/core.md:328-330`).
- `cursor_rename`: a failed run closes its target (which publishes), untracks it, and
  persists the cursor; the resumed session's close replaces the file (against
  `docs/guiding/architecture.md:111`).
- `cursor_indexed`: the counter that names files restarts in the resumed session
  (against `md.ts:111-112`).
- `stale_terminal`: a drain that serialized `running` may rename after the terminal
  write; `flushPersists` waits for it but does not write again (against `runner.ts:1274-1276`).
- `paused_failure`: `paused -> failed` is no transition, so a run that throws while
  paused stays `paused` (against `runner.ts:1181-1182`).
- `resumed_event`: `resume()` appends its event before any write of the record
  (against `runner.ts:1122-1123`).
- `suite_handoff`: a stage's cursor counts what its target accepted, an in-memory buffer is gone
  with the process; the resumed stage's source skips envelopes nobody holds any more
  and the suite ends done without them (`runner.ts:456`, against
  `docs/guiding/lifecycle.md:275`, "a crash never skips unflushed output";
  `samples/sample2/pipelines/chunk-normalization.ts` hands over through `temp://`).
- `shared_temp`: two targets of one run on one path share a temp name, the run's id
  (`jsonl.ts:272`, `md.ts:177`); the second truncates the first one's file and the first commit
  publishes the other's bytes (against `atomic.ts:72-76`).
- `stale_pin`: a call that fails on a model the pin has left follows the pin and throws when it has
  tried that one too, although other candidates are left (`openrouter-pool-tool.ts:113-115`,
  against `docs/steering/tools.md:386`, "throws when every candidate failed").
- `unlogged_stream`: a streamed answer is passed through without a log entry
  (`completions.ts:68-73`, against `docs/steering/router.md:17` and `:195`).
- `ignored_output`: an output directory git ignores leaves nothing to commit, and close()
  removes the worktree with the only copy, silently (`git.ts:56-68`,
  `git-worktree-source.ts:123-127`, against its comment at 57-65).
- `cut_rekey`: a re-key that is killed between key file and store leaves a store the
  key file does not open; with `--force` the old key is gone (`master-key.ts:45-48`, against
  `docs/guiding/vault.md:36`).
- `batch_history`: a group tool that replaces the payload leaves an `old` item variable, which
  `batchOverrides` (`exchange.ts:457-463`) does not exclude: every member gets the group's
  payload as its own history (against `docs/steering/core.md:431`, "payload ignored").
- `batch_restore`: a second group stage that sets a variable back to its folded value is not
  seen as a change; the first stage's value stays in `groupVars` (`batch-scope.ts:51-56`).
- `batch_equal`: a group tool that sets a variable to the value the merge already had changes
  nothing, members that differ keep theirs (against `exchange.ts:480-481`).
- `batch_late_group`: what a group stage edits after a member was committed never reaches that
  member (`batch-scope.ts:38`).
- `summary_last`: `summarize` writes its summary as a message of the user. In a conversation that goes on
  after its last user message (system, user, assistant, assistant) the summary comes behind that
  message and is the last one of the user from then on: the user's own is protected no more, and the next
  strategy drops it (`llm-context.ts:300-308`, against `docs/steering/tools.md:583`, "system messages and the
  last user message are protected by default").
- `translate_estimate`: the chunk budget of `translate` renders `translate.system` without variables, which
  throws, and takes 200 tokens instead (`translate-text.ts:231-236`, `tools/src/constants.ts:34`); the gate sends the
  rendered prompt (`llm-gate.ts:213-218`), which is longer. What is set aside is too little unless the
  answer held back makes up for it, and a chunk that was split to fit is cut or refused
  (against `docs/steering/tools.md:100-101`, a per-call budget with the "prompt `overhead`" in it).
- `two_budgets`: `context.reserve` above what is held back for the answer, or `context.maxTokens` below what
  the window leaves, bound the call and not the chunk (`chunk-processor.ts:111-115` against
  `llm-context.ts:625-686`), with the same result. `Covers` excludes both.
- `detached_merge`: an operator who detaches HEAD between the checks and the merge has the fast-forward move
  HEAD alone; `git branch -d` asks that HEAD and deletes the branch, and close() reports a merge
  (`git-worktree.ts:215-226`, against `docs/steering/waypoint.md:167-169`, which has the base
  fast-forwarded or the branch left with a warning). The commit is on no branch, and lost once HEAD moves on.
- `same_tick`: a store replaced by one of the same size within one tick of the file system's clock has the
  same signature (`embed.ts:604-607`), and a process that has memoized the first one goes on answering
  from it (against the comment at `embed.ts:609-613`).

## 5. Proofs

`DurableCursorProofs` proves for all constants:
- `TypeCorrect`: `Spec => []TypeOK`.
- `NothingLost` and `NothingMissing`: `ResumeLosesNothing` and `DoneIsComplete`, under two
  assumptions that the divergences of section 4 show to be needed. `Narrow`: no step fans out
  (`cursor_fanout`). `SafeTargets`: every target is file-per-envelope keyed, or there is one level
  only and it is append-only (`cursor_fork_commit`, `cursor_rename`, `cursor_indexed` are the
  other cases).

  Neither invariant is inductive. `BaseInv` adds the bookkeeping: where a level stands
  fixes whether it is tracked in `openTargets`, positions stay within the stream, a
  persister's index points into the list. `SafeInv` adds what relates cursors to
  output: a cursor of a node never exceeds what the target has *accepted*, what was
  accepted is durable unless the target is tracked and append-only, and - the heart
  of it - a cursor that is *serialized* (in `snap` or on `disk`) never exceeds what is *durable*,
  because between the clamp and the serialization nothing else runs. With two levels
  and a `checkpoint()` hook the last clause fails, which is `cursor_fork_commit`.

It also proves `AtLeastOnceDelivery` (`Spec => DeliversAtLeastOnce`, the
refinement of `AtLeastOnce`) under the same two assumptions. `SlotInv` (an envelope is
found in its own slot only) makes the survivors monotone: a step of a write loop or of
the clamp is `Deliver`, a rename over `state.json` is `Promise` or, with the end of the run,
`Finish`, and `Resume` is `Reopen`. What is promised is covered by `NothingLost`, what is
finished by `NothingMissing`.

`EngineProofs` is about the run and its tool steps. Of `RunControl` it proves `RunTypeCorrect`, `LoopMayFinish` (`ExecutingMayFinish`) and
`DoneIsAll` (`DoneMeansComplete`), for any number of steps, calls and sessions. The
strengthening says which states a machine can have at each `pc`, and that a snapshot
of `done` exists only behind the last step.

Of `ToolStage` it proves `TypeCorrect`, `WindowHolds` (`WindowIsBounded`) and
`Sequentially` (`Spec => IsSequential`, the refinement of `SequentialStage`) for any
window, source, number of retries and keys. The inductive invariant `StageInv` has the
types and what each wait implies (`BaseInv`), that the window is the last items pulled,
in order, right behind the head (`Contiguous`), what the generator holds at each await
(`GenInv`), that there is room where it pulls (`RoomInv`), and that only items of
the window are worked on (`FlightInv`). `WindowIsBounded` follows by counting, since the items in flight are
a subset of an interval of `Len(pending)` numbers. For the refinement each
step is mapped: resolving the head to `PassOn`, `PassOver` or `Stop`, item steps to
`Decide`, for which `FlightInv` is what says that an item given is never decided again.

It goes on to `EarnedResults` (`ResultsAreEarned`) and `NoItemVanishes` (`NothingVanishes`), with `FateInv` on top of `StageInv`: the output lists exactly the results
among the items given (`OutInv`), a result or a cached key stands for a call that
succeeded (`EarnInv`), and an item is dropped, or about to be, only after its last call,
with its one line in the dead-letter file where that is the policy (`DropInv`).

`ModelCallProofs` is about both ends of a call of a model. Of the router it proves `TypeCorrect`,
`LogBounded` (`LoggedIsBounded`), `PoolsKept` (`ReloadKeepsPools`) and `RefusedOut`
(`RefusedStaysOut`), for any slots, clients, budgets, upstreams, keys and edits of the vault.
- `BudgetInv` makes the bound inductive. For the day that is on, it counts what is logged, what waits for its log
  entry and the texts that are asked for (`Share`, `ClientShare`): a charge or an append that
  lands moves a unit from one of the three to the next, and a request let in adds to a sum below the
  budget. A day to come has nothing logged, so midnight starts from what is under way alone.
- The sums are folds over finite sets. That they are (`PartStep`), and that a sum changes with the one summand that
  does (`TotalChanges`), follows from the least natural number of a set (`LeastNatural`), since
  the library's induction theorem cannot be instantiated here.
- `StayInv` says that a pool has disabled what was refused to it. Each step of a request puts one
  pool with the same keys in the place of one (`OnePool`), or a new one behind all others
  (`SuppliedFacts`), so that what other requests hold stays valid (`OtherRequests`).

Of the caller it proves `CallsTyped`, `TriesEachOnce` (`NoModelTwice`) and `PinMoves`
(`PinMovesFromFailed`) for any number of calls, candidates and keys. The only thing missing from an
inductive invariant is that a request under way has a key (`SentHasKey`), which is how
an answer is charged to a key that exists. Calls share nothing but the pin and the
pool, so each step is shown to leave the others' records alone; the model a call goes on to is the
least candidate it has not failed on.

`GitWorktreeProofs` proves `TypeCorrect`, `CommittedStays` (`CommittedIsKept`), `SilenceMeansMerged`
(`SilentMeansMerged`) and `SharedGrow` (`SharedBranchesGrow`), for any number of targets, runs and
steps of the operator. A rebase drops from a target's branch what the base has already, and a merge may end
on a HEAD nobody keeps, so the argument is about where an output can be.
`HomeInv` says where: *settled*, on a shared branch or gone into a HEAD that was detached in time (`Settled`), or
on its target's own branch, which stays in the run that committed it and as long as later runs
fail to open on it. A settled output stays settled because shared branches grow; `MergedInv` has it settled before
the branch is deleted, `OwnInv` says that nothing of this run is committed before its target closes, and
`SilentInv` that only a merge leads to a silent removal of the worktree.
`RunInv` keeps runs apart: no output of a run to come is committed.

`HttpToFileProofs` proves `HandsOver` (`AcknowledgedIsHandedOver`, the refinement of
`AcknowledgedQueue`) for any clients, buffer and limit: `QueueInv` says that the promised items are
those yielded, then the one the generator holds, then the buffer, all of them received. Each step of the server and
of its generator is mapped to an acknowledgement, a hand-over or a stutter; the writers stutter.
`PublishesComplete` (`CommitsPublish`) and `DoneHasPublished` (`DoneIsPublished`) hold under `OwnTags`: no two
writers of the path have the same temp name. Run ids and the random tags of `atomicWriteFile` are made to
be different; two targets of one run on one path are the exception (`shared_temp` in section 4). `WriterInv`
says of each writer, by its phase, what its temp file holds: the chunks flushed so
far, all of them from the rename on, and nothing of it on the path unless it has renamed. `PipeInv` ties the
position of `writeTarget`'s loop to the state of its source and of its writer.

`SecretStoreProofs` proves `TypeCorrect` and every property of the run for any set
of commands, ids, names and faults: `KeyringAlwaysFits`, `EntriesResolve`, `StoreStaysOpenable`, `NoStaleReads`.
The invariant has a part for each:
- `JobInv`: what a command awaits fixes what it was asked, which keeps the branches of the
  shared code (load, save, roll back) apart.
- `KeyInv`: not only the stored contents fit, but everything a command is about to write. What
  it writes was computed from contents it read, so races lose updates but break no keyring.
- `FreshInv`: no file has a signature above the last one made; a memoized signature that is the file's and
  that no other file has had stands for the file's contents, so that what a lookup finds in
  memory or reads from the disk is among the values the secret has had since it began.
- `AloneInv` and `RefInv`: without a race one command is under way; what it read is what is on disk, so
  writing it back drops no secret an entry of `vault.json` refers to.
- `OpenInv`: under the same proviso as `StaysOpenable`, either no command is between key file
  and store and the password the next one resolves opens the store, or the command that is has what it
  needs to finish or to restore the old key file (`SwapInv`), and has not failed yet if it must still
  roll back: a second fault is what the property excuses.

`SuiteRunProofs` proves `TypeCorrect`, `SkippedIsWritten` (`SkipsOnlyWritten`), `DoneHasAll`
(`DoneIsDelivered`) and `NothingTwice` (`NothingIsRedone`) under `SafeHandovers`: a stage that
resumes hands over on disk. A buffer in memory is gone with its process, so a stage that fills one must
replay; a suite where it resumes ends done without its items (`suite_handoff` in section 4). Both shapes of the
run satisfy it. `Written` says of a tree of nodes that every cursor of a stage that resumes counts items
its target holds, of the tree in memory, of those on their way to disk and of the one there (`TreeInv`);
`Behind` that none of them is ahead of the running one, which makes `NothingIsRedone` a step property;
`HandedInv` that a stage is left only when it has everything, since `DoneIsDelivered` looks at the last one
alone and that one may have started from a predecessor's partial buffer.

`SequenceProofs` is about the two models whose state is sequences that are taken apart and put
together. Of `NestedStreams` it proves, for any source, group size, scopes, branches and children:
- `NestedStreamsTypes` and `ForksInDeclaredOrder` (`DeclaredOrder`), without any further assumption. The
  inductive invariant `OrderInv` says that the items not yet pulled are due as the source has them (`Untouched`),
  that what waits to be passed on is in order (`ReadyInOrder`), where a fork stands (`Branching`: a branch that has
  not begun holds a copy of what is due, one that ended its own change of it), and that what the target got is the front of what it is to get, member
  after member and branch after branch (`Sent`). A branch that settles before its turn changes
  what is ready, never what was sent.
- `MembersLeaveAsCommitted` (`MembersAsCommitted`) under `GroupsLead`, group stages come before member
  stages, and `FreshValues`, a value of the variable tells which stage set it. `batch_late_group` in
  section 4 is what happens without the first; the second excludes `batch_equal` and `batch_restore`. The
  instance of the run satisfies both. `XInv` follows the variable through the scope: what the group's view,
  a member's view and the outer exchange hold is what the last stage that committed it set.

Of `LongText` and `ContextFit` it proves, for any texts, settings and conversations:
- `LongTextTypes`, and `SplitKeepsText` (`ChunksAreTheText`): a split at any breaks, of any text, into a
  budget of any size, spells the text again and leaves no chunk above the budget. The lemmas say
  this of each layer: parts of a sequence put together are the sequence (`PartsFacts`), a group opens
  where the one at hand is full (`GreedyFacts`), a word cut by characters keeps each of them (`PiecesFacts`).
- `ChunksSentWhole` (`ChunksAreSentWhole`): where what is set aside covers the call (`Covers`), the request
  around a chunk weighs at most what the call's fitter allows (`ChunkFits`), so that no strategy is ever asked.
- `ProtectedStay` (`ProtectedSurvive`) under `UserSpeaksLast`, which excludes `summary_last`. `TalkInv` says that
  messages still come from the request in its order (`Faithful`), that the last user message of the request is
  the last of what is left, and that no place that holds a protected message is free to go (`UnprotectedIsFree`).
- `RecentStays` (`LongestRecentPart`): two loops that share nothing end with the same messages. `RecentInv` says that
  whatever `dropOldest` has left is a recent part of the request, and no longer one fits. A step of the loop is one
  of these parts to the next by `RecentStep`, which rests on two facts about places in shrinking sequences:
  dropping twice is dropping both at once (`WithoutTwice`), and what is protected stays protected
  and nothing else becomes so (`ProtectionStays`).
- `FewestCalls` (`NoCallTooMany`): no grouping of a text's paragraphs within the budget has fewer groups than the text has
  chunks. The starts of the greedy chunks are mapped to the groups of the other grouping they fall into; two
  in one group would be within the budget together, and the second would not be a start (`GreedyIsLeast`).

The sequences are folds over index sets. That a flattening of a longer sequence is that of the
shorter one with the last row behind it (`FlattenStep`, `FlattenRows`) follows from the finite sets' well-founded
order, and every induction over a length goes through `AllNumbers`, since the library's induction theorems cannot be
instantiated here.

The assumptions on constants (`CursorConstants`, `ControlConstants`, `StageConstants`, `CallConstants`,
`WorktreeConstants`, `WriterConstants`, `SourceConstants`, `PipelineConstants`, `StoreConstants`,
`SuiteConstants`, `PoolConstants`, `RouterConstants`, `StreamConstants`, `FitConstants`, `TextConstants`) are their types and that values meant to be distinct are; TLC evaluates them in every run.
The theorems that hold only for some instances say so: `Narrow` and `SafeTargets` (`DurableCursor`),
`OwnTags` (`HttpToFile`), `SafeHandovers` (`SuiteRun`), `GroupsLead` and `FreshValues` (`NestedStreams`),
`UserSpeaksLast` (`LongText`). The instances the runs check satisfy all but the first two, and
that of `cursor_single` those (`cursor_forks` has a renamed file in addition). Every
inductive invariant was an invariant of its run in TLC before it was proved.

*Only model-checked*:
- the liveness properties (`SessionEnds`, `FinishedIsAnnounced`, `EndsOrIsPaused`, `StageSettles`,
  `CountSettles`, `CallsSettle`): they rest on fairness, which is beyond the prover;
- `DurableCursor` with a renamed file behind a source that replays (`cursor_forks`), the one
  combination in which that target kind is safe.

## 6. Not modelled

- **Backend**: `start.ts` and the registry look a runner up and call what `RunControl` models; the
  event stream reads a growing file by offset.
- **Events source**: planned (section 2).
- **DSL, suites' construction, URIs, settings, discovery**: static values; nothing changes
  during a run.
- **MCP server, user interfaces, bundle**: requests over the store's files, presentation.
- **Text tools that only rewrite text or read a model's answer** (`glossary-extractor.ts`,
  `proofread.ts`, `markdown-tool.ts`, `ner-candidates.ts`, ...): functions of one exchange. Two of them are worth a
  reader's eye: `proofread.ts` merges the answers of chunks by id without asking whether the id
  belongs to the chunk, and its XML variant numbers ids anew per chunk.
- **Vault backends `keepass` and `vlt`**: read-only formats. **Router pages** for metrics, models
  and the vault: read only.
- **Unordered `mapConcurrent`**: nothing in the repository asks for it. **Commits per write** of
  worktrees: more commits of the same kind.
- Of the modelled parts: formatting, paths, logging, `context.json`'s content, lengths of
  waits, prices, and source failures other than a throwing stream. `DurableCursor` knows a tool
  step only as items that are dropped or a stream that throws; `ToolStage` is what lies behind it,
  `NestedStreams` what forks and groups make of it.

Most of the repository's lines are of these kinds: parsing and formatting of files and
answers, prompts, command-line output, user interfaces and tests. What keeps state over
several steps or is shared by several actors is in section 3.
