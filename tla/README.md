# jeo-code: specifications and proofs

jeo-code (`jeo`) is a local coding agent: a model proposes tool calls, a loop executes them, gates decide
when the work may be called done, background jobs and subagents run beside the loop, and messenger bots and
a notification daemon give remote access to it. This directory holds TLA+ models of the parts whose
correctness depends on the order of events, TLC configurations that check them on small instances, and
TLAPS proofs of the most important results for every value of the constants.

Paths below are relative to the repository's root `src/`, so the session pool is
`src/messenger/session-pool.ts`; `PROJECT.json` names the same files as `src/src/...`. It lists, for every
definition, the lines it models, and the runs, the mutants, the hazards and the theorems.

To check a run: `tlc -config pool_turns.cfg MCPoolTurns`. To check a proof: `tlapm SessionPoolProofs.tla`.

## Inventory

What the program consists of, what each part remembers and does, what is hard about it, and what makes it
correct. The column *here* says where it is modelled.

| component | state | operations | hard behaviour | correct when | here |
|---|---|---|---|---|---|
| Engine turn: `agent/engine.ts`, `agent/loop-guards.ts` | step counter, guards, correction and recovery counters, evidence, abort controllers | ask the model, run a batch, judge `done`, consolidate, recover, reopen for steering | cancel, steering and the stall timer during any await; many counters reset by one another; concurrent groups in a batch | a change is never accepted unverified; no unbounded spin; every turn ends; nobody is rejected unasked | `AgentTurn` |
| Step budget: `agent/step-budget.ts` | limit, extensions, scored window, novelty keys | record, extend, note steering | extensions, steering and grace add up | the hard cap holds | `StepBudget` |
| Completion evidence: `agent/engine.ts`, `agent/loop-guards.ts` | saw mutation, saw verification, which was last, hook verdict | after a call, after hooks, gate | order within a batch; partial failures | evidence never claims more than happened | `Evidence` |
| Session gate: `commands/launch.ts` (`onEvidence`, `onBeforeDone`), `agent/goal-tool.ts`, `agent/goal-verifier.ts` | carried mutation flags, goal file | fold a batch's evidence, judge a completion, set and clear a goal, reroute | state read across engine runs, turns and background work | an accepted completion covers everything that wrote | `SessionCompletion` |
| Background jobs: `agent/job-registry.ts`, `agent/job-tool.ts`, `agent/shell-lease.ts`, `/jobs` | records, active and pending sets, reported flags, leased process groups | start, list, await, cancel, consume | exit, pipes and reaping in any order; await timeouts; signals to pids that may be reused | a job that may write is never taken for finished, its completion reaches the engine once | `JobRegistry` |
| Monitors: `agent/monitor-registry.ts`, `agent/monitor-tool.ts` | as jobs, plus line matches | start, poll, cancel | as jobs | as jobs | same sets as `JobRegistry`, not modelled apart |
| Detached subagents: `agent/subagent-registry.ts`, `agent/subagent-tool.ts`, `agent/task-tool.ts`, `agent/subagents.ts` | records, inboxes, abort controllers, evidence flags | launch, steer, pause, resume, cancel, await, tear down | control races settlement; evidence read at a time other than liveness | evidence survives cancellation; the parent's gate sees what the run did | `SubagentRegistry`, `SessionCompletion` |
| Messenger session pool: `messenger/session-pool.ts` | conversation tails, admission queue, workers, exits, idle timers | turn, admit, start, evict, retire, close | every await races abort, policy change, idle timeout, crash and close | order per conversation, one process each, bounded processes, every turn settles | `SessionPool`, `SlotQueue` |
| Messenger gateway: `messenger/gateway.ts` | seen ids, admission lanes, queue, running turns | handle, prepare, schedule, process, run | preparation awaits between arrival and queueing; duplicates; capacity; shutdown | each message at most once; order per conversation; capacity; shutdown leaves nothing running | `Gateway` |
| Messenger adapters: `messenger/{discord,telegram,slack,http,activity,artifacts}.ts` | cursors, threads, draft messages | receive, deliver, show activity | redelivery, rate limits, partial sends | nothing acknowledged before it is handled | redelivery and preparation are inputs of `Gateway` |
| Messenger service and launcher: `messenger/{runtime,service,launcher,config}.ts` | installed runtimes, run script, service unit | install, start and restart under launchd or systemd | an update while the service runs | one service per profile, the old runtime kept until the new one runs | not modelled |
| Notification daemons: `agent/notify/*-daemon.ts`, `session-endpoint.ts`, `session-discovery.ts` | subscriptions, topics, cursors, websocket peers | broadcast, steer, cancel | sessions appear and vanish, reconnects | an edge is announced; commands reach their session only | `TelegramDaemon`, `RemoteControl`, `SessionTopics`; not the Slack daemon |
| Daemon lock: `agent/notify/daemon-control.ts` | lock file, reclaim guard | acquire, mark ready, release, stop | stale owner, pid reuse, crash while reclaiming | one daemon | `DaemonLock` |
| Rate-limit pool: `agent/notify/rate-limit-pool.ts` | lanes, tokens, a cursor per lane | submit, coalesce, drain, remove | the cursor rotates over sessions that come and go | tokens bound the grants; no session monopolises a lane | `RateLimitPool` |
| Topic registry: `agent/notify/topic-registry.ts` | session-to-topic map on disk | create, bind, rename | concurrent creation, identity change, restart | one topic per session, its name known | `SessionTopics` |
| Credential store and refresh: `auth/storage.ts`, `auth/refresh.ts`, `auth/flows` | config file, per-provider lock file, in-flight refreshes | resolve, refresh, set, clear | lock held over a network call, stale locks stolen, several processes | a refresh token is exchanged once; no update lost | `CredentialRefresh`, `FileLock`; not the OAuth flows |
| Config store: `agent/state.ts` | `config.json`, its lock, read cache | read, patch, save | lock stealing, read-modify-write of several processes | no update lost | `ConfigStore`, `FileLock`; the run lock in `Workflow` |
| OAuth callback server: `auth/callback-server.ts` | listening ports, pending code | wait, paste, cancel | manual paste races the callback | one result, ports closed | not modelled |
| Session store: `agent/session.ts`, `agent/gjc-session-import.ts` | JSONL file per session | append, load, compact, rewrite header, import | header rewrite beside appends, torn last line | what was appended is loaded | `SessionStore`; not listing, header rewrites, import |
| Compaction: `agent/compaction.ts` | message history | trim, summarise, splice | summary arrives after the history grew | system prompt and recent messages kept, calls paired with results | `SessionStore` (which messages stay) |
| Workflows: `commands/{deep-interview,ralplan,approve,team,ultragoal}.ts`, `agent/plan.ts`, `agent/seed.ts`, `ledger.ts` | workflow state, plan digest, task markers, run lock | interview, plan, review, approve, run, resume | crash between task and marker; plan changed after approval | only an approved, unchanged plan runs; a failed task is not skipped | `Workflow` (ralplan, approve, team) |
| Autopilot and evolve: `autopilot.ts`, `commands/evolve*.ts`, `agent/dev` | scores, retries | loop of workflows | early stop | bounded rounds | not modelled |
| Tools: `agent/tools.ts`, AST, LSP, browser, computer, debug, eval, web search | read set, anchors, tabs | read, write, edit, bash, search | stale anchors, calls that overlap, partial edits | a stale edit is refused or finds its lines | `FileEdits` (read, write, edit, delete); of the others kinds and results (`Evidence`) |
| Workspace snapshot: `agent/workspace-snapshot.ts` | file signatures | snapshot, compare | files vanish while read | a change is seen or the snapshot fails | its verdict only (`Evidence`) |
| Hooks: `agent/hooks.ts` | hook files | run pre-tool and post-turn | time-outs, denial | a red hook blocks `done` | verdict only (`Evidence`) |
| Sandbox: `agent/sandbox` | grants, container, RPC | grant, launch, relay, stop | container outlives host, RPC half-answered | nothing runs outside a grant; cleanup is confirmed | its registry split (`SessionCompletion`), its cleanup duty (`SessionPool`) |
| Process reaper: `agent/process-reaper.ts` | targets | sweep | pid reuse | only own processes are signalled | not modelled |
| Models and providers: `ai/` | catalog, cache file, retries | call, stream, discover, route | idle and overall time-outs, retries | a call ends | faults of a model call only (`AgentTurn`) |
| Prompt routing: `agent/prompt-router.ts` | pools, history | classify, pick | credentials change | a servable model is picked | not modelled |
| Memory and skills: `agent/memory*.ts`, `agent/skill-*.ts`, `skills/` | concept files | distil, score, load | concurrent distillation | no concept lost | not modelled |
| MCP server: `mcp/` | none | list, call | — | protocol answers | not modelled |
| Terminal UI: `tui/`, `util/terminal-restore.ts` | frame, scrollback, input | render, edit | resize, raw mode on exit | layout | not modelled |
| Command line: `cli/`, `cli.ts`, other commands, `util/` | none | parse, dispatch, update | — | — | not modelled |

### How the parts interact

- `commands/launch.ts` owns a session. For each prompt it calls `runAgentLoop` (`agent/engine.ts`), perhaps
  again with another model, and passes callbacks: the engine calls `onEvidence` after each batch,
  `onBeforeDone` when the model says `done`, `drainSteering` at the top of its loop and at the gate.
- The engine calls tools. `job`, `monitor`, `task` and `subagent` keep registries that belong to the session,
  not to the turn; what runs behind them goes on while the engine awaits something else, and after the turn.
- In a sandboxed session the engine sends most tools to a worker in a container, which has registries of its own.
- The messenger service runs one `jeo` process per conversation (session pool), fed by the gateway, which is
  fed by the adapters. A process there is the command-line program itself, in a line protocol.
- Processes share files: config and credentials (lock files), sessions (append-only), workflow state, the
  daemons' locks. Daemons and sessions talk over sockets of the session's endpoint. Everything else is one
  event loop per process, so what can interleave are the stretches between awaits.

## Modules

| module | role |
|---|---|
| `SessionPool` | the messenger session pool; refines `SlotQueue` |
| `SlotQueue` | abstract: first-come first-served slots |
| `AgentTurn` | one engine turn; EXTENDS `StepBudget`, `Evidence` |
| `StepBudget`, `Evidence` | operators over the budget's and the evidence's record |
| `SessionCompletion` | the session's completion gate; EXTENDS `Evidence`, `JobRegistry`, `SubagentRegistry` |
| `JobRegistry` | background jobs and the processes below them |
| `SubagentRegistry` | detached runs and their control; a machine of `MCParts` as well |
| `FileLock` | the lock file of the config and of a provider's credentials |
| `ConfigStore`, `CredentialRefresh` | what the two locks protect; both EXTEND `FileLock` |
| `DaemonLock` | the notification daemon's lock with its reclaim guard |
| `SessionStore` | the session file, the turn that appends to it, compaction, resuming |
| `Workflow` | plan, approval, execution and the run lock |
| `Gateway` | the messenger gateway |
| `RateLimitPool` | the pool of send tokens |
| `TelegramDaemon` | the Telegram daemon's poll loop |
| `RemoteControl` | prompts from Discord: daemon, session endpoint, prompt loop |
| `SessionTopics` | the Telegram topic of each session: memory, disk, forum |
| `FileEdits` | the file calls of a batch and the edits by content anchors |
| `MCPoolTurns` | two instances of `SessionPool`, of which an initial state picks one |
| `MCGates` | two instances of `AgentTurn` and the gate of `SessionCompletion`, with a job or with a detached run; an initial state picks one |
| `MCParts` | the machines of locks, stores, workflow, messengers, daemons and file calls, one at a time |
| `MC...` | instances for TLC: model values, call alphabets, conversations |
| `...Proofs` | theorems and proofs |

Definitions whose comment starts with *Defect* are used by no specification. Each is a form a definition
could take by a plausible mistake; put in its place, it must make TLC report the property that
`PROJECT.json` names beside it. So no listed property holds whatever the code does.

### The messenger session pool

`SessionPool.tla` models `src/messenger/session-pool.ts` as a whole: `turn()` with its
conversation queue, `admit()` and `release()`, `runTurn()`, `start()` with eviction, `retire()` and
`forceKill()`, `waitForExit()`, `finishTurn()`, the reader of a worker's output and `close()`.
`SlotQueue.tla` is what the pool promises of its admission: a first-come first-served queue of at
most `Limit` slots that knows nothing of conversations, processes or timeouts.

*State.* A turn is a call of `turn()`. `pc[t]` names the await it stands at, `prev[t]` and `tailDone`
are the promise chain in `keyTails`, `waiting` and `admitted` are the variables of the same name,
`on[t]` is the worker a turn was given, waits for, or has written to. A worker is named after the turn that
spawned it (a turn spawns at most one), `workers`, `allWorkers` and `retiring` are the pool's maps,
`dead` is the flag of the same name, `exit[w]` is the worker's exit promise, `holder`, `written`
and `reply` are the fields of its pending turn, `idle` its idle timer, `newer` the order of the
`lastUsed` times, and `inbox` what the process has read and not answered.

*Steps.* An action is one stretch of code between two awaits. The event loop is part of the model,
because the pool's correctness depends on it: output, exits and timers are delivered only when no
reaction of an earlier event is queued (`Quiet`); `start()` runs without an await up to the spawn
(`Undisturbed`); and between the spawn and the turn's receipt of the worker only reactions that
were queued before can run (`ahead`, `MayRun`, `Requeue`). Which data a line carries is abstracted to the
turn it answers. Diagnostics, activity lines and the parsing of the protocol are left out.

*Runs.*

| run | bounds | what it shows |
|---|---|---|
| `pool_turns` | 3 turns, 2 slots, one turn abortable; either 3 conversations with one policy or one conversation with 2 policies (`load`) | slots are neither lost nor invented, an admitted turn finds room for its worker, a worker that was started is not evicted before its turn has it, and admission refines `SlotQueue`; turns of a conversation run in arrival order even when one in the middle aborts, there is never a second process of it while the first may live, nobody gets another turn's answer |
| `pool_close` | 2 conversations, 1 slot, 2 policies, `RequireSandboxCleanup`, fairness | processes not yet proven gone count against the limit; `close()` succeeds only over confirmed exits and nothing is spawned after it; every call of `turn()` settles, whatever the process does |
| `pool_sandbox_race` | 3 turns, 2 slots, `RequireSandboxCleanup` | a violation, see *Findings* |

Three turns are enough for the cases that matter: one that runs, one that waits or is being started and
one that aborts, evicts or closes in between; the defects the mutants plant are each found within these
bounds. No counter is bounded: the number of turns bounds everything.

*Fairness.* `Fairness` says that the event loop runs the reactions it has queued, that timers fire,
that writes settle, and that a worker process answers what it has read or ends (`Responds`; this is
an assumption about the child process, which has its own time limits). Callers need not call, abort
or close, and workers need not fail.

*Proved* (`SessionPoolProofs.tla`), for any finite set of turns, any conversations, policies and any limit:
`TypeCorrect`, `SlotsAccounted` and `AdmissionRefines` (the pool implements `SlotQueue!Spec`). The
inductive invariant `PoolInv` is the type invariant, the accounting itself, and three facts it
needs: the turns in `waiting` are distinct and stand at the wait (`LineOK`, else handing a slot on
could give it to a turn that left), a worker's pending turn is in `sent` on exactly that worker
(`HoldersSent`, else retiring a worker could settle a turn that holds no slot), and a turn that was given
a worker knows it (`OnKnown`). Each action is shown to be one of the six things that can happen to slots
(`SlotStep`), which gives the accounting and the refinement at once.

`SessionPoolTurnProofs.tla` proves, under the same assumptions, what `pool_turns` and `pool_close` check of
turns and processes: `TurnsInOrder` (`InArrivalOrder`), `OneProcess` (`OneProcessPerKey`), `AnswersAreOwn`
(`OwnAnswer`), `ProtectedBounded`, `CloseConfirmed` and `RoomForAdmitted`. The order rests on what the tails say of
the turns that arrived (`ArrivalsOK`, `TailsOK`, `PrevOK`). One process per conversation rests on that order, on
`workers` and `retiring` naming every process that may be alive (`WorkersOK`, `OneAlive`), on a turn starting only
one (`StartedOK`) and on the wait before it does (`NoneBefore`). A turn gets its own answer because what its
process has read and not answered, or has answered early, belongs to the turn it has pending (`AnswersOK`).
`StartedWorkerStays` (`StartedWorkerServesItsTurn`) is proved without sandbox cleanup only, since with it
`pool_sandbox_race` violates the property. Its invariant (`FreshInv`) says that while a turn is about to receive its
worker, every spare worker used since belongs to a conversation of a turn that stands still and holds a slot
(`SparesOwed`), so that a pool in which the new worker were the least recently used one is not full.

### The engine turn

`AgentTurn.tla` models `runAgentLoop` of `src/agent/engine.ts` with the guards of `loop-guards.ts`. It
EXTENDS two modules without variables: `StepBudget.tla` (class `StepBudget`) and `Evidence.tla` (what the loop
remembers of mutations and verifications, and the done gate), each a set of operators over one record.

*State.* `pc` is the await at which the loop stands (asking the model, backing off, the salvage pre-check of
prose, the caller's completion check, executing a batch, post-turn hooks, the wrap-up calls) or how the
turn ended. `step`, `budget`, `evid` are the loop's variables; `spin` is the repeat, cycle and failure guards;
`ladder` the recovery ladders (context overflow, refusals, dropped streams) and the bounce counters; `work`
the batch under execution with its results. `stalled`, `cancelled`, `undrained` are what the stall timer and the
user do meanwhile. `truth` and `ran` are history variables that only properties read: whether the workspace
differs from what the last passing verification saw, what the model was asked to correct, what was executed.

*Steps.* One action per stretch between awaits. A tool call is a model value with a kind and a target; the
result of a call is any the tools of that kind can report (`ResultsOf`). Calls that may overlap settle
as one group. The model may answer anything its constants list; a model call may hang for ever.

*Abstracted.* The text of history and corrections, streaming, and tool arguments. `write` and `edit` are one
kind with one novelty key per file; a tool the engine knows only by its mutation flag is `delegate` (which
covers a structural edit that changed nothing). The model always has tools. Changes below a scratch
directory are not told apart. A recognised verifier is trusted not to write, unless it threw; the
engine trusts it in the same way.

*Runs.*

| run | bounds | what it shows |
|---|---|---|
| `gates`, worlds `claims` and `repeats` | (`claims`) 4 steps of write, shell, verify, todo and a batch that changes after it verifies, with hooks and nudges; (`repeats`) 8 steps of a repeating model, cycle window 3 (the code's is 6), one overflow replay, one steering message | `NoUnverifiedCompletion`, `RejectionWasAsked`; `SpinBounded` |
| `turn_steps` | base 1, hard cap 2, 2 extensions, every fault, cancellation, fallback, stall budget, fairness | `StepsBounded`, `TurnEnds` |

The step limit bounds all behaviour, so the state space is finite without a constraint. Four steps give
a change, a verification, a later change and a `done`; a cycle window of three is the smallest in which a
two-batch alternation differs from a repeat. The recovery limits (`MaxTransient`, `MaxParseBounces`,
`MaxInvalidCalls`, `MaxFailures`) are lower than the code's constants, never zero, so each ladder is climbed
to its end.

*Fairness* (`FairSpec`). The loop's own continuations run; tools, hooks, the completion check and a backoff
settle; a model call whose signal is aborted settles; the stall clock runs out when nothing progresses; the
wrap-up call returns. A model call itself owes nothing. Tools have their own time-outs; that the wrap-up call
returns is an assumption on the provider layer, which is not modelled: that call is awaited under the user's
signal only (`engine.ts:1827`), so a provider that hangs there outlives the stall timer. `TurnEnds` holds only
with the stall budget on, which is the default.

*Proved* (`AgentTurnProofs.tla`), for any calls, batches, budgets, limits and behaviour of model, tools,
hooks and user:

- `StepsAreBounded`. The invariant `StepInv` says, per place in the loop, how far the step may be past the
  limit; the two places at which the grace step is alive need the sharper bound. The lemmas show
  that an extension and a steering message raise the limit no further than the hard cap.
- `CompletionIsVerified`. `NoUnverifiedCompletion` is not inductive: the gate reads `evid`, the
  property speaks of `truth`. `EvidenceInv` links them (an unverified change is stale evidence; a seen
  verification is the latest check and it passed). It needs `WorkInv`: the results judged are a prefix of the
  batch's, each possible for its call, since evidence is updated call by call while `truth` has the batch's
  changes.
- `RejectionsWereAsked` (`RejectionWasAsked`), for positive limits, as the code's are (with a limit of zero nobody is
  asked at all). `AskedInv` says that a counter of corrections which is not zero was counted up with a request.
- `RepetitionIsStopped` (`SpinBounded`). The batches that ran since steering and the guard's window end alike
  (`EndAlike`), so a full window that is no cycle has a third batch, and `ran`, which has two, is shorter; while the
  window fills again after its one bounce, at most a window less one ran before (`Remembered`).

`TurnEnds` is model-checked only. The module also proves `BatchAsInOrder` of the file calls (see below).

### Session completion

`SessionCompletion.tla` composes `Evidence.tla`, `JobRegistry.tla` (`agent/job-registry.ts` over
`agent/shell-lease.ts`) and `SubagentRegistry.tla` (`agent/subagent-registry.ts`) with the calls of the
session: `onEvidence` and `onBeforeDone` of `commands/launch.ts`, the `job`, `task` and `subagent` tools,
`/jobs`, `/goal`.

*State.* Of the registries: `phase` is a job's process (its shell runs; descendants hold the pipes;
the lease holder is being reaped; gone), `status`, `active`, `pending`, `reported` are the registry's
fields, `incomplete` the terminations that could not be confirmed; `record`, `settled`, `mayHave`, `inbox`
those of detached runs. Of the session: `engineEvid` is the running engine's evidence, `turnPending` and
`pendingVerif` the two flags that outlive an engine run and a turn, `call` the tool call that is taking
time. `unverified` is a history variable: who wrote since the last passing verification *began*; `since`
the same since the running verification began, for a verification may not see what is written while it runs.

*Steps.* A turn is a series of batches of calls; `BatchEnds` is `onEvidence`, `TurnCompletes` is an accepted
`onBeforeDone`, `Refused` its refusals. An await and a cancel are two actions each, because jobs move between
them. Background steps interleave with all of it, also between turns.

*Abstracted.* Monitors keep the same sets as jobs. Hooks, todos and the goal judge can only refuse more. The
cycle counts that only shape nudges are dropped. Steering, pausing and resuming are left to
`SubagentRegistry` since the gate reads only whether a run has settled. Read-only runs are not waited for and
not modelled. A descendant that leaves its process group and closes its pipes is invisible to the program
and to the model. The goal file is not lost or reread (no crash).

*Runs.*

| run | bounds | what it shows |
|---|---|---|
| `gates`, worlds `jobs` and `agents` | one job or one detached run, any number of turns and batches | `CompletionCoversWrites`, `CompletionWaits` |
| `session_detached` | one detached run | a violation, see *Findings* |

All state is finite without a bound but `MaxInbox`. A job and a run are started once; turns and batches are
unbounded. One job, or one run, suffices for the registries' own races because jobs and runs do not interact;
that both results hold for any number of both together is proved. The specifications state no liveness and no
fairness: a job may run for ever.

*Proved* (`SessionCompletionProofs.tla`), for any sets of jobs and detached runs, outside a sandbox:
`CompletionAwaitsWork` (`CompletionWaits`), `CompletionCovers` (`CompletionCoversWrites`) and `StepKeeps`, the
inductive step behind it; and of the registry of detached runs by itself `EvidenceStays`
(`EvidenceSurvivesCancel`). The idea of `SessionInv`: a write that no verification covers is still *announced*
by something the gate reads. Either its job is unobserved, or the running engine's evidence is open, or a
carried flag is set and no fresh verification answers it (`CoverInv`). It needs that a job which can still
write is in the registry's `active` set (`JobInv`), that the flags carried over a batch follow the evidence
(`FlagInv`), and what holds while a verification or an await is under way (`CallInv`).

### Machines of one step at a time

`MCParts.tla` puts twelve smaller machines side by side. They share no state, so instead of interleaving them
each behaviour picks one machine at its start (`focus`) and only that one moves: the run explores the union of
the twelve state graphs, and every property is checked in all of it. A configuration that lists one machine
checks that machine alone. Nine modules are extended (those whose names do not clash), the others are
instances; a machine that is not picked starts in one of its initial states and stays there. Interchangeable
runs of `Workflow` are a symmetry set; the run checks no liveness. In the sections below *bounds* are those of
`parts.cfg` and `MCParts`.

**Locks and the stores behind them.** `FileLock.tla` is the protocol that `agent/state.ts` (config) and
`auth/storage.ts` (credentials of one provider) share: create exclusively, stamp, remove a lock that looks old,
steal once at the deadline. Time is two facts: the file has grown old (its holder is dead, or stands in a place
of `Overstay` where a living one may outlast the threshold), and a deadline is due. `ConfigStore.tla` is the
read-modify-write of `config.json` beside it (`NoLostUpdate`, `CredentialsSurvive`), `CredentialRefresh.tla` the
exchange of rotating refresh tokens (`NoSelfLogout`, `FreshKept`). Beside the refreshes and logins, which hold the
provider's lock, it has those that change the record without it: a logout, a token that was pasted
(`setOauthToken`, `rotateOAuthToken`) and `jeo setup`, which reads the config, asks its questions and writes all of
it back (`SetupReads`, `SetupSaves`). `NoSelfLogout`: a refusal is never the doing of two refreshes; it follows an
answer that was lost, or a setup that put a used token back. `FreshKept`: what a refresh removes when it is refused,
or replaces when it is not, is the record it has read, never what another refresh or a login has stored since; a
record that was last changed without the lock is removed or replaced unseen (see *Seen while modelling*; the ghost
`unlocked` names the case). Bounds: two clients, one of which may die, four tokens.

These three (not `CredentialsSurvive`) hold in `parts` under assumptions the code does not secure: no living
holder outlasts the threshold of five seconds (`Overstay = {}`), and at most one client waits beside a dead one's
lock (two clients). `refresh_overstay` and `config_steal` drop one assumption each, and the property falls
(*Findings*). `parts` shows that no interleaving, death or lost answer within the bounds breaks them otherwise. Two
ways are not modelled: a waiter that a chain of short holders keeps out for ten seconds steals the lock of a living
one, and `jeo setup` writes `config.json` without the config lock (`setup.ts:233`), so a patch between its read and its
write is lost. `ConfigStore` has only the writers that go through `saveConfigPatch`; of setup the record of one
provider is in `CredentialRefresh`.

`DaemonLock.tla` is the lock of `agent/notify/daemon-control.ts` with the reclaim guard, ready mark, release and
`stopDaemon`; a process may die between any two system calls. Reading the record (`ReadsOwner`), asking whether the
process it names lives (`ProbesOwner`) and removing what is at the path (`UnlinksOwner`) are steps of their own, as in
the code. `OneOwnerUnlessReleased`: there is one owner, unless an owner has released the lock between another's read
and its probe; then there may be two (see *Seen while modelling*). No death leads to two owners, because the
record of a dead process stays where it is until a holder of the guard removes it. Bounds: three daemons and a stop.
A daemon that dies with the guard leaves a guard that no start removes; that costs availability only, and is
what the code's comment chooses.

**The session file.** `SessionStore.tla` has the messages in memory, the appends at the end of a step and of
a turn, the fragment an interrupted append leaves, the next line glued to it, compaction in a turn and at the
prompt, `/clear` and `/resume`. A turn may throw before its last flush, by an abort or an error, and the prompt comes
back (`TurnThrows`); a compaction may end in an error without a marker, or its marker or the reply fail to be
written. `TranscriptKept` says what the file owes between turns: order, no duplicate, and one message lost per
interrupted append beyond its own and beyond what a thrown turn had not flushed. The last is not a promise of
the code but its behaviour: those messages are never written (see *Seen while modelling*; the ghost `lost` has them).
`ResumeFindsKept` is violated (`session_resume`, *Findings*). Bounds: four messages, two markers, two faults, one
message kept by a compaction. A header is rewritten in one step.

**The workflow.** `Workflow.tla` has the planner (draft, review, one revision, verdict), a user who edits the
plan, `jeo approve` and two runs of `jeo team` with the run lock, heartbeat, resume, a parallel group that is
merged step by step, failure, abort and death. `ExecutesApproved`: what is executed was reviewed and
approved, although state and bytes are read from two files that change in between, and an approval
writes back what it read. `NothingSkipped`: a state that says complete has every task of that very plan behind
it. `RecordedOnce`: while runs do not overlap, no recorded task is started again, unless another plan's state has
replaced the record in between (see *Seen while modelling*). That they do not overlap (`OneRun`) is violated
(`workflow_lock`, *Findings*). Bounds: three tasks, the last two a group, two plans.

**The gateway.** `Gateway.tla` has one action per stretch of `handle()`, of a turn and of the shutdown, and the
scheduler's loop place by place: `scan` is its index, and while it is not 0 nothing else happens, since the loop
has no await. A call keeps its place in its admission lane until it leaves `handle()`. `ExecutedOnce` allows a
second execution only after as many other ids as the gateway remembers, or where an earlier delivery that was
outdated in this way was then turned away and deleted the note (see *Seen while modelling*); `LaneOrder`,
`OneTurnPerConversation`, `PlaceForPrepared` and `NoneStranded` are what lanes, keys, the claim before preparing
and the scheduling at a turn's end are for. The
order is per lane: a message that opens a thread and the replies in that thread are in two lanes, and the code
promises nothing between them. Bounds: three messages, two in one lane and conversation, four deliveries, two
places, two remembered ids, two turns at once.

**The rate-limit pool.** `RateLimitPool.tla` has the lanes, the coalescing, the token bucket, the loop of `drain()`
grant by grant, and the cursor of `agent/notify/rate-limit-pool.ts`. The cursor is an index into the sessions
queued *now*, by their oldest item, so it is no round robin: with n sessions a waiting one may be passed over
more than n-1 times. `NotStarved` states a bound of n(n-1), which the instance (three sessions, four items) attains:
six. It counts since an item was last removed from the lane unsent: `removeWhere` has no caller in the program (see
*Seen while modelling* for what it would do to the bound).

**Updates from Telegram.** `TelegramDaemon.tla` has the poll loop, one update at a time: request over the
session's socket, acknowledgement or time-out, answer through the pool with its retries, offset to disk. The
daemon may die, be stopped and started, the socket may close, an answer may arrive though the send
failed. `CursorBehindWork`: no command, tap or message is passed that neither took effect nor was answered, except
where there was nobody to take it and for what a session's topic swallows without a word although its session is
there (`Ignores`, `Settled`; see *Seen while modelling*): an aside (a config command, which is sent without asking for
an acknowledgement, another slash command, or a message that is for nobody), a photo or document without text that was
not downloaded, and anything in a topic while the chat is not known to be private. What a config command does at the
session is left out. `NotReplayed`: what was acknowledged is not asked for again in this life of the daemon; after a
death it is, and the chat then sees an action twice. Bounds: a command, a photo and an aside, two requests, two lives,
one token, one retry; messages with text and taps are covered by the proofs only.

**Prompts from Discord.** `RemoteControl.tla` joins three programs: the Discord daemon (prompt queue, stage,
request, time-outs), the session's endpoint (grant with its generation, one prompt per socket, abort) and the
prompt loop (admission when no input is there, race with a local line, turn, answer). Each end has its own
view of the sockets and of the grant. `AnswersUnderGrant`: what is shown as an answer comes from a turn that ran
from request to end under one grant and with no other input. `GivenUpIsStopped`: the session does not go on
with a prompt the chat was told has failed, or the news of it is under way. Bounds: two prompts, three changes
of the grant, two sockets, three prompts and sockets together (without the last bound the properties held as
well on a run of its own, with 2.2 million states).

**Session topics.** `SessionTopics.tla` has the handlers of `telegram-daemon.ts` that find or create a session's
forum topic and give it the name its identity wants, the registry (`agent/notify/topic-registry.ts`) with the
creation that concurrent handlers share, and its saves, which are atomic but wait for one another nowhere.
Telegram may refuse a call, or do it and lose the answer; a save may fail; a socket may close and open again; the
daemon may die and load what is on disk. `OneTopicPerSession` allows a second topic only where the first was
lost to the program, by a lost answer or a death before the save. `RecordedNameApplied` is violated
(`topics_refused`, *Findings*). Bounds: one session, two titles, two handlers, three topics, two sockets, one
fault, two starts of the daemon, with and without a flat topic.

**File calls.** `FileEdits.tla` has the read, write, edit and delete calls of one batch: the groups in which the
engine runs them (`engine.ts:1539`), the guard against blind edits, and of `agent/tools.ts` the anchors by
content with their search for lines that have moved. An edit reads its file and writes it in two steps, so calls
of one group overlap. `BatchAsInOrder` compares the files with what the calls mean one after the other, where a call
finds what the last call before it that wrote its file has left (`InTurn`): no edit is lost or applied to other
lines than its anchors name, whether the file system tells letter case apart or not. A rejected call changes
nothing. Rejection is excused where the file is missing, where there are no anchors, where a number lies past the
file's end, and where no anchor tells the place: a place is told by an anchor that no other line within the search
window carries, if the other anchor is there too (`ToldPlace`). Bounds: three calls of nine forms, two spellings
of a path (they are alike, so the first call uses the first), one foreign line inserted since the model saw the file.
Files that are longer than the search window of 64 lines, or missing from the start, are covered by the proof only.
Not modelled: links, hash collisions of anchors, and a write that fails after it has truncated its file
(`tools.ts:328-334`, `tools.ts:591-596`): the call is then an error, yet the file is empty or half written.

*Runs.*

| run | bounds | what it shows |
|---|---|---|
| `parts` | all twelve machines, as above | the properties named above that are not said to be violated, and `EvidenceSurvivesCancel` (two detached runs, inboxes of 2, with steer, pause, resume, cancel and tear-down) |
| `config_steal` | `ConfigStore` alone, a third client | a violation, see *Findings* |
| `refresh_overstay` | `CredentialRefresh` alone, a holder may outlast the threshold while it waits for the provider | a violation, see *Findings* |
| `session_resume` | `SessionStore` alone | a violation, see *Findings* |
| `workflow_lock` | `Workflow` alone | a violation, see *Findings* |
| `topics_refused` | `SessionTopics` alone | a violation, see *Findings* |

None of these machines states fairness; what must eventually happen is stated as a state in which nobody
waits without a cause (`NoneStranded`, `NotStarved`, `GivenUpIsStopped`).

*Proved*, each for any value of the constants (`Tasks` and `MaxQueued` natural numbers, the other assumptions
are those of the modules):

- `SharedFileProofs`, of the daemon lock: `OneOwnerUntilReleased` (`OneOwnerUnlessReleased`). Whoever stands in an owning
  place is named by the lock; whoever reclaims holds the guard; the record that a reclaimer has read is still there
  when it probes and when it unlinks, unless its owner released it in between, and a dead owner stays dead.
- `SharedFileProofs`, of the config file: `CredentialsStay` (`CredentialsSurvive`). Whoever is about to replace the
  file has read a whole one; the lock plays no part. `PatchesStay` (`NoLostUpdate`) needs it: the client inside is
  alone there, has read the file as it is, and whoever is about to remove the lock has judged one whose holder is
  dead (`LockInv`). Assumed is `OneBesideTheDead` (nobody dies, or there are two clients), since `config_steal`
  refutes it for three.
- `SharedFileProofs`, of the credentials: `RefreshesApart` (`NoSelfLogout`) and `ReplacesTheRead` (`FreshKept`), with
  `Overstay = {}` assumed as well, since `refresh_overstay` refutes them without it. The token on record is good, or
  its successor is in the hands of the client inside the lock or known to be lost (`RecordOK`, `RefreshOK`).
- `SharedFileProofs`, of the session file: `TranscriptStays` (`TranscriptKept`), with `KeepRecent` a natural number.
  The part of the history behind the mark is the last messages spoken, so the file is judged by those that were due
  before them (`TailOK`, `Due`): its whole lines say some of these, later lines later ones, and what is missing,
  counted together with a fragment at the end, is at most the faults so far (`Covered`). A thrown turn moves what it
  had not flushed from the first part to `lost` (`TurnThrowsKeeps`). That the reader's list
  has these lines, each once and in order, rests on `NthPlaces`.
- `GatewayProofs`: `PlacesSuffice` (`PlaceForPrepared`), `TurnsApart` (`OneTurnPerConversation`), `LanesInOrder`
  (`LaneOrder`), `NobodyStranded` (`NoneStranded`) and `NotTwice` (`ExecutedOnce`), with limits that are natural
  numbers. The invariant counts the queue together with the places claimed before preparing. Whoever is past the
  wait for its lane has only calls before it that have left `handle()`, for good, so each lane is queued in the
  order of arrival and behind what was started of it (`LanesOK`, `OrderOK`); before the place the scheduler looks at,
  everybody waits for a turn of its conversation (`ScanOK`). For `NotTwice` a second invariant says of every
  accepted call that its message is noted, or was outdated, or had its note deleted (`SeenInv`); the notes lie in
  the order of the last calls, so one that gives way is followed by as many others as are remembered.
- `GatewayProofs`, of the rate-limit pool: `NobodyStarves` (`NotStarved`), for any number of sessions and lanes, the
  sessions being finitely many. A grant puts nobody ahead of a waiting session except the one it served, and that one
  only if it was ahead before (`OthersKeepOrder`). So a potential, made of the sessions ahead and of the way the cursor
  has to go (`Rest`), falls with every grant that passes a session by (`RestFalls`), and the passes so far and the
  potential together stay below n(n-1) (`LaneFair`).
- `WorkflowProofs`: `OnlyApproved` (`ExecutesApproved`) and `CompleteMeansDone` (`NothingSkipped`). The invariant says
  that every state the program wrote, and every state a run or an approval holds between its read and its
  write, is *founded*: an approved digest was reviewed, recorded tasks were carried to success, and a group being
  merged belongs to the plan being run. It does not need the run lock, which is why `workflow_lock` costs only
  repeated work. `NothingRepeated` (`RecordedOnce`) does: a run alone in the loop holds in memory what the file
  counts, and all that is recorded is counted there (`AloneInv`).
- `NotificationProofs`, of the Telegram daemon: `CursorIsBehind` (`CursorBehindWork`) and `AcknowledgedOnce`
  (`NotReplayed`). A batch of updates begins at the stored offset, and a handler that is about to advance it has
  an update that was acknowledged, answered, had nobody to take it or is one a topic swallows (`Settled`); what was
  acknowledged in this life lies behind the offset or is the one in hand.
- `NotificationProofs`, of the topics: `OneTopicEach` (`OneTopicPerSession`). A registry, in memory, on disk or on
  its way there, names topics of its own sessions (`Points`); a call that creates a topic is the one the session's
  entry of `inflight` names, and the registry then has none for it (`CallsFit`); and every topic that is not lost is
  in the registry or in that call (`Findable`).
- `NotificationProofs`, of the prompts: `AnswersStay` (`AnswersUnderGrant`) and `GivenUpStops` (`GivenUpIsStopped`), from
  one invariant, `RemoteInv`. A prompt has one place at a time, in the daemon's line, in a request on a wire or in
  the session, and is over once it is in none. What the session says of a prompt it says when it is over, and in
  favour of it only if it ran undisturbed (`SpoiledInv`). One that goes on holds its socket, and is awaited on
  it, has its cancel behind it on the wire, or is on a socket that is no longer the daemon's (`HeldInv`).
- `AgentTurnProofs`, of the file calls: `BatchRunsInOrder` (`BatchAsInOrder`), for any spellings, files and batch, with
  forms of calls as `FormsAssumption` has them. Two calls that name one file, one of them to change it, are in groups of
  their own (`ConflictsApart`, from `GroupsAlike`), because a key is never finer than the file system; so when one
  of them acts the other is over or has not begun (`GroupsInOrder`, `InItsTurn`), and what an edit loaded is still
  in its file when it writes (`LoadedIsCurrent`). What an edit makes of these lines is a lemma without state
  (`EditedLines`, `RejectedForCause`).

## Findings

Seven runs show the program doing other than a comment or a document says. Each is a behaviour of the model
that was retraced in the code.

- `pool_sandbox_race`. `session-pool.ts:78` says that a busy pool is "backpressure on the waiting request,
  never a failure of it". With `requireSandboxCleanup`, capacity counts workers that are not yet proven gone;
  `start()` may then evict the worker it has just returned to another turn, which fails.
- `session_detached`. `task-tool.ts:834` flags a detached launch "so the parent cannot claim a clean workspace
  before collecting and verifying the settled result". The flag is evidence of the launch only. A verification
  that passes while the run works clears it; the run then writes and settles, and the gate finds
  nothing in flight. Jobs have a check for an unobserved completion; subagents have none.
- `config_steal`. A waiter judges the lock by what it read and then removes what lies at the path
  (`state.ts:561-563`). After a holder's death two waiters can both judge its lock stale; the second removes the
  first one's new lock, both patch `config.json` and one patch is lost, although patches "never lose updates"
  (`state.ts:599`).
- `refresh_overstay`. The credential lock is taken for a dead holder's after five seconds (`storage.ts:43`), but a
  refresh holds it over a network exchange that may take thirty (`flows/anthropic.ts:32`) or has no time-out
  (google, antigravity, kimi). Another process then spends the same refresh token, is refused and clears the record,
  although refreshes should go "without double-refresh" (`test/oauth.test.ts:219`).
- `session_resume`. A compaction marker holds an index into the history in memory, whose first message is the
  system prompt. The file never holds that message, so the reader cuts one message too many: `/resume` loses the
  oldest message the compaction had kept.
- `workflow_lock`. `acquireWorkflowRunLock` creates its lock empty and fills it afterwards, and treats a lock it
  cannot parse as stale (`state.ts:827`). A second run that looks in between, or while the heartbeat rewrites
  the file, removes the lock of a live run, and both execute the plan, although "a LIVE holder refuses"
  (`state.ts:772`).
- `topics_refused`. "The LOCAL registry is committed (applyName) only AFTER editForumTopic confirms success"
  (`telegram-daemon.ts:616`). A refusal, or a call within the cooldown that a 429 starts, comes back as an
  answer whose `ok` is false; `editForumTopic` is awaited and its answer not read (`telegram-daemon.ts:623`),
  so the name is recorded though it was never given, and no later identity asks for it again.

Seen while modelling and described here only. The first four are exceptions that a property above names;
each can be had from TLC by taking the exception out of the property or of the ghost it names:

- Two daemons may own the lock. A contender with the guard reads A's record (`daemon-control.ts:203`); A releases
  (`daemon-control.ts:227`) and exits; B links its own record (`daemon-control.ts:183`); the probe of what was read finds
  A dead (`daemon-control.ts:204`), and the contender unlinks B's record and links its own. The comment at line 191
  says of the guard "so a second contender cannot unlink the winner". Without `released` TLC finds this in twelve
  states of the daemon machine.
- What a turn has not flushed when it throws (`launch.ts:2408`, or in `persistTurnTail` itself at 1677) stays in the
  history but is never written: the prompt loop catches the error, and the next turn begins with
  `persistedLen = history.length` (1675, 1754). Likewise a turn whose compaction ends in an error (1745) has shortened
  the history without a marker, so that a resumed session has what the compaction dropped.
- A record that changes without the lock while a refresh exchanges the old token is removed by the refusal
  (`refresh.ts:90`) or replaced by the successor: a token pasted in that time is gone, a logout undone. Conversely
  `jeo setup`, which writes back the record it read some questions ago, puts back a token that a refresh has used in
  the meantime; the provider refuses it at the next refresh, and the user is logged out.
- In a session's topic a config command is sent without an acknowledgement and passed even if the send throws
  (`telegram-daemon.ts:728-738`); a photo without a caption whose download failed is passed with nothing sent or said
  (743, 749); and while `getChat` has failed once in this life of the daemon, everything in the topics is passed
  unanswered (478-487, 780, 785).
- Steering that reopens a turn at the completion gate does not restart the stall clock, which `engine.ts:655`
  says is "reset ... on mid-turn steering"; the turn may stop for time before the model sees the instruction.
- In a sandboxed session the jobs are in the guest's registry and the completion gate asks the host's.
- `resume()` makes any record read `running`, so a settled run seems alive and a cancelled run that settles
  later may be reported as completed (`subagent-registry.ts:261`); `cancelAll()` leaves a paused run, which is
  still working, alone (`subagent-registry.ts:288`). A message steered into a run after its last drain is dropped
  with the inbox.
- A job that an await reported while it was being reaped is skipped by later awaits without ids, although the
  gate still asks for it (`job-registry.ts:181`).
- `team` aborts behind a finished task before it records it (`team.ts:434`), so the task is run again; a group
  that was merged in part is run again as a whole (`team.ts:753`); a run that is suspended for longer than the
  lock's 60 seconds is taken for dead.
- A run checks its plan before it waits for the lock (`team.ts:235`, `team.ts:286`), so a run that was started
  with an older plan may take over the state; a third run with the first plan then begins from nothing.
- A message turned away for want of a place takes its id out of `seen` (`gateway.ts:446`) whoever put it there. If
  the id had already been dropped from `seen` for its age, while the message waited for its lane, and was noted
  anew by another delivery, that delivery loses its note and a third is executed too. Ten thousand messages must come
  in between. `ExecutedOnce` names this case; with one place and one remembered id four deliveries lead to it, with
  the run's two of each more than it has, so there only the proof reaches it.
- `removeWhere` shortens a lane and leaves its cursor (`rate-limit-pool.ts:159`), which then may point behind the
  sessions that wait. If it were used, a session among five could be passed over for ever while the others submit
  and withdraw in turn; without removals the bound of `NotStarved` holds.
- The session header is changed by writing the whole file back in place (`session.ts:466`); a process that dies
  there loses what was not written.
- A Telegram handler that reaches its answer after `stop()`, with no token left, waits for ever, since `stop()`
  ends the timer that would grant one (`telegram-daemon.ts:940`); `start()` then does not return.
- A topic message that a session refuses for good (`launch.ts:4865` without a sandbox grant) is retried for ever
  and holds up every later update. "Steer failed" is also said after a time-out, when it may have succeeded.
- A Discord prompt sent right after one that was given up is refused while the session still holds the old one
  in `remoteControllers`.
- A local relay accepted after the daemon's time-out goes on sending answers that the daemon drops
  (`discord-daemon.ts:399`).
- With a flat topic configured and a record on disk, an identity that arrives after `getChat` failed renames the flat
  topic, which all sessions share, and commits the name to its own record.
- Saves of the topic registry wait for nobody, so an older one can land last; a death then brings it back. The
  ghost of `SessionTopics` takes what a death forgot from the file as it then is, and there is one session, so
  `OneTopicPerSession` says little about this: it excuses the topics that an older save has dropped.
- An anchored insert whose number is past the end of a file that has shrunk is rejected before its line is
  searched for, and so is a range whose last line was the empty one at the end (`tools.ts:440`,
  `tools.ts:489`). Conversely an anchor whose line is gone is satisfied by the only other line of the same
  text nearby (`tools.ts:415`).
- Two paths that are links to one file count as two files, so their edits may overlap (`engine.ts:1556`).

## What is not shown

Liveness is model-checked, not proved, and only for the session pool and the engine turn. The runs of the
session gate (`gates`) and of `parts` state no liveness. A property that *Proved* says is model-checked only holds on
the instance of its run.
What a recursive definition computes for every input is out of the prover's reach, and so are the library's
induction theorems; where a proof needs an extreme element of a set of numbers, it takes one by `LeastNumber`.

Crashes and restarts are modelled where the code persists something: locks, stores, the session file, the
workflow, the Telegram daemon. The engine turn, the session gate and the pool start from a fresh process; the
goal file of the gate is not lost or reread.

Data is abstract throughout: that the parser recognises a verification command, that a snapshot notices a
change, that a reply's JSON is read correctly, is assumed. The components marked *not modelled* in the inventory
are either input and output (terminal, command line, protocol answers, callback server), text (prompts, memory
scoring, rendering, catalogs), or depend on a remote service or container engine whose behaviour the code does
not fix. They are most of the program's lines, so the map covers a small share of them, and more of it could only
be had by modelling layout and text.

## Plan

Done: session pool, engine turn, session completion, the locks and stores, the session file with compaction,
the workflow, the gateway, the rate-limit pool, the two daemons' dialogues with a session, session topics, file
calls; proofs of every safety property and action property the passing runs check. What is left:

1. `Gateway` composed with `SessionPool` in place of the environment that calls `turn()`.
2. The goal file, which ends the assumption of `SessionCompletion` that flags survive a crash.
3. The Slack daemon and the pushes of subagent changes; the serving of a session's own rename of its title.
