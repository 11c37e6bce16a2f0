# TLA+ specifications of ohrs

ohrs is an agent harness in Rust: a loop that calls a language model and runs
the tools it asks for, with background tasks, subagents, mailboxes, a cron
scheduler, hooks, permissions and MCP servers around it. This directory holds
TLA+ models of the parts of it where control is hard to get right, the TLC
configurations that check them on small instances, and proofs, checked by
TLAPS, of their safety properties for every instance.

`PROJECT.json` relates the two: `map` names the source lines of every
definition, `hazards` the lines where something can go wrong that a unit test
would hardly reach and the properties that watch them, `runs` the TLC runs,
`mutants` a plausible bug for each property that breaks it, `theorems` what is
proved.

## Inventory

Paths are relative to `src/crates/`. "Hard" names what makes the part hard to
test.

| Part | Source | State | Operations | Talks to | Hard |
|---|---|---|---|---|---|
| Background tasks | `oh-services/src/tasks/manager.rs` | task table, completion listeners (one tokio mutex), a gauge, per task a kill channel, a child process and its pipes | create shell / remote-agent / in-process task, two watchers, `stop_task`, register / unregister listener | child processes, in-process jobs, listeners | stop racing exit; work done after the unlock; failed launch; descendants that hold the pipes; dropped futures |
| Subagents | `oh-services/src/subagent/manager.rs`, `oh-swarm/src/worktree.rs` | worktree directories | `spawn` in process, as a subprocess, in a git worktree | background tasks, mailbox | listener registered after the task started; job dropped between posting and returning |
| Conversation loop | `oh-engine/src/query.rs`, `query_engine.rs` | history, cancellation token | `submit_message`, `clear`, `run_query` | provider, tools, compactor, hooks | cancellation at any await; runs that end half way and leave the history behind |
| Compactor | `oh-services/src/compact/mod.rs` | none | `compact` | provider | cutting between a call and its results |
| Mailboxes | `oh-swarm/src/mailbox.rs` | files in `inbox/` and `processing/` | `send`, `recv_one`, `peek_all` | other processes | several readers over one directory; crashes |
| Cron scheduler | `oh-services/src/cron/mod.rs` | one JSON file per job, table of task handles | `start`, `stop`, `add`, `remove`, `pause`, `resume`, `fire_now`, one loop per job | runner | abort against a write on its way; calls that overlap |
| Teams | `oh-swarm/src/team.rs`, `oh-services/src/coordinator/mod.rs` | registry in memory, `members.json`, a lock per team | create, add, remove, delete | teammate backends | two stores, one of them behind awaits that may fail |
| Tool calls | `oh-engine/src/query.rs`, `oh-permissions/src/lib.rs`, `oh-hooks/src/executor.rs`, `loader.rs`, `matching.rs` | permission settings, hook registry behind a tokio RwLock | `execute_tool_call`, `apply_hook_action`, `HookExecutor::execute`, `evaluate_with_base` | tools, the user, hook processes and servers | read lock held while hooks run; overlapping rules; calls dropped together |
| Teammate backends | `oh-swarm/src/in_process.rs`, `subprocess.rs` | table of teammates, a lock per child | `spawn`, `kill`, `status` | tasks, processes, `TeamManager` | check, then insert; a lock held until a process ends; handles that go stale |
| Sessions and recorders | `oh-services/src/sessions/mod.rs`, `subagent/trajectory.rs` | SQLite database over one connection, a counter per recorder | `create_session`, `append_message`, `list_messages` | the loop's hooks, in-process subagents | transactions that fail half way; appends that overtake one another |
| Trajectory files | `oh-harness/src/cli.rs`, `trajectory.rs`, `main.rs` | a JSONL file, a static slot for its writer | open, write turns, finalize | the signal handler | a signal between any two steps |
| Provider clients | `oh-api/src/client.rs`, `openai.rs`, `codex.rs`, `sse.rs` | OAuth tokens and `refresh_lock` (Codex), one decoder per response | `stream_message` | provider's servers | refreshes that race; retries; interleaved deltas; silence |
| MCP client | `oh-mcp/src/client.rs` | sessions by server | `connect_all`, `call_tool`, `ping`, `refresh` | servers | states that go stale; no caller in the harness |
| Memory, bridge sessions | `oh-services/src/memory`, `bridge` | files, a child process | | | little |
| The rest | `oh-config`, `oh-tools`, `oh-plugins`, `oh-types`, terminal interface, `oh-telemetry`, prompts, skills | | configuration, single calls, rendering | | data, not control |

What makes each part correct, and where the property is:

- **Background tasks**: the gauge is exact; a listener hears of a task once,
  after it settled, with its final status; a task that ended
  has left no writer behind and no output that its watcher has not read; a
  stopped task never turns Completed; what ends is announced.
- **Subagents**: no worktree goes under a running agent; none stays after it;
  mailbox and task table agree.
- **Conversation loop and compactor**: every request pairs each ToolUse with
  its ToolResult and alternates roles if the history did; a cancelled run
  returns.
- **Mailboxes**: a message is returned at most once, oldest first; calls return.
- **Cron scheduler**: no loop runs out of reach of the table; a paused job
  stops.
- **Teams and their backends**: concurrent registrations are not lost; no
  running teammate is called finished or loses its place in the table to a
  spawn that could have seen it; every call returns. (That the two stores agree
  is said of them and does not hold.)
- **Tool calls**: what runs is what the settings promise, after every hook that
  may block it; a hook that was removed does not run; nobody waits for ever for
  the registry.
- **Sessions**: counts and messages agree; numbers keep the order of events and
  only a resumed session loses any.
- **Trajectory files**: ended once, with the turns and the status of the run.
- **Provider clients**: tokens are replaced once for each need and never by
  older ones; a message is what the last attempt said, and what is shown and
  told back is the same; a silent server does not hold the Codex client.

## Modules

| Module | Models | Proofs |
|---|---|---|
| `TaskLedger` | what the task manager promises: tasks open once, close once, are told of once | |
| `BackgroundTasks` (`MCBackgroundTasks`) | the task manager; implements `TaskLedger` | `BackgroundTasks_proofs` |
| `SubagentSpawn` (`MCSubagentSpawn`) | the subagent manager, extending `BackgroundTasks` | `BackgroundTasks_proofs` |
| `QueryLoop` | `submit_message`, `run_query` and compaction | `QueryLoop_proofs` |
| `LetterBox` | what a mailbox promises: a letter is taken in one step, by one reader, the oldest first | |
| `Mailbox` | one agent's mailbox; implements `LetterBox` | `Mailbox_proofs` |
| `CronScheduler` | one job, its loops and the calls about it | `CronScheduler_proofs` |
| `Teams` | one team in its two stores | `Teams_proofs` |
| `TeamMembers` | `Teams` with the backends that `add_member` and `remove_member` await | `Teams_proofs` |
| `Permissions` | `PermissionChecker::evaluate_with_base`, as operators | `ToolCalls_proofs` |
| `ToolCalls` (`MCToolCalls`) | calls of tools over the shared hook registry, using `Permissions` | `ToolCalls_proofs` |
| `Recording` (`MCRecording`) | session store, recorders and trajectory file of print-mode processes | `Recording_proofs` |
| `CodexClient` | the Codex client's tokens, refreshes and retries | `ProviderClients_proofs` |
| `ProviderStream` | the three clients' attempts and decoders, and the next request | `ProviderClients_proofs` |

### BackgroundTasks

`pc[t]` follows a task from its creator (`absent`, `counted`, `inserted`)
through its watcher (`launching`, `opening`, `selecting`, `closing`, `firing`,
`done`); `abandoned` and `dead` are a creator that was dropped and a watcher
whose job panicked. What the code does under one lock is one action: `Insert`,
`StopMark`, `Settle` (in `Finish`, `LaunchFails`, `OpenLogFails`), `Register`,
`RemoveListener`. What it does after the unlock is another: `StopSend`,
`CallListener`. `kind` tells `spawn_and_watch` ("command") from
`spawn_in_process`. `work` is the child or the job, `heir` a descendant that
inherited the child's pipes. `output` is where the newest output is: in a pipe
or returned by the job (`Emit`, `JobReturns`), read and handed to the log's File
(`CopyOutput`), written or lost (`WriteEnds`); `Drained` is what the watcher
awaits before it settles the record. An error while reading a pipe is left out.
Return codes are reduced to none, zero and nonzero.
`update_task`, `read_task_output`, `get` and `list_tasks` are left out.

The table's mutex is not a variable: a critical section has no await inside,
so it is one step. Dropping a caller's future is modelled where it matters:
at the creator's lock (`Abandon`) and in `StopSend` (dropping `stop_task`
drops the sender, which wakes the watcher too).

### SubagentSpawn

Adds the caller of `spawn` (`call`), the worktree (`wt`), the in-process
runner's result and the mailbox it is posted to. Actions of `BackgroundTasks`
are conjoined with what the subagent manager does at the same step:
`CreateAgentTask` drives the creation, `RegisterCleanup` is `Register` by the
caller, `ReturnResult` is `JobReturns` after `PostIdle`, `HearCompletion` is
`CallListener` with the clean-up closure. `DropSpawn` drops the caller's
future at any await. The handle that would unregister the clean-up listener is dropped
without being called, so it is never removed; listeners of others come and go
(`Listen`). A removal whose both ways fail leaves the worktree `left`. (The comment at
`subagent/manager.rs:199` that the drop removes the closure is wrong, and the
listeners add up.)

### QueryLoop

The history is a sequence of messages reduced to their role, what their blocks
are and, for calls and results, the reply they belong to and their number.
`pc` is the await `run_query` is at. The provider and the tools answer
nondeterministically or not at all; hooks may block where the code looks at
their answer; the token may fire at any moment. Whether compaction runs is
nondeterministic, because the estimate depends on text; where it cuts is not.
`IsSafeSplit` is `safe_split_point` as a relation. Runs follow one another over
the same history, so what a failed run leaves behind is met by the next one.

Nothing but tests calls `cancellation_token`, `set_cancellation_token` and
`load_messages`. `Cancel` stands for the first, the other two are left out.

### Mailbox

One action per file system call that another process can observe: the rename
of `send` (`Persist`), opening and reading the directory (`StartRecv`, `List`:
a file that came or went in between may or may not be listed), the renames of
`recv_one` (`Claim`, `Miss`), reading and removing (`Remove`, `RecvFails`). A
letter is a number, its file name, and file names sort by the time the message
was made. That is not the order of arrival, although `mailbox.rs:42` says so.
`there` and `returned` are history variables.

`LetterBox` is the same without files: a reader looks into the box and takes, in
one step, a letter such that none it saw and that is still there is older. In
`ImplementsBox` it looks when the directory is opened (`StartRecv`) and takes
when the rename succeeds (`Claim`); reading the directory, which may miss what
came since, and renames that come too late do not show.

### CronScheduler

One job. A call is a sequence of steps at its awaits (`cancelling`, `reading`,
`putting`, `spawning`, `inserting`, `deleting`), a loop one of `sleeping`,
`firing`, `fired`, `persisting`. The rename at the end of `put` is
`tokio::fs::rename`, which runs on a blocking thread that an abort does not
reach: `landing` holds the renames on their way. Time is abstracted, a sleep
may end whenever it likes; so the model does not say how often a job fires.
Left out is a caller that is dropped at an await, as while it waits for the
table's lock in `spawn_job` with its loop already running (446, 449): only
tests call the scheduler, and none drops a call.
`fire_now` and `next_runs` change no state.

### Teams and TeamMembers

One team and one `TeamManager`. A call updates the registry under its std
mutex, then goes on to the disk: `CheckDir`, `Lock`, `LoadLocked`,
`SaveLocked`, or `MakeDir`, `Load`, `Save` for `create_team`, which takes no
lock. `add_member` ("join") and `remove_member` know the directory only, and
await the backend before they lock. In `Teams` the backend answers or fails;
`TeamMembers` says what it does, and every behaviour of it is one of `Teams`.
The tools build a `TeamManager` per call, so in production even the member lock
is not shared between calls; the model gives the code the benefit of one that
is, as its tests do.

A teammate is a number, in the order of spawning; `entry` is the table (a
DashMap, whose operations are atomic), `at[c]` the await inside the backend,
`hand[c]` the child and the mark that a call cloned out of the table.
`SpawnLooks` and `SpawnInserts` are separate: between them another spawn may
come. In-process `kill` cancels the token and returns without waiting
(`in_process.rs:128`; `backend.rs` says "await task completion"), the
subprocess backend holds the child's lock from `KillLocks` to `KillReaps`.
`kill(graceful = false)`, called by tests only, and the worktree backend, which
nobody builds, are left out. So are errors of `try_wait` and `wait`
(`subprocess.rs:146`, `191`, `215`): only the backend reaps its children, and only
under their locks.

### Permissions and ToolCalls

`Evaluate` is the chain of checks in the code's order. Globs, canonical paths
and the splitting of commands are data (`paths`, `commands`, `HighRisk`,
`Unparsable`); a glob that does not parse matches everything, as in the code.
`MayRun` states what the settings promise one rule at a time, without an order;
that the chain keeps it is `DecisionIsPromised`.

`at[c]` is the step of `execute_tool_call`: the events it raises, the prompt,
the tool, and `mutating` for `apply_hook_action`. The registry's lock is
tokio's fair RwLock, kept as, for each call, who asked before it. A call that
raises an event holds the read lock while the hooks run one after another.
`Bodied` hooks (http, prompt, agent) read a body outside the hook's time limit
while the lock is held: `reading` marks that, and `CallsGoOn` assumes that
peers end their bodies. The calls of a reply are dropped together (`Drop`).
What a tool asks of the hooks is applied also when the tool reports an error
(`AfterTool`). Subagents share registry and settings; their contexts have no handle to change
hooks, so their `HookManage` does nothing.

### Recording

The store: `BEGIN`, `INSERT`, `UPDATE`, `COMMIT` as one step with its possible
failures (`Keep`, `Reject`, `Fail`), because the blocking thread holds the
connection's mutex throughout; `stuck` is a transaction a failed `COMMIT` left
open. The recorders number an event when it fires (`Fire`); appends land in any
order. The file: main's steps from `OpenFile` to `Return`, with the signal
handler between any two of them (`SignalFinalizes`, `SignalExits`) and a panic
while main runs the loop. Processes run one after another over one database.

### CodexClient

`await[c]` is the await that a call of `stream_message` is at: reading the
tokens, waiting for `refresh_lock` (because the token is due, or because it was
refused), exchanging, sending, streaming, sleeping before a retry. Tokens are
numbered in the order the server issues them. `tokens` is written under the lock and never
held across an await, so reading and writing it are single steps. After a 401
the lock is kept until the second response has been streamed (`codex.rs:194`
to `221`); reading the body of that 401 (224), which needs no lock but the one
held, is part of `GoOnWithout`. `DropCall` drops the call anywhere; `abandoned` remembers the
refresh tokens of exchanges whose answer nobody received, for the server may
have rotated them, or may do so later (`ServerExchangesLate`): such a loss is
the only way the client comes to send a spent token, and nothing on its side
could prevent it.

### ProviderStream

What the server says is a sequence of items (text, call, other) in pieces that
know their item and attempt; the last piece of a call's arguments is marked,
since arguments that are cut do not parse and become `{}` (`client.rs:294`).
The three decoders differ: Anthropic keeps blocks by index and opens one for a
delta without a start, OpenAI sorts calls by index, Codex keeps the order in
which they were added. Text of OpenAI and Codex is one run. `Reply` is the
message each puts together, `Wire` the next request in each provider's form.
`RequestFails` follows each `is_retryable`; the Codex client's looks for the
codes anywhere in its message (contrary to contract C5, `client.rs:138`), so a
lasting error whose body mentions one is asked again.

## Runs

| Run | Instance | States | What it shows |
|---|---|---|---|
| `tasks` | 2 tasks, 1 listener, symmetry | 462 784 | gauge, output, kill arm, and that the manager implements `TaskLedger` |
| `spawn` | 2 agents, in process or worktree, symmetry | about 2.9 million | worktrees and mailboxes of two agents that interleave |
| `spawn_live` | 1 agent, any isolation, a second listener | 16 537 | ends are announced, registered worktrees removed |
| `query_loop` | Keep 2, 2 turns, 2 calls a reply, 4 replies, histories to 6 | 284 512 | requests, history, compaction, cancellation |
| `mailbox` | 3 letters, 2 readers, crashes | 49 257 | the mailbox implements `LetterBox`; calls return |
| `cron` | 3 calls, 2 at a time, 3 loops | 36 981 | loops are accounted for, disabled ones end |
| `teams` | 3 calls, 2 at a time, 2 agents, any disk, both backends, `status` | 246 198 | the lock loses nothing, running teammates keep their place, calls return |
| `tool_calls` | a call that changes hooks, a subagent's call; 3 hooks, 7 requests, 4 settings | 74 332 | hooks, guards, settings, the lock is handed on |
| `recording` | 2 processes, 1 subagent, 3 events, 2 turns, symmetry | about 2.6 million | counts, numbers, one end line, what the file tells |
| `codex` | 2 calls at a time, any number of them, 2 exchanges that succeed, 2 attempts | 344 326 | tokens, failures, calls end |
| `streams` | 3 clients, 3 items, 4 pieces, 2 attempts | 1 108 239 | replies, deltas, the next request, silence |
| `cron_pause` | smallest that shows it | | a comment the code does not keep, see below |

The type invariants are theorems and not repeated by the runs. Nor do the runs
repeat `AnnouncedOnceAndFinal` and `TerminalIsFinal`, theorems that follow from
`ImplementsLedger`, and `OldestFirst`, a theorem about what `ImplementsBox` says
of every claim.

Why the bounds are enough. Tasks share only the gauge and the listeners, so two
show every interaction of two watchers, and the proofs cover any number. Two
agents are needed for a completion that another agent's listener hears. Four
replies with histories of six and `Keep = 2` compact a history that was already
compacted, and let a failed run leave two prompts in a row before it; `Keep` is
6 in the code, what matters is that it is even (see below), and the proofs are
about every even `Keep`. Three letters let a reader lose one race, win another
and leave the third to arrive late. Three calls on one job are pause, resume
and whatever overlaps them; `Crash` may come at any moment. Three loops are
enough for two calls that spawn at once over one that runs. The liveness run
`spawn_live` has one agent because symmetry is unsound for liveness and tasks
do not wait for each other; its second listener registers and leaves at any
moment, before the agent too, and so hears of jobs, of subprocesses and of
launches that fail, where no clean-up listener is.

`teams` needs two calls about one id at once, and a third that finds what they
left; more calls only repeat that, and the proofs cover any number. In
`tool_calls` a writer and a reader, each in several events, meet in the lock's
queue in every order; the four settings are chosen so that each check of the
chain is overruled by an earlier one in some request, and the decision itself is
proved for all settings. `recording` has the second process because a resumed
session is where numbers collide, and three events because two may overtake
one another while a third has another owner. In `codex` two exchanges are a
refresh and one more after it: the second is what a call that waited through
the first would wrongly make; calls go on without end. In `streams` four pieces
over three items interleave two calls' arguments with text, and a second
attempt follows one that broke off anywhere.

Deadlock is checked for `query_loop`, `mailbox`, `codex` and `streams`;
elsewhere ids, calls or events run out, and the system may stop.

### Fairness

- `SpawnFairness`: tokio runs every task that is ready, so watchers, copy tasks
  and the writes they hand over, called listeners, the spawned removal and a
  `stop_task` under way proceed, one weak fairness condition each. Nothing makes a process exit or a runner return:
  the properties start from a task that is already `Ending`, and allow for a
  panicked job and a descendant that keeps the pipes open for ever.
- `QueryLoop`: weak fairness of `Engine`, what the loop does by itself. Answers
  of the provider and of tools are not fair, so `CancelEndsRun` cannot lean on
  them. It is not claimed from `calling` and `compacting`: opening the stream
  and summarising are awaited outside any `select!`.
- `Mailbox`: a closure on a blocking thread runs to its end unless its process
  dies.
- `CronScheduler`: calls and loops proceed; strong fairness of `ReloadPaused`
  says that the reload does not fail for ever.
- `TeamMembers`: calls proceed; strong fairness of `Locks` says that tokio's
  mutexes are fair queues; a process that was killed ends. Nothing makes a
  task or another process end.
- `ToolCalls`: weak fairness of `Goes`, what a call does by itself, the hooks'
  time limit included. Users, tools and peers need not answer.
- `CodexClient`: weak fairness of `Goes`, with the ten seconds of an exchange;
  strong fairness of `Locks`. None for the server: `CallsEnd` assumes of it
  that requests are answered and streams end.
- `ProviderStream`: weak fairness of `ClientGoes`, with the two minutes of the
  Codex client. None for the server.

## What the runs found

A comment that the code does not keep, as a run that TLC refutes:

- `cron_pause`: "`pause` aborts the task handle and sets `enabled = false`"
  (`cron/mod.rs:9`). The aborted loop's rename may land last. `PauseSticks`.

More of the kind, which the models show but no run repeats:

- "Kill the whole process group so bash-launched grandchildren are also reaped"
  (`tasks/manager.rs:584`). The child is not made the leader of a group, so
  nothing but the child dies: `NoticeKill` leaves `heir` alone.
- "Clean up the worktree once the task reaches a terminal state"
  (`subagent/manager.rs:182`). The listener is registered after the task was
  started; a task that settles first leaves its worktree.
  `RegisteredWorktreeRemoved` therefore starts from a registered listener.
- "Drain I/O tasks before updating status" (`tasks/manager.rs:554`), and the
  test that asserts that the log of a Completed task holds what it said (769).
  The watcher awaits the copy tasks, but these write to a tokio File that
  nobody flushes and ignore the errors of its writes, so the last output may
  reach the file after the record reads Completed, or never. `OutputDrained`
  therefore says that everything was read, and allows `output = "writing"` in a
  settled command.
- "[`TeamBridge`] keeps them consistent" (`coordinator/mod.rs:13`). A team left
  on disk by an earlier process keeps its members when it is created anew, the
  registry starts without them.
- "consume the stream under cancellation. If the token fires mid-stream we drop
  the stream" (`query.rs:249`), and "surface deltas to the UI as they arrive
  rather than buffering the whole response" (`client.rs:42`). All three clients
  return only when the whole response is there, so the loop awaits it outside
  its `select!`, and a token that fires while the server streams is noticed
  when it has ended (`CancelNoticed`). Against a server that falls silent,
  Anthropic's and OpenAI's clients wait for ever.
- "terminal line for crash / panic / early-return paths" (`trajectory.rs:196`,
  `README.md:104`). A panic writes no end line: the static slot keeps the writer
  from being dropped. Nor does a signal before the writer is registered
  (`EndWritten` excepts both). Turns are written when the run has returned Ok,
  so a run that ends in an error or at the turn ceiling leaves none.

Smaller ones, visible in the models but without a run: a Killed task becomes
Failed when its child cannot be launched or its log opened (`TerminalIsFinal`
states the exception, against `tasks/manager.rs:564`); a creator dropped at the
lock and a job that panics leave the gauge one too high (`Counted` counts
them); an in-process agent that is stopped never posts the notification that
`subagent/manager.rs:250` promises "regardless of success"; the cancellation
token is never reset, so an engine that was cancelled once answers every later
prompt with an error; `peek_all` is an error when a reader claims a listed file
first; `create_team` on an existing team is not the "no-op" of `team.rs:112`,
it loads and saves without the lock (`passed` in `Teams` marks it); two
concurrent spawns of one id leave the first teammate running without a handle,
and a removal that overlaps an addition can leave one running that
`members.json` does not list; a glob in an allow rule that does not parse
matches every path; an empty reply leaves an assistant message without content
in the history (`client.rs:281`); a subagent's `HookManage` reports success and
changes nothing.

Two facts that hold for reasons the code does not state:

- A history that alternates has odd length when it is compacted, and
  `COMPACT_KEEP_LAST_N` is even, so the naive cut falls on an assistant message
  and `safe_split_point` has nothing to do. It matters only once a failed run
  has left two prompts in a row. With an odd constant it would matter always,
  and the summary would be followed by a user message.
- After a cancelled dispatch the history holds an unanswered ToolUse. No
  request ever carries it, only because the token is never reset
  (`SubmitResetsToken` is the mutant).

## Proofs

The proof modules extend the component's module and prove, for every value of
the constants the assumptions allow:

- `BackgroundTasks_proofs`, from `TasksFinite`. The invariant `Consistent` is
  inductive: besides types and the gauge it says, per task, what the record,
  the notifications and the processes may be at each stage of the watcher. The
  properties of the run are not inductive by themselves: that a listener heard
  the final status needs to know that a settled record no longer changes
  (`RecordFollowsWatcher`) and that the snapshot still equals it
  (`SnapshotFollowsRecord`); that a task that ended has nothing left to read
  (`OutputIsDrained`) needs to know who can still start a descendant or write
  (`PipesFollowWork`). The gauge needs
  cardinalities, from `FiniteSetTheorems`. Then every step is shown to preserve
  each part, the safety properties follow, and each step is mapped to a step or
  a stutter of `TaskLedger` (`LedgerImplemented`).
  Every step of the subagent manager is a step of `BackgroundTasks` or leaves
  its variables alone (`SpawnUsesTasks`), so all of this holds there too. Its
  own invariant adds `CleanupFollowsEnd` and `OutcomeWasPosted`. What these
  theorems assume of the instance, that every agent has a listener of its own,
  others or not (`OneListenerEach`), is a hypothesis of each of them; the runs check it of
  theirs (`InstanceAssumption`).
- `QueryLoop_proofs`, for every even `Keep`. `HistoryShape` is inductive with
  the types: the history is paired at every step unless the token fired, and
  then no request follows. `Compact` is the hard step: a cut at a message that
  is not results keeps pairs together. The two action properties of compaction
  follow from arithmetic on the length.
- `Mailbox_proofs`, for any finite set of letters and any readers. `OnePlace`
  is inductive with the types; `OldestFirst` needs that what a reader has not
  tried yet contains every old letter that is still there, and so
  does the refinement (`BoxImplemented`), whose one hard step is `Claim`: what it
  takes was chosen from a listing that may be stale.
- `CronScheduler_proofs`, for any loops, callers and number of calls.
  `LoopsAccounted` needs `OneOwner`: without it a `SpawnLoop` could take the
  loop that another call is about to enter.
- `Teams_proofs`, for any agents, callers and number of calls. Types include
  who holds the member lock; `OnlyRemovalsRemove` needs `LoadedIsCurrent` (what
  the holder loaded is still what is in the file, unless a call without the
  lock wrote it) and `AgentKnown`. Every step of `TeamMembers` is a step of
  `Teams` or leaves its variables alone (`MembersUseTeams`), so both hold there.
  `FinishedAreDead` and `OnlyDeadReplaced` need to know what the call at each
  await of the backend has in hand, and that a teammate that ended stays so.
  `MembersTypeCorrect` follows from the same invariant.
- `ToolCalls_proofs`, for any finite set of calls, hooks, requests and
  settings. First the decision, case by case (`DecisionIsPromised`). Then the
  calls: the inductive invariant says that the queue orders those who want the
  lock, that who runs a hook holds it for reading and a writer alone, and what
  a call at each step has let through. `RunningHookIsRegistered` is the mutual
  exclusion of that lock, `GuardsHold` adds that `ran` and `passed` agree while
  an event is not blocked.
- `Recording_proofs`, for any sessions, runs and bounds. `Numbered` and
  `Recorded` tie a message to its event; `Alone` says that two runs share a
  session only when one resumed it, which is why `UNIQUE` strikes no other. The
  count is a cardinality (`FiniteSetTheorems`). For the file, `FileInv` says
  what it holds at each step of main and where the handler met it.

- `ProviderClients_proofs`, of `CodexClient`, for any callers, tokens and
  attempts. The types say at which awaits `refresh_lock` is held. The other
  half of the invariant is what the holder knows: that it asked with the
  refresh token stored, that the token it replaces is due or refused
  (`HolderIsCurrent`), that the answer it waits for is newer than what is stored
  (`AnswerIsNewer`), and that a stored token is spent only if an answer is on
  its way or was given up (`StoredIsAccounted`). Since nobody else stores
  tokens, every step keeps it.
- `ProviderClients_proofs`, of `ProviderStream`, for any number of items, pieces
  and attempts. The invariant, `Faithful`, holds while a response is decoded and
  as long as the reply is used: under each key lie the pieces of that item that
  were sent in this attempt, the run of text is the text, the deltas are the
  same pieces, and Anthropic's blocks are in the order of their items, whatever
  came unannounced. Of Anthropic's reply, put together block by block, it says
  at every step what it would be if the stream ended there (`ReplySays`); for
  the others, which sort or follow the calls, this is computed once
  (`OthersSay`). `Assembled` and `ShownIsKept` follow, and `ToldBack` message by
  message, since what is sent of two conversations is sent one after the other.

  Most of that module is about sequences that are chosen from, mapped and
  flattened. The prover has no theory of `SelectSeq`, and `FlattenSeq` is
  recursive: `ProviderStream` writes the first with the second (`Select`), and
  the lemmas prove about the second what is needed, by an induction over sets of
  sequences (`BuildUp`) that rests on the least element of a set of numbers.

Only model-checked: everything under fairness (`EveryEndIsAnnounced`,
`RegisteredWorktreeRemoved`, `CancelEndsRun`, `DisabledLoopsEnd`,
`CallsReturn`, `TeamCallsReturn`, `CallsGoOn`,
`CallsEnd`, `StalledStreamEnds`), which is out of the prover's reach. Every
safety property the runs check is a theorem, but for `PauseSticks`, which is
false.

## Not modelled

- `oh-config`, `oh-types`, `oh-plugins`, skills, prompts, agent definitions,
  the terminal interface: data, start-up code and rendering, without steps that
  interleave.
- The tools of `oh-tools`: each a single call on files, processes or a service
  above; `ToolCalls` sees them as calls that answer, fail or do not answer.
- The MCP client and bridge sessions: nothing in the harness calls them, so
  there is no use to model them from.
- The memory store: one file per entry behind single calls.
- `update_task`, `read_task_output`, `update_session`, `delete_session` and the
  read-only calls: they touch no state the properties are about, or have no
  caller.
- Time: sleeps and limits end when they like. So it is not said how often a
  cron job fires, nor how long anything takes.

## Plan

Done: background tasks with their abstract specification, subagents composed
with them, the conversation loop with compaction, mailboxes, cron, teams
composed with their backends, tool calls with hooks and permissions, session
store and trajectory files, the provider clients, and a mailbox that implements
an abstract one, each with its proofs.

Left, in this order: the compositions of `QueryLoop` with `ToolCalls` and
`ProviderStream`, whose answers it now takes as given; an abstract
specification of a reply (what was said, in one step) that `ProviderStream`
implements.
