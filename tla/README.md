# A TLA+ model of litecoder

litecoder is a coding agent for the terminal: one Python process, one asyncio
event loop, one or more agent sessions that ask a model what to do and run tools
on a workspace. This directory holds TLA+ modules of the parts of it that decide
what may happen when several of those sessions, their background jobs, their
cancellations, other litecoder processes and the user meet, the TLC runs that
check them on small instances, and proofs that TLAPS checks for every value of
the constants: of the four modules at the core, of the sixteen services the
agents share, of a team, of the memories, files and globs its members work with,
of the permissions a call needs, and of the terminal that shows the turns.

Paths below are relative to `src/src/litecoder/`.

## 1. The system

| component | state it keeps | operations | talks to | what is hard | what makes it correct |
|---|---|---|---|---|---|
| workspace lock `tools/workspace_version.py` | reader count, writer flag, queue of futures; a version | read, write, release | every tool call | cancellation between a grant and the grantee's next step | exact ownership, exclusion, no lost wakeup, order |
| duplicate guard `tools/duplicate_guard.py` | records of successes, leases, rounds, generations | prepare, lease, check, record, new message | tool executor, agent loop | late calls of earlier messages, rounds of background calls | nothing repeated, nothing suppressed by what no longer holds |
| tool executor `tools/executor.py` | where a call is; a version step it owes | execute | guard, lock, file lock, hooks, permissions, tools | every await lets the others run; failures and cancellations half way | one version per run, every change gets a version |
| task board `tasks/{manager,store,models,planning,graph}.py` | one JSON file per task | create, bind, assign, start, complete, fail, cancel, resume, reset, reassign, recover | agents, teams, subagents, worktrees, startup | several agents and processes, crash in a rewrite of all files | no work over unfinished work, one holder, no cycle, no lost update |
| agent loop `agent/{loop,stop,result}.py` | round, budgets, messages of a turn | run a turn, execute batches, cancel | providers, executor, context, hooks | retries, repairs, compaction and continuations in one loop; a second cancellation | every turn ends, no tool call without a result |
| agent runtime `agent/{runtime,factory}.py` | sessions that run, leases on them | start, run, cancel, close | session store, task board, background, teams | startup recovery beside live processes | live sessions are left alone, dead ones are not |
| subagents `tasks/subagents.py`, `tools/builtin/agents.py` | children that run | spawn, finish | runtime, task board | cancellation between child, task and assignment | no task is left in progress with nobody at work |
| teams `tasks/teams.py`, `tools/builtin/team.py` | members, workers, closing | create, message, close | message bus, protocols, task board | close beside a creation; a worker cancelled in a turn | every worker ends with its task settled |
| protocols `tasks/protocols.py` | pending requests | request, respond, time out, shut down | message bus, teams | answer against timeout | one outcome per request |
| message bus `tasks/message_bus.py` | inbox files | send, drain | teams, protocols | a crash between drain and use | no message lost or seen twice |
| worktrees `tasks/worktrees.py`, `tools/builtin/worktree.py` | git worktrees, bindings | create, keep, remove | git, task board | several steps, any of which fails | a binding names a worktree that is there |
| background jobs `tools/background.py` | jobs and their futures | start, poll, cancel, close | executor | a job that outlives its cancellation | a settled job does nothing more |
| session store `context/session/*` | SQLite rows | transactions in threads | runtime, loop | cancellation of a call whose thread commits | the caller knows what happened |
| context `context/*` | messages, summaries | prompt, compact | session store, providers | compaction between a call and its result | calls and results stay together |
| file locks `common/locks.py` | lock files | acquire, release | task board, executor, runtime | acquisition in a thread, cancelled | nobody keeps a lock it does not know of |
| memory `memory/*` | Markdown files, a chain of jobs | submit, extract, consolidate, close | runtime, providers | a job that times out and runs on | one job at a time |
| hooks `hooks/*` | registrations, dispatches, commands that run | register, dispatch, run a command | executor, loop, trace | a hook, its command or the trace fails or is cancelled half way | what failed or blocked lets nothing through, and the trace says so |
| permissions `tools/permission.py`, `ui/permissions.py` | approvals, one prompt pane, a queue | decide, ask, time out | executor, terminal | an answer, a timeout and a cancellation meet at the change of the active prompt | what was permitted is what runs |
| providers `providers/*` | one stream | stream, complete | loop, summaries, memory | pieces cut and interleaved, streams that break | a response is told as it was sent |
| tracing `common/trace/*` | JSONL files, a recorder's next number | record, recover, flush | hooks, CLI | several processes, a crash in a row | complete, numbered rows |
| artifacts and deletion `tools/artifacts.py`, `cli/sessions.py` | files of long results, the rows that refer to them | persist, delete a session tree | executor, session store | another process deletes beside a call | no row without its file |
| built-in tools `tools/builtin/*` | processes, files, walks | run, read, write, search, list | executor, the operating system | the user and programs change the same files; chunks, limits | a call tells what it did and what it missed |
| terminal `ui/*` | event queue, live tail, transcript, the turn's worker | emit, drain, mount, submit, cancel | loop, permissions | threads and handlers interleave | what a turn shows is shown once and in order |
| evaluation `eval/*` | suites, runs, cases, candidates; a checker process | run, execute, score, validate | runtime, evalplus | any step fails, the clean-up included; a process races its limits | no pass that was not earned, no failure that is the harness's own |
| todos, MCP, skills, most of CLI and settings | | | | a list replaced whole, wiring, formats | out of scope |

`PROJECT.json` lists every component with its files, and every hazard with the
line where it bites and the properties that look at it.

## 2. What is modelled

| module | models | actions |
|---|---|---|
| `SharedExclusive` | what the workspace lock promises | `Ask`, `Drop` |
| `RWLock` | `AsyncRWLock` | `Acquire`, `Resume`, `Cancel`, `CancelHandler`, `Leave`, `Release` |
| `Claims` | what the task board promises | `Declare`, `Claim`, `Release`, `Finish` |
| `TaskBoard` | `TaskManager` over `TaskStore` | one per operation, and `ReplaceFile`, `AbandonRecovery` |
| `ToolExecutor` | `ToolExecutor` over `DuplicateGuard` and the workspace's lock and version | the loop's (`NewMessage`, `NextRound`, `Begin`), the pipeline's stages before the tool (`Prepare`, `GiveUp`, `Check…`, `Start`), the tool (`Touch`, `Breach`), and its ends (`Commit`, `Fail`, `Spoil`, `Unwind`, `Settle`, `Interrupt`) |
| `Countdown` | what a turn promises about its length | `Begin`, `Step` |
| `AgentTurn` | `AgentLoop._run_turn` with `RecoveryPolicy` and its budgets | `Start`, `SubmitPrompt`, `Drain`, `Inject`, `Build`, the ways a request ends (`Respond`), `Recover`, `Reconcile`, `RunTools`, `Remind`, `Finish`, `Return`, `Abort`; and `Arrive`, by others |
| `DurableWrites`, `WriteTransaction` | what a write of the session store promises, and the operation lock, shielded worker and shared connection that keep it | begin, commit, cancel, fail, roll back |
| `FileLock` | `NamedFileLock.acquired_async` | the thread's and the task's steps |
| `BackgroundJobs` | `BackgroundManager` | start, end, status, cancel, drain, close |
| `MemoryQueue`, `MemoryStore` | `MemoryCoordinator`; `MemoryStore` with its tools, extraction and consolidation | submit, time out, close; read, replace, recover |
| `Protocols`, `MessageBus`, `Teams` | `ProtocolManager`; mailboxes; `TeamManager` with its workers, over `MessageBus` | request, answer, expire; create, work, deliver, shut down |
| `Runtime` | `AgentRuntime` of several processes, `SubagentManager` | recover, begin and end a turn, spawn, crash |
| `TraceRecorder` | trace files and their recorders | open, append, close, crash |
| `Hooks`, `CommandHook` | `HookManager`; a hook that is a command | register, dispatch; run, stop |
| `Worktrees` | the worktree tools over Git and the board | create, remove, list, and the user's own Git commands |
| `Processes` | `run_bounded_process` | spawn, run, clean up |
| `WorkspaceFiles`, `TextSearch`, `Traversal` | file tools, `search_text`, `glob_files` | the steps of a call, and the user's changes |
| `Permissions` | `PermissionService`, `PermissionBroker`, the prompt pane | decide, ask, show, answer, time out, cancel |
| `Terminal` | the sink, the live tail, the transcript, the turn's worker | emit, drain, mount, submit, escape |
| `ProviderStream`, `TextCompletion` | the OpenAI-compatible stream in two dialects; `complete_text_with_retry` | chunks; responses |
| `Compaction` | `ContextManager`, `CompactionPolicy`, `ManualCompactor` | build a request, summarize, append |
| `SessionFiles` | artifacts, their rows, `sessions delete` | persist, append, delete, unlink |
| `Evaluation`, `SolutionCheck` | the evaluation harness; its check of a solution | the steps of a case; process and supervisor |
| `Services` | the sixteen services the agents share, one at a time | those of their modules |
| `MC…` | instances for TLC; `MCAnswers`, `MCWork` and `MCAgentTurns` hold several modules | |
| `…Proofs` | theorems | |

### RWLock

asyncio runs one task at a time and changes tasks only where one awaits something
that is not ready. The lock's own mutex is never held across such an await, so
each body under it is one action. What is left of the concurrency is the
interval between the moment a future is resolved and the moment its task runs:
in it the task owns the lock (`granted`) and can still be cancelled. `wake` is
what the task will find when it runs; `Cancel` may overwrite a result with a
cancellation, as `Task.cancel` does. `CancelHandler` is the `except` clause of
`_acquire`: it returns an owned lock or leaves the queue. `Release` is a task of
its own under `asyncio.shield`; a cancellation of its awaiter cannot stop it.

`ImplementsSharedExclusive` maps `granted` and `mode` to `SharedExclusive`, where
one step asks or drops a request and admits any compatible set of standing ones.

### TaskBoard

An operation holds an asyncio lock and a file lock from its first read to its
last write and does not await anything in between: callers of one process and of
several are serialised, and one operation on one record, written by one
`os.replace`, is one action whatever crashes. Operations that raise change
nothing and are not steps. `recover_interrupted` reads all records, marks those
in progress as interrupted and moves all of them into place one by one: `staged`
holds those that are still to be moved, `ReplaceFile` moves one, and
`AbandonRecovery` is an `OSError` or a crash between two of them, after which the
lock is free again. The mutual exclusion is the guard `Unlocked`; a run's mutant
drops it and recovery then loses updates.

Descriptions, acceptance text and time stamps are left out. `read_all` checks the
whole graph every time and would raise if it had a cycle or an unknown
dependency; since no reachable board has one (`NoCircularWait`, and the proof's
`DependenciesExist`), that never happens through these operations.
`ImplementsClaims` maps the board to `Claims`: a task in progress is held by its
owner, a completed one is done.

### ToolExecutor

A call goes through the stages `hooks` (the PRE_TOOL_USE hooks), `leasing`
(prepared, waiting for the lease on its fingerprint), `permitting` (checked
against the records, waiting for the permission and the lock), `running`, and,
if a tool that must not change the workspace says it did, `owing`. It can be
overtaken in every one of them. Under the guard's mutex nothing awaits, so a
check or a record is part of a step; the commit of a success is a shielded task
that runs in one piece.

* `Touch` is the moment a mutating tool changes the content. It is not a step of
  the executor: it happens somewhere inside `tool.execute`. `touched` is what
  the tool reports as `changed_workspace`.
* `Spoil` is every end of a mutating tool that may have changed something:
  cancellation, an unexpected exception, a partial failure, a wrong status.
  `ToolDenied` and `ToolFailure` are `Fail`: the executor trusts them to mean
  that nothing changed.
* `Breach`, `Settle`, `Unwind` and `Interrupt` are the contract breach: the
  change is numbered after the shared lock was given back, under the exclusive
  one (`_increment_exclusive_shielded`). A cancellation may arrive while the call
  waits for that (`Interrupt`) or before it does (`Unwind`: the step is then made
  by `execute`'s handler, without the lease).
* `Background` are the tasks that `background_start` runs; they take the round of
  the loop that started them and outlive rounds and messages. `NewMessage` and
  `NextRound` wait for all others.
* Two calls of a session for the same tool have the same fingerprint: arguments
  are one set per tool. Calls that differ in their arguments are calls of
  different tools with the same flags.
* The lock appears as its promise (`HoldsLock`, `HoldsWrite`, `LockFreeFor`),
  which `RWLock` implements; traversals hold it shared. The file lock that keeps
  writers of other processes out is taken inside it and adds nothing within one
  process; the versions of other processes are not modelled.
* `unversioned`, and the fields `stale` of a call and `fresh` of a record, are
  history variables: no guard reads them.

### AgentTurn

A turn is one coroutine; what is concurrent with it are its cancellation, which
may hit it at every await, and the notices that background jobs and teammates
leave for it. A phase is the code between two awaits that matter: taking notices
and appending them are two (`Drain`, `Inject`), because a turn that is cut short
in between has lost them; asking and acting on the answer are two; the store's
writes of one stretch are one. `Abort` is possible in every phase, also when the
status is already stored (`closing`), and stores a status only if it is done
before the cleanup timeout.

* An answer is its stop reason and whether it is empty, text or calls; a failure
  is its code. All may come whenever the model is asked. Tokens are one bit: the
  budget is exceeded or not, and never less so later.
* The log keeps what the properties tell apart: the kind of a message, its stop
  reason, and the notices in it. A compaction appends a summary and removes
  nothing, as in the store. The turn compacts where it builds or recovers a
  request (`MaySummarize`); `/compact`, here or in another process, whenever it
  likes (`CompactSession`), for it takes neither lease nor tree lock. Its
  summaries are a kind of their own, so that `AnsweredBeforeNext` can say that
  they alone may stand between a call and its results.
* `retries`, `repairs`, `repaired`, `compacted`, `continuations`, `expanded` and
  `round` are the loop's and the policy's own counters. At rest they have the
  values a new loop would give them: the objects are made for each turn.
* `arrived`, `lost` and `heard` are history variables.

`TurnCountsDown` maps a turn to `Countdown`. `Fuel` is what is left of the budgets
that pay for one more request; `Variant` weighs it so that the phases between two
requests count down too. It takes the place of a liveness property: a turn has at
most `Variant` steps, whatever the provider answers, so it ends if its awaits do.

### Composition: one service per behaviour

Most modules below are about one component each, and their components meet
through promises, not through steps: the executor relies on a lock that excludes,
not on the lock's queue. `Services`, `MCAnswers`, `MCWork` and `MCAgentTurns`
therefore put many of them into one specification: the initial state chooses a
service, its module's actions are the only ones that move, and the variables of
the others stay where they begin. What is checked is the union of the modules'
behaviours, each on its own instance. `Services` takes every bound and every set of
actors as a constant, so that its theorems are about any of them; `MCServices`
gives the values. `MCWork` and `MCAgentTurns` do the same and have TLC's values at
their end. `MCAnswers` has two of its services again, with the workspace
lock, for the properties that need fairness. Where components do share steps they are in one module: children
and their runtime (`Runtime`), workers, mailboxes and shutdown (`Teams` over
`MessageBus`), the tool, the gate and the file lock (`MemoryStore`), handlers and
worker of the terminal (`Terminal`), long results, rows and deletion
(`SessionFiles`).

### Store, locks and files

* `WriteTransaction`: callers take turns through the operation lock; the one
  inside hands its statements to a shielded worker. A cancellation is a flag the
  worker reads before it enters the commit. All operations share one connection,
  so a transaction that could not be rolled back is still open when the next one
  begins. `ImplementsDurableWrites` maps this to `DurableWrites`: a caller is told
  that its write is durable exactly if it is.
* `FileLock`: the blocking calls run in a thread the task cannot stop. `LockGivenBack`
  says that a task that is over owns nothing that nobody will give back.
* `SessionFiles`: a long result is written by a thread, and its row follows at the
  end of the round; `sessions delete`, in another process and without a lock,
  removes rows and then files (`ReferencesAreKept`).
* `TraceRecorder`: rows are appended under a file lock by recorders that learnt
  the last number when they started. The audit closes its recorder with the lock
  (`AuditIsComplete`), a runtime keeps it (`NumbersIdentifyRows`, violated). Either
  gives the lock back with its rows written: the worker of the recorder is ready as
  soon as a row is queued, and a turn has its status to store and its locks to
  leave before the lock is free.
* `MemoryStore`: one file per memory and an index, replaced together under a gate
  of the process and a file lock, by callers in two processes that crash
  (`MemoriesAreKept`). The gate is held across awaits by the tools and taken in
  the loop's thread by the jobs (`NobodyWaitsForItself`, violated).
* `MemoryQueue`: submissions chained one behind the other, with timeouts. A job
  that timed out is cancelled and not waited for (`SerialInOrder` says that only
  such a job can be at work beside the current one).

### Agents at work together

* `Runtime`: startup recovery holds the startup lock and takes tree locks in it; a
  turn holds its tree's lock; a child takes no lock and runs on the lease of the
  turn that spawned it. `LiveTurnsAreNotRecovered` and `OneProcessPerTree` are
  about the children a turn awaits. Detached children (teammates, spawns in a
  background job) may outlive the turn and be recovered by another process.
* `Teams`: creations in the foreground and in background jobs, workers that take
  a delivery and run a turn, and a shutdown that may start at any await of them.
  `NothingOutlivesTheTeam` is about members the lead created and creations that
  were not cancelled half way; a background creation can outlive the team.
  `ShutdownFinishes` uses `DurableWrites`' corner: a commit that wins over a
  cancellation clears it, so a worker may never hear of it.
* `MessageBus` is one step per operation, because it suspends nowhere while it
  holds its locks. The event that wakes a waiter is left out: the poll covers it.
* `Protocols`: announcements take time and may fail or be cancelled with the
  message already in the mailbox; the timer stands still while an answer is
  announced, and a shutdown empties and then replaces the manager.
* `BackgroundJobs`: the end of a job is recorded by whoever sees it first:
  callback, status, cancel, drain or close.
* `Worktrees`: Git is the truth and the board remembers; the tools read both one
  after the other, under different locks, and repair first. `CallsRepair` is about
  a call that nothing disturbs, after anything.

### A turn, its requests and its answers

* `Compaction` is the part of a request `AgentTurn` has as one bit. A request is
  built from the whole log by pure operators (`Groups`, `Shortened`, `Snipped`,
  `Expanded`, `Plan`), and a summary, when one is needed, is appended with the
  cutoff computed from the log as it was loaded. `told` is a history variable:
  the messages a summary was made of. `RequestsTellTheStory` is the reference
  definition the operators are checked against, while a second process compacts
  the same session without a lock.
* `ProviderStream` has the two dialects of the stream as sequences of chunks whose
  pieces are interleaved, late, or missing (`ToldAsSent`), `TextCompletion` the
  retries and continuations of a text (`TextIsContiguous`): `emitted` counts,
  apart from what the code keeps, what the responses that were cut off have brought.
* `Hooks`: every step of a dispatch is told to the trace first; a cancellation may
  find the record made (`TraceTellsTheStory`). `CommandHook` is one call of a hook
  that is a command: the event is sent, two streams and the exit are awaited by
  three tasks, and whatever goes wrong the command is stopped and the action
  blocked. `Services.NothingRunsOn` joins it with `Processes`.

### Tools, terminal, evaluation

* `Processes`: the command has a group of its own and may start helpers, one of
  which leaves the group. The model is that of POSIX.
* `WorkspaceFiles`: both platforms' ways to reach a file and to replace its
  content, while the user replaces directories by links and the system fails or
  crashes. `TextSearch`: the one-pass search over chunks against the matches in
  the whole text (`SearchIsExact`). `Traversal`: the walk and the glob over a tree
  of any depth that changes (`NothingIsMissedUnsaid`), with links in it from the
  beginning and by the user; a link may have something behind it. A sorted listing
  is stated by what it is (`Listing`), and `Way` is a node with the directories that
  lead to it. `been`, what each node has been, is a history variable: the property
  compares what is told, and that the walk says it was cut short, with all that has
  been there (`MayReach`).
* `Permissions`: policy, remembered approvals, and the one pane with its queue. A
  key on its way carries the prompt it was pressed in, which the code does not
  know; `pressedFor` keeps it for the call it decided. So `AllowedByTheUser` can
  tell the user's choice for this call from a stray key (section 4).
* `Terminal`: the worker and other threads emit events, one posted drain takes
  them, and blocks are mounted by handlers and worker alike.
* `Evaluation`: suite, run, case and candidate as a script of steps, each of which
  may fail or be cancelled, and then any part of the nested clean-up.
  `truth` is a history variable: what really happened, against the status that
  is reported (`ScoresAreHonest`). `SolutionCheck`: the process with the solution,
  its pipe, the marks in shared memory and the supervisor's clock
  (`VerdictsAreEarned`).

## 3. What the runs check

| run | instance | question | distinct states |
|---|---|---|---|
| `answers` | 4 tasks at the lock, unbounded queue and cancellations; or 2 jobs of 2 sessions; or 1 request with 2 answers and 2 shutdowns | is the lock a lock; does who waits get an answer | 47 thousand |
| `task_board` | 3 tasks, 2 agents, 1 worktree | do all operations and a recovery that may stop anywhere keep the board's promise | 527 thousand |
| `tool_calls` | 1 session, 2 calls that may be background calls, a reader that may breach, a writer, a lock-free tool; 2 rounds, 2 messages, 2 versions, 1 cancellation | are calls answered only by what holds | 838 thousand |
| `tool_calls_rounds` | as `tool_calls`, one background call | can a call be refused for its round: yes | violation |
| `tool_calls_lock_free` | as `tool_calls`, no breaches | is every record at its version true: not those of lock-free tools | violation |
| `tool_calls_interrupted` | as `tool_calls`, 2 cancellations | is every change numbered: not if a call is cancelled twice | violation |
| `agent_turn` | 1 turn, 2 rounds, 1 continuation, 1 retry of a kind, 1 repair, a failure of each kind, a token budget, 1 notice, 1 summary of the turn's or of `/compact` | does the turn end, and with the truth | 1.2 million |
| `agent_turns` | 2 turns, 1 notice, 2 rounds, answers that end or call, no retries or repairs; 1 summary of the turn's or of `/compact`; or a log of 4 messages with 2 summaries and one manual compaction; or 3 permission requests; or 3 prompts at the terminal | are calls answered and notices kept when turns are cut short; does every request tell the story of its log; is what is allowed what the user allowed; does the screen tell of the turns | 2.2 million |
| `services` | the sixteen services of `Services`, one per behaviour | does each keep its promise whatever is cancelled, fails, times out or crashes | 545 thousand |
| `teamwork` | the team, memory, file, search and walk modules of `MCWork`, one per behaviour | the same for a team and what its members work with | 674 thousand |
| `memory_deadlock` | `MCWork` with 1 memory, 2 callers of one process | can the process wait for itself: yes | violation |
| `trace_kept` | 2 processes, 1 session's trace, 4 rows | does a number identify a row: no | violation |

**Bounds.** The lock: a writer, a reader behind it, a reader inside and a
cancelled fourth are enough for every branch of `_wake_next` and of the handler.
In `answers` two answers and two shutdowns race the timer of a request, for the
question is only whether it ends; in `services` there are three answers.
The board: three tasks allow a chain, a fork
and a would-be circle; two agents, one to hold and one to take; a third of each
adds no kind of step. The executor: two calls are what every race in the guard
is made of. Two sessions that share a workspace are left to the theorems, which
hold for any number.
`Window = 1` stands for `DUPLICATE_CALL_WINDOW_ROUNDS`, which is 5 in the code (the
theorems hold for every `Window`); with `MaxRound = 2` a record is both in and
out of the window. The tools that the code leaves out of deduplication are a
constant (`Undeduped`), empty in the runs, where such a call can only do less. `MaxVersion = 2` is two changes, so a
record can be one and two versions behind; its guard counts the calls that run,
so that the bound only limits which calls start and never forbids an end.
A turn: two rounds are a first and a last one, which the reminder of open todos
tells apart; one continuation, one retry and one repair are the smallest budgets that can be
used and exhausted (in the code 3, 5, and 2 with one of a kind). Two turns are split from the budgets because they do not interact:
every counter is new in a turn, what goes from one to the next is the log, the
notices and the status. The two turns have no failures, and no stops but the end
and the calls; the single turn has the paths of the others through the loop.
`MaxLogOfOthers` bounds when others act: a notice arrives, and `/compact` appends its
summary, while the log has at most that many messages. It is 2 for the single turn,
where a notice or a `/compact` changes no counter and no flag, and 4 for the two
turns, where they may come before, between and after the calls and the results of
the first turn, and of a second one that follows a turn cut short. A transient error stands for a rate limit too, which
differs in its counter only. The repair codes are kept apart because each has a
budget of its own.
The theorems below do not depend on the bounds: they hold for every value, and
the guards that mention them only restrict when a step is taken.

Services: three writers of the store are one that commits, one that is cancelled
and one that finds what they left. Three users of two lock objects over one file
are two that share an object and one that does not. Two jobs of two sessions, three
submissions of memory jobs, three answers to one request and two shutdowns are one
more than the race they make. Two processes with one root and one child, and two crashes, are a live
process beside one that recovers; two trace processes write three rows with three
crashes. Two hooks and one dispatch are one that decides and one behind it. A
hook's command may say two units where one is allowed, on each stream. One task
with two calls of the worktree tools and two changes by hand (two tasks were
checked once, 601 thousand states of this service alone, and are left to the
theorem); one process call with its three kinds of helpers; a stream of three chunks with two calls; the
code's own numbers of retries and continuations of a text. The evaluation has one
run of each mode and a suite of two runs of one mode, two tasks each (one for the
mode with two candidates); a check has two inputs in each of its groups and two
attempts. Sessions are a lead, its child and another one, with one call id each:
two ids double what is alike (checked once with two sessions).
Compaction: a budget of four tokens and messages of zero to three, so that
everything fits, nothing fits, or a shortened result decides; two summaries, since
the second one has to stand for the first; five messages were checked once (2.2
million states). Team: two members, one delegated a task and one created by a
background job, and three units of work, a run, a delivery and one too many.
Memory: two names, two callers in two processes, one version more and two failures,
the second one for the undoing of what the first one stopped.
Files: two directories deep, two contents by others, two troubles of the system.
Search: queries of two and three characters, lines of at most three, two files, a
text of five characters cut everywhere. Walk: five nodes, three at
the root and one below each of two of them, each a file, a directory or nothing; one
that may be a directory is hidden, and the pattern leaves out the two that may be;
one is a link from the beginning (`MaxLinks`), and one change may make another or
take it away. Permissions: three calls of two roots, one key and
one cancellation. Terminal: three prompts, one piece, one trouble (four prompts
were checked once). Every guard that mentions a bound limits what begins: a new
row, word, change, crash or call, never an end.

**Fairness.** `answers` and `teamwork` take fairness. `RWLock` assumes weak fairness of `Resume`,
`CancelHandler` and `Release` (the event loop runs every task that is ready) and
of `Leave` (a body under the lock ends: tools have timeouts, and a cancelled body
unwinds). Nothing makes a task ask for the lock or be cancelled. With that, every
request for the lock settles (`EveryRequestSettles`). `BackgroundJobs` assumes weak
fairness of the end of `close` (its wait has a timeout): closed jobs are reported
(`ClosedJobsAreReported`). `Protocols` assumes it of the timer and of the steps
that end an announcement, for the bus's lock has a timeout: timed requests settle
(`TimedRequestsSettle`). `Teams` assumes it of the shutdown's steps and of a
worker's: a turn ends, as in `Countdown`, and an await resumes
(`ShutdownFinishes`). The other modules state safety only: whether a permission
prompt is answered or an agent finishes its task is not up to the code.

Deadlock is checked in `task_board` and `tool_calls` with its variants; at the lock
everybody waiting would violate `EveryRequestSettles`.
In the other runs the system may rest: the turns, jobs, crashes and changes its
bounds allow are over, or the one call it is about has ended.

**Each property has a mutant** in `PROJECT.json`: a plausible slip in a mapped
definition (a dropped guard, a forgotten wakeup, a version step not taken) that
TLC finds with the property, under the run's own configuration. The mutated
forms stand before the definitions they change. Invariants that are proved for
every value and would only repeat themselves in a run are not run: `FifoAdmission`,
`OwnershipExact` and `NoLostWakeup` of `RWLock`; `NoCircularWait`,
`RecoveryIsCurrent`, `CompletedIsFinal`, `RunningWorkKeepsItsOwner` and
`BegunWorkIsOwned` of `TaskBoard`; `OneVersionPerRun` and `RecordsOfThisMessage` of
`ToolExecutor`; and the type invariants. Those of the modules without theorems
(`TypeOK` in each) were checked in development, and so was every inductive
invariant of section 5 before it was proved.

## 4. What the runs found

* **Rounds go back** (`tool_calls_rounds`). The guard insists on monotonic
  rounds; a background call keeps the round that started it. If the loop goes on
  while it is in its hooks or waits for its lease, it ends with a `ValueError`.
* **Lock-free records** (`tool_calls_lock_free`). `spawn_subagent` is deduplicated
  and takes no lock; its success is recorded under whatever version the
  workspace has by then, also if somebody else's write made it.
* **A second cancellation** (`tool_calls_interrupted`). The version step of a
  contract breach survives one cancellation, not two, and the loop does cancel
  again after its cleanup timeout.
* **Rows numbered twice** (`trace_kept`). A runtime keeps the recorder of a session
  for the next turn, but the tree's lock for one turn only: another process that
  has used the session in between has appended rows, and the first goes on from
  its own old number (`agent/runtime.py:514`).
* **A process that waits for itself** (`memory_deadlock`). A memory tool awaits the
  file lock with the store's gate in its hand; a job of the same process asks for
  the gate with a plain `with`, in the loop's thread (`memory/store.py:58`).

The properties that hold are stated so that they say what remains true:
`RecordsAreCurrent` is about tools that take the lock, and the runs that check
`ChangesAreVersioned` allow one cancellation. Three name the one thing the code
lets happen and exclude everything else: a summary of `/compact` between a call and
its results (`AnsweredBeforeNext`), a stray key (`IsStray` in `AllowedByTheUser`), and
a text whose prefix is dropped (`PrefixIsDropped` in `TextIsContiguous`).

Three attempts at a proof were findings about the models. `CallsRepair` could not be
proved for several tasks as `Worktrees` stood: the left-over worktree of a failed
create had no identity of its own, so that one task's could be taken for
another's, which Git does not allow. A worktree's id is now compared for its own
task, as `_reconcile_task_bindings` does (`InGit`). And `Evaluation` drew the
outcome of a turn and the provider's part in it as two unrelated choices; they are
one record now, with the same values. `Terminal` let a turn go on whose wait for a
flush had been cancelled already, and asked whether there is a worker where the code
asks whether it is running (`is_running`, `ui/tui.py:650`): it took four prompts to
see that two turns could then tell their stories at a time, one more than the run
has. Both guards are the code's now.

Other places where the models had to follow the code away from what a comment, a
test's name or a message suggests. They have no run of their own; the properties
leave them out by name, or speak of what remains:

* *Runtime.* `create_child` after the turn has ended gets no lease, because
  `active_session_id` still answers while the revoked lease does not. `/compact`
  takes neither tree lock nor lease (`agent/runtime.py:316`): its summary may come
  between the rows of a call and of its results (`CompactSession` in `AgentTurn`),
  which are then an orphan that later requests drop (`Orphaned` in `Compaction`). Children that outlive their turn can be recovered
  as interrupted by another process.
* *Teams.* "Close every owned child runtime" (`tasks/teams.py:420`) does not reach
  creations by background jobs and cancelled ones.
* *Memory.* The coordinator's "serially" does not hold for a job that timed out.
* *Permissions.* A task that is cancelled while it activates the next request (in
  the `finally` of `request_permission`, `ui/tui.py:540`) leaves that request active with neither
  pane nor timeout (`ActiveRequestIsShown` states the promise and does not hold);
  a choice is applied to whichever request is active (`ui/tui.py:715`), so a key
  that is on its way when its own request times out, is cancelled or gets another
  answer decides the next one, which its user has not seen: a call can run that
  nobody was asked about. `AllowedByTheUser` admits exactly these.
* *Terminal.* A prompt that is handled while `_process_prompt` ends starts a worker
  that the queued, exclusive one then cancels (`ui/tui.py:740`); one that is handled
  before a worker's first step finds it not running, and that worker never runs
  (`ui/tui.py:650`); late texts of a
  cancelled turn show up in the next; a broken attempt of a provider leaves its
  deltas in the live text.
* *Processes.* A cancellation during the clean-up of a process is not raised again;
  a spawn that was given up kills the root only; a quiet helper outlives a command
  that ended by itself. A hook's command that ignores SIGTERM stays if its call is
  cancelled while it is being stopped (`hooks/command.py:163`), although the
  handler is there so as not to leave it running (`hooks/command.py:121`).
* *Hooks.* The trace of a cancelled dispatch can hold its end twice.
* *Providers.* A last response that says nothing, whether it ended or failed, or
  that was refused, is returned without the prefix when the budget is spent, though
  the docstring says that the emitted prefix is preserved
  (`providers/completion.py:58`); `TextIsContiguous` wants the whole prefix in every
  other case, and none of it in these. A reasoning
  block that is first seen in metadata is never told to start.
* *Worktrees.* Two `worktree_list` at a time can refuse each other; a slow one can
  bind an id that is stale until the next repair; a failed create leaves its branch
  behind, and the retry is refused.
* *Search.* Wide characters cut at the line limit may leave a gap in what a regular
  expression is tried on; the search then says that it is incomplete.
* *Compaction.* A request may have no message at all when the summary stands for
  everything, and the oldest groups, the running turn's prompt among them, may be
  left out without a summary.
* *Evaluation.* A solution that cannot be read ends the whole run without a report
  (`CaptureFails`); a cancellation is lost if a clean-up step raises after it; an
  error in the last steps of the tasks' recovery after a completed turn counts as
  a failed case; a checker's own exceptions count as a wrong solution
  (`eval/evalplus.py:265`); what a process that has ended still had in its pipe
  about being late is not read.
* *Deletion.* `sessions delete` takes no lock: a live turn's later rows are refused
  and its files stay; a cancelled call's file is never deleted; deleting a child
  removes the trace of its whole tree (`cli/commands.py:36`).

## 5. What is proved

Every theorem is checked by TLAPS from nothing but the named assumptions on the
constants, for all their values: `ProcsAssumption`, `NoneAssumption`,
`ToolAssumptions`, `BoundAssumptions` and `BudgetAssumptions` of the core;
`NobodyAssumption` (nobody is no call) and `ScreenAssumption` (the numbers of prompts
and of pieces are natural numbers) of `MCAgentTurns`; `TeamsAssumption` of
`Teams`; `DirectoryAssumption` (a directory is neither a link nor nothing),
`VersionAssumption` and `WalkAssumption` (bounds are natural numbers, a pattern
matches nodes) and `TreeAssumption` (the nodes are finitely many numbers and a
tree, a directory coming before what is in it) of `MCWork`;
`ObjectAssumption` (every user of a file lock has its lock object),
`BoundAssumption` (bounds are natural numbers, and a check may be tried at least
once), `FamilyAssumption` (a session has at most one parent) and
`PlansAssumption` (a plan names modes that there are) of `Services`.

**RWLockProofs.** The inductive invariant `IInv` says, beside the type, that the
counters are the cardinalities of the owners, that an owner with `writer` set is
alone, that the queue holds each waiting and not granted task once, that a free
lock has no queue, and that a pending future belongs to somebody queued. It is
needed whole: exclusion follows from the counters, the counters stay right only
because nobody is granted twice, and that is because the queue holds nobody who
owns the lock. All steps but `Resume`, `Cancel` and `Leave` end in `_wake_next`,
so the proof has one lemma for it (`WakeNext` keeps the invariant of any state
that satisfies all of it but the last part) and the steps apply it. The
theorems: `TypeCorrect`, `OwnershipIsExact`, `OwnersExclude`, `NoWakeupIsLost`,
`AdmissionIsFifo`, `Refinement`.

**TaskBoardProofs.** Every operation either *advances* one record (its status
moves as `Transitions` allow, its dependencies stay) or creates a *fresh* one
over existing tasks; recovery moves `Recovered` records. `IInv` is the type, that
dependencies exist, that what is staged exists and is current, and the
invariants of the run. `NoCircularWait` is proved without induction over the
graph: a fresh task is nobody's dependency, so among any tasks it is part of,
either the rest has a member that depends on none of the others, or there is no
rest. `Refinement` shows that each operation is a step of `Claims` or changes
nothing there.

**ToolExecutorProofs.** `Core` is the type, exclusion of the lock and the leases,
that nobody runs over another version than the present one with the lock, that
records belong to their session's message, that a call that was found clear stays
clear until it runs (`ClearStaysClear`: the lease is what makes this true), and
`NoRepeatedWork`. `Currency` adds that changes are versioned, and says what a
stale run or an old record means: a change is under way, or the version has moved
since. It is inductive only if a waiting call is cancelled at most once
(`AtMostOneCancellation`), which is exactly what `tool_calls_interrupted` shows.

**AgentTurnProofs.** `TypeCorrect` needs, beside the type, that a round is left
whenever the loop goes on and that the todo counter is below its limit between
reminders (`Bounds`). `Termination` is the refinement of `Countdown`: a step that
leaves the budgets alone goes to a phase of lower rank (`Descend`), one that ends
the loop leaves nothing but two ranks (`LeaveLoop`), and any other pays (`Pay`).
Only the last needs arithmetic: a round costs `MaxContinuations + 1`, more than
the continuations it gives back, which is why the reset of `continuations` at the
end of a round is harmless and one anywhere else would not be (`FuelAfter`).

Its four safety properties have invariants of their own. `NoticesAreInOnePlace`:
the hand of the turn is empty but in the two phases between taking notices and
appending them (`HandIsHeld`), and every append either carries the whole hand or
nothing. `CallsAreAnswered`: in the phase `tools` the log ends with the calls
(`CallsAtHand`), in every other phase of the loop it does not (`NoCallsOpen`), so
whatever is appended there cannot come between; the end of the log is the end but
for what `/compact` left behind it (`AtEnd`). `OutcomesAreHonest`: `reconcile`
is only entered with the model's own end of turn at that end
(`EndIsTheModels`), and the status is stored before `closing`
(`ClosingIsStored`). `RequestsAreFit`: flags are down when a turn begins
(`StartsAnew`), feedback stands for a failure that is pending
(`FeedbackIsPending`), and results end a cut-off answer (`ResultsEndACut`), which
is why the limit is reset exactly there.

`OnlyTheUserAllows` is about the permissions of `MCAgentTurns`. A call that ended
with an allowance tells nothing of how it came to it, so `AskInv` carries it along:
who waits is active or in the queue, and who hands the pane over has its own
answer already, although another one's may arrive for the active request
(`Requested`); an allowance is a choice for this call or comes from an approval
(`Allowed`); and an approval is what the user chose for a call of the same key that
is over (`Remembered`). That a choice was made in the call's own prompt, or by a
stray key, stays true because what the pane shows, and every key on its way, is of
the active call or of one that is settled (`PromptInv`).

`TurnsAreToldInOrder` is about the terminal: the events that wait are on their way,
and every turn that ended by itself stands in the transcript as the session keeps
it. `ScreenInv` follows each turn that nobody cancels. Before it begins nothing of it
is to be seen (`Unseen`). While it goes on, its prompt is its first block, and the
texts it has told are some in blocks and then some in events that wait, in their
order (`TextsGo`); its end is to come, in one of those events, or in a block
(`EndGoes`). When it is over, nothing of it waits, all of it is in blocks, and those
have widgets (`Finished`). To keep that, the invariant says that one turn at most goes on
that is neither cancelled nor to be (`OneIsActive`): others can put blocks in between
only if they are of the cancelled (`EventsAreOfTurns`). A turn goes on after a flush
only when the handler of that very flush is done, and by then nothing of it waits
(`FlushesAreAwaited`), which is where the guard of `Handled` is needed. And a prompt
waits in one place, once (`PromptsWaitInLine`). The fold of the events is a recursive function
over as many as wait, `View`; that it exists, and that each event adds its blocks
behind those of the one before (`ViewsFollow`), is an induction along the sequence,
which looks at the first number it would fail for (`CountUp`).

**WorkProofs.** A step of `MCWork` is a step of the team, of the memories, of the
files and of the walk, or leaves each of them alone (`Moving`); so each has an
inductive invariant of its own.

| theorem | the inductive invariant, beside the type |
|---|---|
| `NothingIsLeftBehind` | `TeamInv`: the lead's own creations are over when its turn ends (`CreatedInTurns`); a worker that lives, and a runtime that is open, is in what the shutdown goes through at the step it has come to (`WorkersAreFound`, `RuntimesAreFound`), so that nothing can slip in behind it |
| `MailIsReadOnce` | `MailInv`: each mailbox, and each worker's hand, is exactly the line of the messages that are there (`Line`), so that no order of taking, giving back and reading can double or drop one |
| `MemoriesEndure` | `MemoryInv`: who works has the file lock and is alone (`OneWorks`); at rest each memory is one that is owed (`Kept`); while files are replaced each is the old or the new one, both of which are owed, and the index is still the old one (`Underway`). The property alone says nothing while the lock is held, and the crash that ends a replacement comes there |
| `ChangesAreTold` | `FilesInv`, by call: its directory is open (`HasOpen`), its temporary file is there and nowhere else (`Leaves`), and what it tells is what has happened (`Tells`) |
| `GlobsAreComplete` | `GlobInv`: there is a set of entries the walk has taken, such that what is left of the open directories is listed once (`Apart`), below directories that were taken (`FamiliesFollow`), and every node that is due is listed or taken (`NothingIsSkipped`); what was taken, stayed and is a file was told, and all that was told has been one (`PathsAreTold`); the call has of it what matches (`MatchesAreFound`); and all that was listed or taken may be reached and is counted, which is why a walk that is cut short has met too much (`WalkReaches`) |

What a walk has taken is not in its state, which is why `GlobInv` says that there is
such a set. The tree may be of any depth: `Way` is defined by recursion along the
tree, and that there is such a function is proved from `TreeAssumption` by looking
at a node where it would first fail (`WayGoesUp`); the same argument shows that a
node whose way was there from the beginning to the end was come to, as there would be a highest node on its way that was not.

**ServicesProofs** and **ServiceCallsProofs.** A step of `Services` is a step of
the service the behaviour is about, or leaves that service's variables alone
(`Moving`, one lemma for all); so each service has an inductive invariant of its
own, with one lemma per action, and its theorem is about the whole specification.

| theorem | the inductive invariant, beside the type |
|---|---|
| `WritesAreDurable` | `StoreInv`: whoever waits for its worker has the operation lock (`WriteTurns`), and the connection's transaction is that of the worker that may commit it (`OneTransaction`); a write is durable exactly if its worker committed |
| `LockIsGivenBack` | `LockInv`: where a task is bounds where its thread can be (`LockStages`); the thread, not the task, owns the object and the file (`LockOwnership`, `FileOwnership`) |
| `JobsAreNotifiedOnce` | `JobInv`: a job has a status exactly if it has a future, and the notifications are counted against the status |
| `MemoryIsSerial` | `QueueInv`: stages and events of a submission, and that every earlier one is over when one has begun (`QueueOrder`), which alone is not inductive: a cancelled one must not be at work (`QueueStages`) |
| `AnswersAreCounted` | `ProtocolInv`: book, outcomes and timers agree (`BookAgrees`); who stopped a timer has it for itself (`PausedAlone`); at most one answer claims a request (`AnswersBelong`) |
| `OneWorksInATree`, `LiveTurnsSurviveStartup` | `RuntimeInv`: a turn owns the tree of its root, an awaited child is in the turn that spawned it, and a recovery has found locked, or is still to probe, every tree that somebody owns (`RecoveryKnows`): what another process locks after the probe needs the startup lock first |
| `AuditCompletes` | `TraceInv`: only who has the lock has a recorder, its queue goes on where the file ends (`QueueGoesOn`), and what was or will be told is synced (`KeptIsSynced`) |
| `ReferencesKept` | `FilesInv`: call, thread and file agree (`WritersAgree`), a row is of its own session and result (`RowsBelong`), every written result of a session that is there has its row when its call is over (`ResultsHaveRows`), and what is unlinked is of sessions that are gone (`UnlinkedIsGone`) |
| `StoriesAreTold` | `HooksInv`: what the trace of a dispatch says by the time it awaits, place by place (`StoryOf`) |
| `CommandsEndWithTheirCalls` | `CommandInv`: who cleans up has killed the group first (`GroupIsKilled`); `HookInv`: a task that is done has seen all of its stream or the exit (`TasksTell`), a call settles without a process (`EndsClean`) |
| `WorktreesAreRepaired` | `TreesInv`: an undisturbed call is under way alone (`CalmIsAlone`), and how far its repair has come at each of its steps (`RepairComes`) |
| `TextsAreContiguous` | `TextsInv`: the property itself, which is inductive: what is in front of a request is all that was emitted, in order |
| `ScoresHonestly` | `ScoresInv`: which cases and candidates are behind (`CaseUnderWay`), what is known in front of a step of the script (`ScriptGoesOn`) and behind it (`TroubleIsKnown`), and that a report tells what became of its candidate (`ReportsTell`) |
| `VerdictsEarned` | `ChecksInv`: in the pipe an end follows its beginning (`EndsFollow`), so that a late end is seen before the next mark counts (`HeardInTime`); the supervisor concludes only about a process that is gone (`RunnerIsWatched`) |

`WritesAreDurable` is a refinement: each step of the store is a step of
`DurableWrites` or changes nothing there. `LiveTurnsSurviveStartup` and
`WorktreesAreRepaired` are action properties, proved of any step from a state of
the invariant. The others are invariants, implied by the inductive ones.

## 6. What is only model-checked, and what is not modelled

Only TLC checks liveness (`EveryRequestSettles`, `ClosedJobsAreReported`,
`TimedRequestsSettle`, `ShutdownFinishes`): fairness and `ENABLED` are out of the
prover's reach. The violations are TLC's. `ToldAsSent` of `ProviderStream` speaks
of what filtering and flattening a sequence of any length gives; these are recursive
definitions over operators, which the library's induction theorems cannot be
instantiated for. The same holds for the operators of `Compaction` and `TextSearch`
(`RequestsTellTheStory`, `SearchIsExact`), which are checked against reference
definitions over bounded inputs. (Where a recursion is along numbers and its value
is one of a set that can be named, as in `Traversal` and `Terminal`, the argument by
the first exception takes the place of induction.) No module declares a recursive
operator.

Not modelled: todos (a list replaced whole by each call), MCP (connections and
processes of external servers), skills and the thin task tools, and of the CLI and
settings all but session deletion: wiring, parsing, presentation. Of the components
that are modelled in part, the following is left out. The executor: what a tool
does beside changing or not changing the content, POST_TOOL_USE hooks, todo
updates and UI events, which come after the lock and change nothing modelled. The
runtime: `switch_provider` and the making of runtimes. The context: prompt
sections, the shortening of metadata, the tools' schemas in the estimate. The
providers: the other adapter, and the conversion of requests. The terminal: the
application's exit, local commands, restored history, the display of tools, todos
and notices. Tracing: redaction, and what the rows say. The evaluation: metrics,
reports, and evalplus' own checker. Tools: Windows' processes, and the formats of
results. Everywhere: clocks, and the texts of everything. In a turn: the submission of memory jobs, todo
lists that cannot be read, and the stop reasons `PAUSE_TURN` and `STOP_SEQUENCE`,
which no provider adapter produces (`providers/compatible.py`).

## 7. Plan

1. (done) `RWLock`, `TaskBoard`, `ToolExecutor` with their promises, and their
   theorems.
2. (done) Delegation: `Teams`, and the subagents in `Runtime`.
3. (done) Startup recovery: `Runtime`.
4. (done) `MessageBus` and `Protocols`.
5. (done) `BackgroundJobs`.
6. (done) `FileLock` and `WriteTransaction`.
7. (done) `AgentTurn`, with the theorems of its safety properties.
8. (done) `MemoryQueue`, `MemoryStore`, `Worktrees`, `Hooks`, `CommandHook`,
   `Permissions`, `Compaction` against a reference definition.
9. (done) Beyond the first plan: `TraceRecorder`, `Processes`, `WorkspaceFiles`,
   `TextSearch`, `Traversal`, `ProviderStream`, `TextCompletion`, `Terminal`,
   `SessionFiles`, `Evaluation`, `SolutionCheck`.
10. (done) Theorems for the sixteen services (`ServicesProofs`,
    `ServiceCallsProofs`).
11. (done) Theorems for the services of `MCWork`, and for the permissions and the
    terminal in `MCAgentTurns` (`WorkProofs`, `AgentTurnProofs`).
12. The trace file in `SessionFiles`; MCP connections; todos beside compaction.
