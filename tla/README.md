# A verification project for code-dispatcher

`code-dispatcher` runs AI backends (Codex, Claude) as child processes: one task in serial mode, or a
task file of dependent tasks in parallel mode. This directory holds TLA+ models of its core, the TLC
configurations that check them on small instances, and TLAPS proofs, for every instance, of each
safety invariant and each refinement those configurations check. Paths below are relative to the
repository; Go files are in `code-dispatcher/`.

## 1. The system

| Component | State it keeps | Operations | What is hard about it |
|---|---|---|---|
| parallel executor (`executor.go`, `executeConcurrentWithContext`) | results slice, `failed` map, per-layer WaitGroup and `executed` counter, `resultsCh`, semaphore channel, `activeWorkers`, per-task log handles | skip, cancel or start a task; take and give back a slot; run; send; recover; collect | goroutines against a barrier, a semaphore, a cancellable context; panics through five deferred calls |
| topological sort (`executor.go`, `topologicalSort`) | `indegree`, `adj`, `queue`, `layers`, `processed` | count, take a layer, relax, verdict | repeated, unknown, self and cyclic dependencies; two counters decide |
| parallel invocation (`parallel_run.go`, parts of `config.go`, `report_projection.go`) | task list, layers, results, exit code | read arguments and tasks, sort, execute, report | several failures and one exit code; a signal that meets some tasks running and others not |
| execution lifecycle (`execution_lifecycle.go`, `signal_unix.go`) | four goroutines, four channels, two timers, pipes, process | start, parse, observe, terminate, kill, drain, decide | process exit, timers, context, parser and `os/exec` in any order |
| logger (`logger.go`) | `ch`, `flushReq`, `done`, `pendingWG`, `flushMu`, bufio writer, file, error cache | log, Flush, Close, worker | full channel, flush and close racing log, timeouts that leave goroutines behind |
| log cleanup (`logger.go`, `process_check_unix.go`, startup in `main.go`) | files in the temp directory, PIDs, start times | list, check, remove; open, write, remove on exit; crash | several dispatchers, PIDs handed out anew between two checks |
| stream parser (`parser.go`) | line buffer, messages, thread id, notifications | read a part, put a line together, handle an event | boundaries of buffer and limit, unterminated or broken input |
| entry point and serial mode (`main.go`, `serial_invocation_planner.go`) | global logger | select a mode, plan, run, print | order of defers at exit; a signal at every stage |
| arguments, task file, backends (`config.go`, `backend.go`) | none after start | flags and words, blocks and keys, command lines | repeated keys and ids; a task through an argument or through stdin |
| writers of a backend's output (`logWriter`, `tailBuffer` in `utils.go`) | unfinished line, tail | write a chunk, flush | chunks cut anywhere against two limits |
| settings, names, other text utilities | none after start | reading of variables, truncation | sequential; boundaries only |
| Windows variants, installer, scripts, skills | - | - | not part of the Unix program's core |

They interact so: `run` opens the log, runs `cleanupOldLogs`, and goes into parallel or serial mode.
Parallel mode hands the task file to the sorter and the sorter's layers to the executor; each
executor goroutine runs one execution lifecycle; the lifecycle's parser goroutine runs the stream
parser and tells the main goroutine through two channels of capacity one (`messageSeen`,
`completeSeen`). All of them log through one Logger, or one per task. At exit the log is flushed,
closed and removed.

What makes each part correct: the executor starts a task only after its dependencies succeeded, keeps
its limit, reports every task once, and comes to an end with nothing left behind; the sorter gives a
plan exactly when there is one; the lifecycle ends when its context ends, reports a success only for a
genuine one, stops a backend only for cause and leaves no process, goroutine or timer behind; the
logger loses nothing that was accepted before a flush or a close and never blocks its callers; the
cleanup removes orphans and no live log; the parser reports the latest message, and notifies exactly
when there is something to notify; the arguments and the task file are refused exactly when they are
wrong; a task reaches its backend once, whole; and the exit code says what became of the runs.

## 2. Modules

| Module | Models |
|---|---|
| `DagScheduler` | abstract: what a parallel run promises the author of a task file - a task starts when its dependencies are ok, is dropped only when one failed or the run was stopped, and gets one verdict; `ParallelExecutor` and `ParallelRun` refine it |
| `ParallelExecutor` | `executeConcurrentWithContext`; refines `DagScheduler` |
| `TaskFile` | `parseParallelConfig` |
| `Subsequences` | what a loop leaves that appends some elements of a slice to another; used by `TopologicalSort`, `OutputText` and `Logger` |
| `TopologicalSort` | `topologicalSort` |
| `TaskRun` | abstract: what the run of one backend promises its caller - how it listens, starts, ends and returns |
| `ParallelRun` | `runParallelInvocation`: composes `TaskFile`, `TopologicalSort`, `ParallelExecutor` and one `TaskRun` per task, with signals; refines `DagScheduler` |
| `Invocation` | from arguments and stdin to a command: `parseArgs`, the parallel mode's arguments, `planSerialInvocation`, `planTaskInvocation`, both backends |
| `OutputText` | `logWriter` and `tailBuffer` behind one `io.MultiWriter` |
| `SerialRun` | `run`: modes, the log, and a serial run; composes `Invocation`, `TaskRun` and `OutputText` |
| `ExecutionLifecycle` | `runExecutionLifecycle`, `terminateCommand`, `forceKillTimer`, `sendKillSignal`; refines `TaskRun`; `os/exec`, the backend and a grandchild are external |
| `Logger` | one Logger with any number of goroutines that use it |
| `LogCleanup` | dispatchers that share a temp directory |
| `StreamParser` | `parseJSONStreamInternalWithHooks`, `readLineWithLimit`; `bufio.Reader.ReadLine` is external |
| `*_proofs` | theorems about the eight modules that have a specification of their own or, the sorter, an invariant of their own (section 5) |
| `MC*` | instances for TLC |

### From code to model

*ParallelExecutor.* `main`, `cur`, `idx` are where the main goroutine is: spawning layer `cur` at
task `idx`, waiting, collecting, or done. `pc[t]` is where the goroutine of task `t` is; each of its
deferred calls is a step of its own, in the order Go runs them: close the log, count out, release the
slot, recover (after a panic only), `wg.Done`. `AcquireSlot` and `AcquireCancelled` are the two cases
of one select, so with both ready either happens. `outcome`, `panicked` and `openLogs` hold what the
code keeps in local variables of the goroutine. A task's run returns any code of `RunCodes` or panics.

*TopologicalSort.* One step is one outer iteration of a loop of the code: the counting loops, a new
layer, the relaxing of one task of the layer, the verdict. A dependency list is a sequence, because
repetitions count. The module has no specification of its own: it runs inside `ParallelRun`, on the
tasks `TaskFile` has read.

*TaskFile.* A block is its lines and whether it has a separator and content; a line is a key and a
value. One step is one turn of a loop of the code: `PassBlank`, `MissSeparator`, `ReadLine`,
`RefuseLine`, and at the end of a block `RefuseBlock` or `AddTask`; `EndOfFile` accepts what has been
read or refuses a file without tasks. `spec` is the task under construction.

*TaskRun.* Operators on one run, a record of phase, context and code: `open` (listening, no process),
`backend`, `ended` (reaped), `returned`. It is both the abstract specification `ExecutionLifecycle`
implements and the part `ParallelRun` and `SerialRun` are composed of, so what holds of them rests on
the detailed lifecycle and not on a guess about it.

*ParallelRun.* `stage` orders the calls. `Exec` gets the layers the sorter built; its context never
ends, because `executeConcurrent` passes `context.Background()`. Between "start" and "send" the
goroutine of a task waits for its own `TaskRun`. `Signal` is SIGINT or SIGTERM: every run that listens
gets it (`notified`; its context ends at a later step), and with no run listening the process dies, as
Go's default action has it. `Status` is what the operating system makes of the exit code.

*Invocation, SerialRun.* `ScanArgs` is one turn of the loop over the arguments, with the loop's own
states (flags, value of `--backend`, words after `--`); it is left at the first argument that makes no
sense. `ParseArgs` is what is made of the words it has gathered. `Plan` is the command, its arguments, directory, environment and
stdin. `SerialRun` adds the log that is opened first and removed last, the runs, and a signal at any
step. An argument is a model string; which strings are long or special is a constant.

*OutputText.* `Deliver` is one `Write` of any size; it gives the chunk to the tail and then to the line
writer, whose loop goes one line per step.

*ExecutionLifecycle.* `pc` is the main goroutine: `wait` is the outer select, `ctx` and `forced` the
two inner loops, `timers`, `collect`, `parse`, `stderr`, `result` the straight code after them. The
parser, the stderr copier, the goroutine in `Wait`, and the callbacks of the two timers are processes
of their own. A backend's script is the sequence of events it may write; it may stop anywhere, exit
with any status, or never exit, and a grandchild may hold its pipes (and may have left its process
group). Closing a read end keeps any prefix of what is unread, because the parser's bufio reader may
have taken it in. Time is abstract: an armed timer may fire at any later moment.

*Logger.* `pc[g]` is a caller's place in `log`, `Flush` or `Close`. `waiter[g]` is the goroutine in
`pendingWG.Wait` that a Flush starts; it stays behind when that Flush gives up. `disk` and `buffer`
are the file and the bufio writer; `accepted` is a history variable.

*LogCleanup.* A scan takes each path through the checks of the code, one step each, while anything
may happen in between. Opening a log that exists leaves its modification time alone (`O_APPEND`
without `O_TRUNC`). `changed`, `settled` and `stolen` are history variables. A dispatcher in `cleaners` was started with
`--cleanup`: it scans without a log of its own and exits.

*StreamParser.* A line is its size and the fields that decide what the parser does. `left`, `total`
and `tooLong` follow `readLineWithLimit` part by part.

## 3. Runs

| Run | Instance | Checks |
|---|---|---|
| `executor` | 4 tasks; a diamond, a wide layer with a join, two lanes; 2 slots; codes 0 and 2, panics; a context that is cancelled or times out at any step | `TypeOK`, `DependenciesSucceeded`, `WorkerBound`, `OneResultEach`, `NothingLeftBehind`, `SendNeverBlocks`, `LayerBarrier`, refinement `ImplementsDag`, liveness `EveryTaskDecided` |
| `parallel_run` | 3 tasks with every choice of four dependency lists in which at most one task has none, every mistake the parser knows, odd but right blocks; 2 workers; own codes 0 and -1; 2 signals and a timeout of any run at any step | `FileReadRight`, `VerdictRight`, `PlanIsLayered`, `StartsAfterNamedTasks`, `ExitCodeAgreesWithReport`, `KilledLeavesNoBackend`, liveness `Termination` |
| `serial_run` | every argument vector of up to 3 words of a vocabulary of 8 behind flags, `resume` with up to 3 words; stdin typed, piped or empty; a prompt, a model or none; every stderr of up to 8 characters with line ends anywhere, lines of 4, a tail of 3; 1 signal | `CommandCarriesTask`, `LinesLogged`, `TailExact`, `ExitMeansRun` |
| `lifecycle` | three scripts (interim, final, completion; message and completion in one; silence), statuses 0 and 2, both ends of the context | `NothingLeftRunning`, `StoppedOnlyForCause`, `SuccessIsGenuine`, `FailureHasCause`, refinement `ImplementsTaskRun`, liveness `ContextEndsRun`, `CompletionEndsRun` |
| `logger` | 2 goroutines, channel of 1, cache of 1, 2 entries | `TypeOK`, `PendingCounts`, `FlushWritesAll`, `CloseWritesAll`, `WaitGroupNotReused`, `RecentErrors`, liveness `LogReturns` |
| `log_cleanup` | 2 dispatchers, 2 PIDs, one other process, 3 instants, an age limit of 1, start times known or not, a leftover log that may be a symlink; each start a run or `--cleanup` | `LiveLogKept`, `OrphansRemoved` |
| `stream_parser` | inputs of up to 3 of 25 lines, the last with or without a newline, buffer 2, limit 4, a read that fails anywhere | `LimitExact`, `LatestMessage`, `NotificationsMean`, `ThreadAnnounced` |

Five more runs each refute one statement of the documentation or the tests (section 6).

Why the bounds are enough. *Executor:* two slots and three tasks in one layer make a goroutine wait
for a slot; a failed, panicked or cancelled dependency stands before one and before two layers of
dependents; the proofs cover the rest. *Parallel run:* the four lists (none, `a`, `b` twice, an unknown
name) give chains, fans, a self-dependency, cycles of two beside a sortable part, and a repeated name
in a plan that is accepted. Files with two or three tasks without dependencies are left out of `Graphs`:
their wide layers are the `executor` run's, and they would multiply the interleavings of the runs
without a new order of parse, sort, run and signal; a layer of two runs at once behind one root is in.
Two signals are the first Ctrl+C and a second one during the stop it causes. *Serial run:* three words
reach past every index `parseArgs` looks at in a new run, five in a resumed one; eight characters hold
a line longer than the limit of four before and after another, and more than the tail twice over; the tail's
three branches are all taken. *Lifecycle:* a longer
script repeats an interim message; channels have capacity one. *Logger:* a channel of one is full at
the second entry, a cache of one drops at its second error, and two callers are one that flushes or
closes and one that logs. *Cleanup:* one second of slack is exceeded with three instants; a third
dispatcher would be a second bystander; the age limit is passed at the third instant and not before. *Parser:* sizes 1 to 6 stand on both sides of one, two and
three buffers and of the limit, and equal to them; three lines put an event before and after another.
Bounds that are not in the code are named as constants: `MaxEntries`, `MaxLines`, `MaxTime`,
`MaxOthers`, `Leftovers`, `MaxSignals`. `Files`, `Inputs`, `Texts`, `Scripts`, `InputLines` and `Plans`
are the inputs enumerated. A type invariant is checked in `executor` and `logger`, where counters could
leave their range; those of the lifecycle, the cleanup and the parser hold in their instances too.

Symmetry is used in `log_cleanup` only, over dispatchers and PIDs, which the model treats alike;
nothing temporal is checked there. Deadlock is checked except in `log_cleanup` and `logger`: there
every dispatcher may have ended, or every caller be idle with the bound reached.

## 4. Fairness

- Executor and parallel run: the Go scheduler runs every runnable goroutine (weak fairness of the main
  goroutine and of each task's). In `ParallelRun` the goroutine's steps include those of the run it has
  called, so a run comes back: that is what `ContextEndsRun` shows of the lifecycle, whose context
  always has a timeout. Cancellation and signals are never fair. `EveryTaskDecided` and `Termination`
  are checked under this.
- Serial run: only safety is checked; that its run ends is the lifecycle's `ContextEndsRun`.
- Lifecycle: the goroutines run and armed timers fire. Nothing is asked of the backend, of its child,
  or of the context. `ContextEndsRun` starts from a context that has ended, and `CompletionEndsRun`
  holds under one that never does.
- Logger: goroutines run; a case of the worker's select that stays ready is taken some time (`select`
  picks at random); a caller that waits for `flushMu` gets it (strong fairness: a Go mutex goes into
  starvation mode after a millisecond).

## 5. Proofs

Every safety invariant of the passing runs, and all three refinements, are theorems about every value of the
constants. One module of proofs goes with each module that has a specification.

| Module | Theorem | Statement |
|---|---|---|
| `ParallelExecutor_proofs` | `TypeCorrect` | `[]TypeOK`: no counter goes below zero |
| | `DependencyOrder` | `[]DependenciesSucceeded` |
| | `WorkerLimitKept`, `Barrier` | `[]WorkerBound`, `[]LayerBarrier` |
| | `ReportedOnce`, `NothingLeft`, `RoomToSend` | `[]OneResultEach`, `[]NothingLeftBehind`, `[]SendNeverBlocks` |
| | `DagInit`, `DagStep`, `Refinement` | `Spec => ImplementsDag`: the executor implements `DagScheduler` |
| | `VerdictsAreFinal` | `VerdictsStand`, an action property: what has become of a task stands through the unwinding of its goroutine, the collection, other failures and the end of the context |
| `TopologicalSort_proofs` | `AnswerRight` | what the sorter answers agrees with whether there is a cycle or a dependency without a task |
| | `PlanRight` | a plan has every task once, behind its dependencies, in the earliest layer there can be |
| `ParallelRun_proofs` | `FileIsReadRight`, `SorterIsRight` | `[]FileReadRight`, `[]VerdictRight` |
| | `PlanGivenIsLayered`, `DependenciesFirst` | `[]PlanIsLayered`, `[]StartsAfterNamedTasks` |
| | `ExitCodeIsRight`, `NoBackendOutlives` | `[]ExitCodeAgreesWithReport`, `[]KilledLeavesNoBackend` |
| | `Refinement` | `Spec => ImplementsDag`: the whole run, from the text of the file, implements `DagScheduler` |
| `ExecutionLifecycle_proofs` | `TypeCorrect`, `NothingLeft`, `StoppedForCause` | `[]TypeOK`, `[]NothingLeftRunning`, `[]StoppedOnlyForCause` |
| | `GenuineSuccess`, `CauseOfFailure` | `[]SuccessIsGenuine`, `[]FailureHasCause` |
| | `Refinement` | `Spec => ImplementsTaskRun` |
| `Logger_proofs` | `TypeCorrect`, `WaitGroupExact` | `[]TypeOK`, `[]PendingCounts` |
| | `NothingLost` | every accepted entry is on disk, in the buffer or in the channel, in order |
| | `FlushComplete`, `CloseComplete` | `[]FlushWritesAll`, `[]CloseWritesAll` |
| | `NoEarlyReuse`, `LatestErrorsKept` | `[]WaitGroupNotReused`, `[]RecentErrors` |
| `LogCleanup_proofs` | `TypeCorrect`, `LiveLogIsKept`, `OrphansAreRemoved` | `[]TypeOK`, `[]LiveLogKept`, `[]OrphansRemoved` |
| `StreamParser_proofs` | `LimitIsExact`, `MessageIsLatest` | `[]LimitExact`, `[]LatestMessage` |
| | `NotificationsAreMeant`, `ThreadIsAnnounced` | `[]NotificationsMean`, `[]ThreadAnnounced` |
| `SerialRun_proofs` | `CommandIsRight` | `[]CommandCarriesTask`, for argument vectors of any length |
| | `TailIsExact`, `LinesAreLogged` | `[]TailExact`, `[]LinesLogged`, for any text, any chunks and both limits |
| | `ExitTellsOfRun` | `[]ExitMeansRun` |

Each of these modules has an `Invariance`: its `IInv` holds in every reachable state, because it holds
at first (`InitInv` or the lemma of that kind) and every step keeps it (`StepInv`, over one lemma for
each action or each conjunct).

### Assumptions

They are the named `ASSUME`s of the modules, which TLC evaluates on every run.

| Assumption | Says | Why the code has it |
|---|---|---|
| `TaskAssumption`, `WorkersAssumption` | finitely many tasks, an integer limit | a slice of tasks, an `int` |
| `CodesAssumption`, `RunCodesAssumption` | codes are integers, -1 to 255 where the system makes them; a run that could not be started has not the code 0; `NoOutcome` and `NoCode` are no codes | `ExitError.ExitCode`, `os.Exit` |
| `PlansAssumption` | every plan is a layering | the executor alone cannot know; `ParallelRun_proofs` discharges it from the sorter |
| `NamesAssumption`, `FilesAssumption` | `Task` is not empty and is the set of ids of the file; the empty string is no name | `Task` is read off the file; a block without an id is refused |
| `LifecycleAssumption`, `CtxEndsAssumption` | statuses are naturals, a context ends by timeout or cancellation, scripts are sequences of events | `context` |
| `LoggerAssumption` | the channel and the cache have room for one; an entry is an error or not | constants of `logger.go` |
| `CleanupAssumption` | the marks for "no owner", "another process" and "no file" are not dispatchers or PIDs | marks of the model |
| `ParserAssumption` | buffer and limit are positive; a line has a size, a kind and the fields of an event | constants of `parser.go` |
| `LimitsAssumption`, `TextsAssumption`, `InputsAssumption` | limits are positive; texts and argument vectors are sequences | constants of `utils.go`, `os.Args` |

### The inductive invariants

None of the properties is inductive alone.

*Executor.* "Dependencies have succeeded" needs that a task of an earlier layer has a result, and that
the `failed` map holds exactly the failures among the results; that needs to know which results are in
flight; and that, where each goroutine is. `IInv` is the conjunction of `Planned` (the plan stays a
layering), `Counters` (`wg`, `sem` and `activeWorkers` are the numbers of goroutines in flight, holding
a slot, working), `Outcomes` (who has an outcome, who panicked, whose log is open, by `pc`), `Reports`
(every entry of the slice and the channel says what its task's outcome is, no task has two, and every
task that has sent has one), `FailedMap`, `Position` (everything before the main goroutine's place has a
result or a goroutine, everything after it has neither), `Executed`, `TypeOK` and
`DependenciesSucceeded`. The refinement then looks at each action: a start is `Start`, the end of a run
`Finish`, a skip or a cancellation `Drop`, the end of the context `Stop`, everything else a stutter.

*Sorter.* `Kahn`: `indegree[t]` is the number of mentions of dependencies of `t` that are not relaxed
yet, and `t` has a place as soon as there are none. `Once`, `Behind` and `NotLate` say what the layers
so far are; `Checked` and `Ended` tie the verdict to them. A cycle is a set of tasks each with a
dependency in it: what is left over is one, and no member of one is ever placed.

*Parallel run.* `ReadInv` says that the tasks so far are those of the blocks read so far, and the task
under construction that of the lines read so far. `Stages` hands over: what the parser accepts meets
the sorter's `Input`, a plan of the sorter is a layering, which is all the executor's `IInv` needs to
begin, and from then on the theorems of the two other modules are cited through `INSTANCE`. `Runs` ties
each goroutine to the run it has called, `Exited` the exit code to the results. The refinement maps the
abstract dependencies to what the blocks of the file name (`NamedTasks`), which never changes; once the
file is accepted they are those the executor works with, whose `DagStep` then does the rest, and every
step before, beside and after the executor is a stutter.

*Lifecycle.* `Heard`: what the parser has been given is what the backend has written, from its start.
`Causes`: each stage on the way to a kill - an armed timer, a signal, a closed read end - stands behind
one of the causes. `Goroutines`: what the three goroutines, both timers and the process can still do, by
the place of the main goroutine. `Verdict`: what a result says of the run. The step simulation maps
every action to a step of `TaskRun` or a stutter.

*Logger.* `Counts`: `pendingWG` is the number of entries in the channel and with callers
about to send. `Conserved`: file, buffer and channel are the accepted entries, in order.
`Locked`, `Requests` and `Waits` say whose a request and an answer are, and that a wait nobody waits for
was left by a Flush that gave up. `RecentErrors` is stated with ranks, since what `SelectSeq` computes
cannot be proved; the cache drops its oldest entry by the same shift of ranks.

*Cleanup.* `Owners`: a log is open only under the PID of a process that runs. `FoundRunning` and
`JudgedRightly` say what the evidence gathered so far still means when a path is about to be removed:
its PID is free, or the log is `Dormant` - not written since the process of its PID began or, where
start times are unknown, for longer than the age limit - or the history variable `changed` excuses it.
A log once dormant stays so until it is written to, which `changed` notes, because the clock only goes
forward. What a log is taken for depends on processes, logs and clock alone (`StandingKept`), so the
checks of a scan leave it.

*Parser.* `Reading`: within a line its size is what was counted and what is left, until the limit is
passed. `Whole`: the parts read so far inside a line were full buffers, so that an input that breaks off
there ends with one. `ClaudeLatest` and `CodexLatest` say what each field holds by the lines heard.

*Serial run.* `TextInv`: what has arrived, the chunk in hand and the unfinished line are slices of the
text; every newline passed has its line in the log, at its rank among the newlines; `dropped` says
exactly whether the unfinished line has outgrown the limit. `RunMeans` and `ExitSettled` settle the exit
code when the run returns and when `run` leaves. `Gathered`, `ConfigRead` and `PlanMade` follow an
argument from the vector into the words, the configuration and the command; the command's places are
then found in the concatenation (`CodexRight`, `ClaudeRight`), and no place but the one behind `resume`
or `-r` can hold the session.

Every invariant was checked by TLC on the instance of its run before it was proved, and so were
`VerdictsStand` and the refinement of the composed run, which no run lists. The invariant of the
composed run was checked with one signal instead of two. Where the form of a definition is owed to the prover it says
the same as before: `AtIndices` and `RecentErrors` for `SelectSeq`, one line of a block or one argument
per step instead of a recursion over all of them, and `Empty` for the empty string, which the SMT
translation does not take.

### Only model-checked

Liveness is out of the prover's reach: `EveryTaskDecided`, `Termination`, `ContextEndsRun`,
`CompletionEndsRun` and `LogReturns`. `AtIndices` is a choice, and that the chosen sequence exists is
proved where it is used, from its members rather than by induction. The five statements of section 6 are
refuted by TLC; there is nothing to prove of them.

## 6. Where the program and its documentation disagree

| Run | Statement | What the code does |
|---|---|---|
| `parallel_exit_code` | `ExitCodeNamesCause` (`SKILL.md`, `docs/code-dispatcher.md`: 124 is a timeout, 130 an interrupt) | a skipped dependent's code 1 stands behind the 124 or 130 and is the exit code (`parallel_run.go:126`) |
| `lifecycle_grace` | `KilledOnlyAfterTerm` (`docs/code-dispatcher.md`, DC-9) | `exec.CommandContext` kills the backend at once when the context ends |
| `lifecycle_final_message` | `FinalMessageReported` (`main_test.go`) | stdout is closed as soon as the process is gone if a message was noted: the rest of the pipe, the final message, may be lost |
| `serial_run_stderr` | `FullStderrLogged` (`main.go:22-23`: "Full stderr still reaches the task log via stderrLogger", said of failed tasks) | the log writers are flushed only when a run succeeds (`execution_lifecycle.go:369-374`): what a failing backend writes after its last newline is in the tail of the error message and not in the log; tasks of a parallel run have no such writer at all (`executor.go:736`) |
| `log_cleanup_inherited` | `InheritedLogKept` (`SKILL.md`) | a dispatcher that gets the PID of a crashed one removes the log it has just opened |

A sixth disagreement stands in a property that holds. `parser_token_too_long_test.go` expects a message
in a last line without a newline to be read, and so it is unless that line ends exactly where the 64 KiB
buffer does: then `readLineWithLimit` returns the end of the input in place of the line
(`parser.go:305`). `LimitExact` says that, but for a read that fails, every line is handled with this one
exception, which it names (`EndsWithBuffer`).

`LinesLogged` says of a failed run only what the code keeps: its ended lines are in the log, and the rest
may be there or not. Three more races are in the models and excused by name in the property they touch: a
PID handed over, or a log opened or woken, between the check and the removal of a log (`LiveLogKept`), the
seven-day rule for logs of processes with an unknown start time, which excuses a removal only of a log
that is older than the limit when it is removed (`LiveLogKept`), and the WaitGroup after a Flush that
timed out (`WaitGroupNotReused`).

`OrphansRemoved` does not speak of logs whose PID was handed out anew where start times are unknown: the
code takes them for orphans only after seven days. And no property forbids that a run which has finished
is reported as a timeout when its context ends before the result is chosen: the code chooses so
(`execution_lifecycle.go:320`), and `FailureHasCause` accepts the ended context as a cause.

## 7. Not modelled

Text as text: JSON, the splitting and trimming of strings, truncation, sanitizing of names, the
extraction of a report's fields and the choice of the lines a report quotes (`report_projection.go`
beyond its counts). They are sequential functions of their argument without state that lasts.
Settings, the env file and the embedded manifest, read once at the start. The check of the prompt
file's path. What a serial run prints besides its message: the startup lines and the recent errors,
whose cache is in `Logger`. The Windows build. The installer and the scripts. Errors of the file system
other than a removal that fails. A panic in a deferred call of a task's goroutine: the model has the panic
of the run itself (`RunPanics`), and of a panic in closing the log, counting out or giving back the slot,
after the result was sent, the recover of `executor.go:491` would make a second result, with code 1, which
`OneResultEach` and `VerdictsStand` do not account for; the only source of one there is the WaitGroup of the
logger when it is reused too early (section 6). stdin of the backend: it is written by a goroutine nobody waits for.
A stdin of the dispatcher that never ends: `io.ReadAll` then waits before any timeout is set up, and
whether it ends is up to the caller.

## 8. Plan

Done, in this order: executor and its abstract specification; its proofs; sorter; lifecycle; logger;
cleanup with `--cleanup`; parser; `TaskRun` and the lifecycle's refinement of it; the task file; the
composition of parser, sorter, executor and runs under signals; the serial run with its arguments,
commands and writers.

Then the proofs, in this order: sorter; its composition with parser, executor and runs; lifecycle and
its refinement of `TaskRun`; logger; cleanup; parser; writers, serial run and command.

Next:

1. Action properties worth a theorem: a backend is started once in a run and never after a stop, a
   scan never removes a path it has not examined.
2. The parts of the logger's `Close` and of the cleanup that a property excuses by name (`abandoned`,
   `stolen`), stated as what does hold of them.
3. Shorter proofs where one lemma of several serves: the helpers on slices and ranks that
   `TopologicalSort_proofs`, `Logger_proofs` and `SerialRun_proofs` each prove for themselves.
