----------------------------- MODULE ParallelRun -----------------------------
(* runParallelInvocation (parallel_run.go): parse the task file, sort it    *)
(* into layers, execute them, report and exit. It composes TaskFile,        *)
(* TopologicalSort and ParallelExecutor, each of which starts from what the *)
(* one before has left, and a TaskRun for the backend of every task.        *)
(*                                                                          *)
(* A signal (Ctrl+C) reaches the runs that listen for it at that moment, one *)
(* context each; the executor's own context is context.Background(). When   *)
(* no run listens, the signal has its default effect on the process.        *)
EXTENDS Integers, Sequences, FiniteSets, SequencesExt

CONSTANTS Task, Names, Files, Empty,
          OwnCodes,       \* codes of runs whose context lives
          FailCodes,      \* codes of runs that start no process
          RunCodes, NoOutcome,
          MaxSignals,     \* bound: how many signals arrive
          WorkersSetting  \* CODE_DISPATCHER_MAX_PARALLEL_WORKERS; below 0
                          \* stands for unset or not a number

ASSUME NamesAssumption ==
    /\ IsFiniteSet(Task) /\ Task # {}
    /\ Task \subseteq Names /\ Empty \notin Names
ASSUME SettingAssumption == WorkersSetting \in Int /\ MaxSignals \in Nat
ASSUME RunCodesAssumption ==
    /\ OwnCodes \cup FailCodes \cup {1, 124, 130} \subseteq RunCodes
    /\ RunCodes \subseteq -1 .. 255  \* what ExitError.ExitCode gives on Unix
    /\ NoOutcome \notin Int
    /\ 0 \notin FailCodes

\* resolveMaxParallelWorkers
MaxParallelWorkersLimit == 100
ResolvedWorkers ==
    CASE WorkersSetting < 0 -> 0
      [] WorkersSetting > MaxParallelWorkersLimit -> MaxParallelWorkersLimit
      [] OTHER -> WorkersSetting

VARIABLES stage,     \* "parse", "sort", "execute", "exited" or "killed"
          exitCode,  \* the process's exit code, once exited
          report,    \* the counts of the final report, once generated
          signals,   \* signals that have arrived
          run,       \* task -> the run of its backend
          notified,  \* runs a signal was delivered to and whose context lives yet
          file, block, line, spec, parse,                         \* TaskFile
          tasks, depList,                                         \* ... and
          indegree, queue, layers, processed, pos, phase,         \* TopologicalSort
          \* ParallelExecutor
          ctx, main, cur, idx, executed, results, failed, wg, resultsCh,
          sem, active, pc, outcome, panicked, openLogs

Reader == INSTANCE TaskFile

\* Task stands for the ids of the file: one that is accepted holds no others.
ASSUME FilesAssumption ==
    \A f \in Files :
        /\ f \in Seq(Reader!Block)
        /\ Reader!Acceptable(f) =>
               {Reader!LastValue(f[i], "id") : i \in Reader!Blocks(f)} = Task

Sort == INSTANCE TopologicalSort

\* executeConcurrent passes context.Background(), which never ends.
Exec == INSTANCE ParallelExecutor WITH
            deps <- [t \in Task |-> ToSet(depList[t]) \cap Task],
            MaxWorkers <- ResolvedWorkers, CancelKinds <- {}, Plans <- {}

Run(t) == INSTANCE TaskRun WITH
              state <- run[t], NoCode <- NoOutcome, CtxEnds <- {"timeout", "cancelled"}

readVars == <<file, block, line, spec, tasks, depList, parse>>
sortVars == <<indegree, queue, layers, processed, pos, phase>>
execVars == <<ctx, main, cur, idx, executed, results, failed, wg, resultsCh,
              sem, active, pc, outcome, panicked, openLogs>>
taskVars == <<run, notified, signals>>
endVars == <<exitCode, report>>
vars == <<stage, endVars, taskVars, readVars, sortVars, execVars>>

NoReport == [total |-> 0, passed |-> 0, failed |-> 0]
NotCalled == [phase |-> "idle", ctx |-> "live", code |-> NoOutcome]

Init ==
    /\ stage = "parse"
    /\ exitCode = NoOutcome
    /\ report = NoReport
    /\ signals = 0
    /\ run = [t \in Task |-> NotCalled]
    /\ notified = {}
    /\ Reader!Init
    /\ Sort!Init
    /\ Exec!IdleInit

\* parallelErrorOutcome
Reject ==
    /\ stage' = "exited"
    /\ exitCode' = 1
    /\ UNCHANGED <<report, taskVars, readVars, sortVars, execVars>>

\* Bad arguments, an unknown backend, or a stdin that cannot be read.
RejectInput == stage = "parse" /\ parse = "reading" /\ block = 1 /\ line = 1 /\ Reject

ReadFile ==
    /\ stage = "parse"
    /\ Reader!Read
    /\ UNCHANGED <<stage, endVars, taskVars, sortVars, execVars>>

RejectFile == stage = "parse" /\ parse \notin {"reading", "accepted"} /\ Reject

StartSort ==
    /\ stage = "parse"
    /\ parse = "accepted"
    /\ stage' = "sort"
    /\ UNCHANGED <<endVars, taskVars, readVars, sortVars, execVars>>

SortTasks ==
    /\ stage = "sort"
    /\ Sort!SortStep
    /\ UNCHANGED <<stage, endVars, taskVars, file, block, line, spec, parse, execVars>>

RejectGraph == stage = "sort" /\ phase \in {"missing", "cycle"} /\ Reject

StartExecution ==
    /\ stage = "sort"
    /\ phase = "done"
    /\ stage' = "execute"
    /\ UNCHANGED <<endVars, taskVars, readVars, sortVars, execVars>>

ExecuteMain ==
    /\ stage = "execute"
    /\ UNCHANGED <<stage, endVars, taskVars, readVars, sortVars>>
    /\ Exec!Main

\* The goroutine of a task. While it is at "run" its steps are those of the run it
\* has called: it returns when that has, and panics only outside of it.
ExecuteTask(t) ==
    /\ stage = "execute"
    /\ UNCHANGED <<stage, endVars, taskVars, readVars, sortVars>>
    /\ Exec!Worker(t)
    /\ pc[t] = "run" =>
           \/ pc'[t] = "send" /\ run[t].phase = "returned" /\ outcome'[t] = run[t].code
           \/ pc'[t] = "close" /\ run[t].phase \in {"idle", "returned"}

\* defaultRunParallelTaskFn: an unknown backend or a plan that fails is an error of
\* its own; otherwise the run of the backend is called.
CallRun(t) ==
    /\ stage = "execute"
    /\ pc[t] = "run"
    /\ run[t].phase = "idle"
    /\ \E called \in {Run(t)!Called, [NotCalled EXCEPT !.phase = "returned", !.code = 1]} :
           run' = [run EXCEPT ![t] = called]
    /\ UNCHANGED <<stage, endVars, notified, signals, readVars, sortVars, execVars>>

\* A step of the run. Its context is cancelled by a signal that was delivered to it
\* before; the deferred stop forgets a delivery that comes too late.
RunStep(t) ==
    /\ stage = "execute"
    /\ \E next \in Run(t)!Steps(run[t]) :
           /\ run[t].ctx = "live" /\ next.ctx = "cancelled" => t \in notified
           /\ run' = [run EXCEPT ![t] = next]
           /\ notified' = IF next.ctx = "live" /\ next.phase # "returned"
                          THEN notified ELSE notified \ {t}
    /\ UNCHANGED <<stage, endVars, signals, readVars, sortVars, execVars>>

\* Mutant: a run listens for the first signal only.
ListeningOnce == {t \in Task : Run(t)!Listens(run[t]) /\ run[t].ctx = "live"}

\* signal.NotifyContext listens from the call of a run to its return, also after its
\* context has ended.
Listening == {t \in Task : Run(t)!Listens(run[t])}

\* SIGINT or SIGTERM. With nobody listening Go leaves the default action in place.
Signal ==
    /\ stage \in {"parse", "sort", "execute"}
    /\ signals < MaxSignals
    /\ signals' = signals + 1
    /\ stage' = IF Listening = {} THEN "killed" ELSE stage
    /\ notified' = notified \cup {t \in Listening : run[t].ctx = "live"}
    /\ UNCHANGED <<endVars, run, readVars, sortVars, execVars>>

\* Mutant: the exit code is that of the last result.
LastExitCode(res) == IF res = <<>> THEN 0 ELSE Last(res).code

\* parallelExitCode: the last failure in the order of the results.
ParallelExitCode(res) ==
    LET failures == {i \in DOMAIN res : res[i].code # 0}
    IN  IF failures = {} THEN 0
        ELSE res[CHOOSE i \in failures : \A j \in failures : j <= i].code

\* What os.Exit makes of a code: that of a backend that died of a signal is -1.
Status(code) == code % 256

\* The counts at the head of generateProjectedFinalOutputWithMode's report.
Count(res) ==
    LET passed == Cardinality({i \in DOMAIN res : res[i].code = 0})
    IN  [total |-> Len(res), passed |-> passed, failed |-> Len(res) - passed]

ReportAndExit ==
    /\ stage = "execute"
    /\ main = "done"
    /\ report' = Count(results)
    /\ exitCode' = Status(ParallelExitCode(results))
    /\ stage' = "exited"
    /\ UNCHANGED <<taskVars, readVars, sortVars, execVars>>

MainStep ==
    \/ RejectInput \/ ReadFile \/ RejectFile \/ StartSort \/ SortTasks \/ RejectGraph
    \/ StartExecution \/ ExecuteMain \/ ReportAndExit

TaskStep(t) == ExecuteTask(t) \/ CallRun(t) \/ RunStep(t)

Ended == stage \in {"exited", "killed"}

Done == Ended /\ UNCHANGED vars

Next == MainStep \/ (\E t \in Task : TaskStep(t)) \/ Signal \/ Done

Spec ==
    /\ Init /\ [][Next]_vars
    /\ WF_vars(MainStep) /\ \A t \in Task : WF_vars(TaskStep(t))

-----------------------------------------------------------------------------
(* Properties *)

FileReadRight == Reader!FileReadRight
VerdictRight == Sort!VerdictRight

Started(t) == pc[t] # "none"
Executed == phase = "done" /\ main = "done"

\* The sorter hands the executor a plan of the kind it is proved correct for, with
\* every task once and behind what it needs, and no layer more than there must be.
PlanIsLayered ==
    stage = "execute" =>
        /\ Exec!Layered([t \in Task |-> ToSet(depList[t])], layers)
        /\ Sort!EarliestLayer

\* The whole run: a task starts only after every task its file names has
\* succeeded.
StartsAfterNamedTasks ==
    \A t \in Task : Started(t) =>
        \A d \in ToSet(depList[t]) : d \in Task /\ outcome[d] = 0

\* What the blocks of the file name, for each task.
NamedTasks ==
    [t \in Task |-> {d \in Task : \E i \in Reader!Blocks(file) :
                        /\ Reader!LastValue(file[i], "id") = t
                        /\ d \in Reader!NamedIn(file[i])}]

Dag == INSTANCE DagScheduler WITH
           deps <- NamedTasks,
           status <- [t \in Task |-> Exec!StatusOf(t)],
           stopped <- ctx # "live"

\* The whole run is a DAG scheduler of the tasks its file names: through parsing,
\* sorting and layers a task starts when all it names are ok, is skipped only when one
\* of them has failed, and gets one verdict, also when the file is refused half way or
\* a signal ends the process.
ImplementsDag == Dag!Spec

\* An exit code of 0 says that every task of the file ran and succeeded, so a
\* file that is rejected never gives it, nor does a run in which a signal or a
\* timeout ended a task, and the counts of the report say the same.
ExitCodeAgreesWithReport ==
    stage = "exited" =>
        /\ exitCode = 0 <=> \A t \in Task : outcome[t] = 0
        /\ exitCode = 0 => \A t \in Task : run[t].ctx = "live" /\ run[t].phase = "returned"
        /\ Executed =>
               /\ report.total = Cardinality(Task)
               /\ exitCode = 0 <=> report.failed = 0
               /\ report.passed = Cardinality({t \in Task : outcome[t] = 0})

\* A signal that ends the dispatcher itself leaves no backend behind: as long as one
\* backend is alive, its run listens, even for a second Ctrl+C while it is being
\* stopped.
KilledLeavesNoBackend ==
    stage = "killed" => \A t \in Task : run[t].phase # "backend"

\* The process comes to an end.
Termination == <>Ended

\* What the documentation says of 124 and 130: a run whose only failures of its own
\* are timeouts, or interrupts, exits with that code.
ExitCodeNamesCause ==
    stage = "exited" /\ Executed =>
        LET own == {outcome[t] : t \in {u \in Task : Started(u)}} \ {0}
        IN  \A code \in {124, 130} : own = {code} => exitCode = code

=============================================================================
