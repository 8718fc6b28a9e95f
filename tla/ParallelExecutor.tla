-------------------------- MODULE ParallelExecutor --------------------------
(* executeConcurrentWithContext (executor.go): the main goroutine walks the *)
(* layers of the plan, skips what failed dependencies block, starts one     *)
(* goroutine per remaining task, waits for the layer and collects results.  *)
(* A goroutine takes a slot of the worker semaphore, runs the task, sends   *)
(* its result and unwinds its deferred calls, one step each.                *)
EXTENDS Integers, Sequences, FiniteSets, SequencesExt

CONSTANTS Task,         \* task ids
          MaxWorkers,   \* the maxWorkers argument; 0 or less means no limit
          RunCodes,     \* exit codes a task's run may return
          CancelKinds,  \* how the parent context may end: "cancelled", "deadline"
          Plans,        \* the layered plans a run may start from
          NoOutcome     \* the outcome of a task that has none

\* ls is a layering of the tasks whose dependencies ds gives.
Layered(ds, ls) ==
    /\ ds \in [Task -> SUBSET Task]
    /\ ls \in Seq(Seq(Task))
    \* every task stands in exactly one place
    /\ \A t \in Task : \E n \in DOMAIN ls : \E i \in DOMAIN ls[n] : ls[n][i] = t
    /\ \A m, n \in DOMAIN ls : \A i \in DOMAIN ls[m], j \in DOMAIN ls[n] :
           ls[m][i] = ls[n][j] => m = n /\ i = j
    \* a task's dependencies stand in earlier layers
    /\ \A n \in DOMAIN ls : \A i \in DOMAIN ls[n] : \A d \in ds[ls[n][i]] :
           \E m \in 1..(n - 1) : \E j \in DOMAIN ls[m] : ls[m][j] = d

ASSUME TaskAssumption == IsFiniteSet(Task)
ASSUME CodesAssumption == /\ RunCodes \subseteq Int
                          /\ NoOutcome \notin Int
                          /\ CancelKinds \subseteq {"cancelled", "deadline"}
ASSUME WorkersAssumption == MaxWorkers \in Int
ASSUME PlansAssumption == \A plan \in Plans : Layered(plan.deps, plan.layers)

VARIABLES deps,       \* task -> set of tasks it depends on
          layers,     \* the plan: a sequence of layers, each a sequence of tasks
          ctx,        \* "live", or how the parent context ended
          main,       \* the main goroutine: "spawn", "wait", "collect" or "done"
          cur,        \* the layer it works on
          idx,        \* the next task of that layer to look at
          executed,   \* goroutines started in this layer whose result is not collected
          results,    \* the results slice
          failed,     \* the keys of the failed map
          wg,         \* the layer's WaitGroup counter
          resultsCh,  \* the buffered channel of results
          sem,        \* slots taken in the semaphore channel
          active,     \* the activeWorkers counter
          pc,         \* task -> where its goroutine is
          outcome,    \* task -> the exit code of its goroutine's result
          panicked,   \* tasks whose run panicked
          openLogs    \* tasks whose own log file is open

planVars   == <<deps, layers>>
mainVars   == <<main, cur, idx, executed, results, failed>>
workerVars == <<sem, active, pc, outcome, panicked, openLogs>>
vars == <<planVars, ctx, mainVars, wg, resultsCh, workerVars>>

WorkerLimit == IF MaxWorkers < 0 THEN 0 ELSE MaxWorkers
CancelCode(kind) == IF kind = "deadline" THEN 124 ELSE 130
Result(t, code) == [task |-> t, code |-> code]

\* Mutant: room for one result only.
CapacityOfOne == 1

\* totalTasks, the capacity of resultsCh: every task stands in one layer.
Capacity == Cardinality(Task)

IdleInit ==
    /\ ctx = "live"
    /\ main = "spawn"
    /\ cur = 1
    /\ idx = 1
    /\ executed = 0
    /\ results = <<>>
    /\ failed = {}
    /\ wg = 0
    /\ resultsCh = <<>>
    /\ sem = 0
    /\ active = 0
    /\ pc = [t \in Task |-> "none"]
    /\ outcome = [t \in Task |-> NoOutcome]
    /\ panicked = {}
    /\ openLogs = {}

Init ==
    /\ \E plan \in Plans : deps = plan.deps /\ layers = plan.layers
    /\ IdleInit

-----------------------------------------------------------------------------
(* The main goroutine *)

AtTask(t) ==
    /\ main = "spawn"
    /\ cur \in DOMAIN layers
    /\ idx \in DOMAIN layers[cur]
    /\ t = layers[cur][idx]

Blocked(t) == deps[t] \cap failed # {}

\* Mutant: a skipped or cancelled task is reported and not marked failed.
RecordResultOnly(t, code) ==
    /\ results' = Append(results, Result(t, code))
    /\ idx' = idx + 1
    /\ UNCHANGED <<planVars, ctx, main, cur, executed, failed, wg, resultsCh, workerVars>>

\* A task that never gets a goroutine: its result is recorded at once.
Record(t, code) ==
    /\ results' = Append(results, Result(t, code))
    /\ failed' = failed \cup {t}
    /\ idx' = idx + 1
    /\ UNCHANGED <<planVars, ctx, main, cur, executed, wg, resultsCh, workerVars>>

SkipTask(t) ==
    /\ AtTask(t)
    /\ Blocked(t)
    /\ Record(t, 1)

CancelTask(t) ==
    /\ AtTask(t)
    /\ ~Blocked(t)
    /\ ctx # "live"
    /\ Record(t, CancelCode(ctx))

SpawnTask(t) ==
    /\ AtTask(t)
    /\ ~Blocked(t)
    /\ ctx = "live"
    /\ executed' = executed + 1
    /\ wg' = wg + 1
    /\ pc' = [pc EXCEPT ![t] = "acquire"]
    /\ idx' = idx + 1
    /\ UNCHANGED <<planVars, ctx, main, cur, results, failed, resultsCh,
                   sem, active, outcome, panicked, openLogs>>

LayerSpawned ==
    /\ main = "spawn"
    /\ cur \in DOMAIN layers
    /\ idx \notin DOMAIN layers[cur]
    /\ main' = "wait"
    /\ UNCHANGED <<planVars, ctx, cur, idx, executed, results, failed, wg,
                   resultsCh, workerVars>>

\* Mutant: results are collected without waiting for the goroutines.
WaitReturnsAtOnce ==
    /\ main = "wait"
    /\ main' = "collect"
    /\ UNCHANGED <<planVars, ctx, cur, idx, executed, results, failed, wg,
                   resultsCh, workerVars>>

WaitReturns ==
    /\ main = "wait"
    /\ wg = 0
    /\ main' = "collect"
    /\ UNCHANGED <<planVars, ctx, cur, idx, executed, results, failed, wg,
                   resultsCh, workerVars>>

\* Mutant: a failed run is not entered in the failed map.
CollectResultOnly ==
    /\ main = "collect"
    /\ executed > 0
    /\ resultsCh # <<>>
    /\ results' = Append(results, Head(resultsCh))
    /\ resultsCh' = Tail(resultsCh)
    /\ executed' = executed - 1
    /\ UNCHANGED <<planVars, ctx, main, cur, idx, failed, wg, workerVars>>

CollectResult ==
    /\ main = "collect"
    /\ executed > 0
    /\ resultsCh # <<>>
    /\ results' = Append(results, Head(resultsCh))
    /\ resultsCh' = Tail(resultsCh)
    /\ failed' = IF Head(resultsCh).code # 0
                 THEN failed \cup {Head(resultsCh).task} ELSE failed
    /\ executed' = executed - 1
    /\ UNCHANGED <<planVars, ctx, main, cur, idx, wg, workerVars>>

NextLayer ==
    /\ main = "collect"
    /\ executed = 0
    /\ main' = "spawn"
    /\ cur' = cur + 1
    /\ idx' = 1
    /\ UNCHANGED <<planVars, ctx, executed, results, failed, wg, resultsCh,
                   workerVars>>

Return ==
    /\ main = "spawn"
    /\ cur \notin DOMAIN layers
    /\ main' = "done"
    /\ UNCHANGED <<planVars, ctx, cur, idx, executed, results, failed, wg,
                   resultsCh, workerVars>>

Main ==
    \/ \E t \in Task : SkipTask(t) \/ CancelTask(t) \/ SpawnTask(t)
    \/ LayerSpawned
    \/ WaitReturns
    \/ CollectResult
    \/ NextLayer
    \/ Return

-----------------------------------------------------------------------------
(* The goroutine of one task *)

Goto(t, place) == pc' = [pc EXCEPT ![t] = place]

\* The channel never blocks a sender as long as it is not full.
Send(t, code) ==
    /\ Len(resultsCh) < Capacity
    /\ resultsCh' = Append(resultsCh, Result(t, code))

\* Mutant: one slot too many.
AcquireSlotOffByOne(t) ==
    /\ pc[t] = "acquire"
    /\ WorkerLimit > 0 => sem <= WorkerLimit
    /\ sem' = IF WorkerLimit > 0 THEN sem + 1 ELSE sem
    /\ Goto(t, "start")
    /\ UNCHANGED <<planVars, ctx, mainVars, wg, resultsCh, active, outcome,
                   panicked, openLogs>>

\* Both cases of the select may be ready: either may be taken.
AcquireSlot(t) ==
    /\ pc[t] = "acquire"
    /\ WorkerLimit > 0 => sem < WorkerLimit
    /\ sem' = IF WorkerLimit > 0 THEN sem + 1 ELSE sem
    /\ Goto(t, "start")
    /\ UNCHANGED <<planVars, ctx, mainVars, wg, resultsCh, active, outcome,
                   panicked, openLogs>>

\* Mutant: the deferred calls are set up before the slot is acquired.
AcquireCancelledUnwinds(t) ==
    /\ pc[t] = "acquire"
    /\ WorkerLimit > 0
    /\ ctx # "live"
    /\ outcome' = [outcome EXCEPT ![t] = CancelCode(ctx)]
    /\ Send(t, CancelCode(ctx))
    /\ Goto(t, "close")
    /\ UNCHANGED <<planVars, ctx, mainVars, wg, sem, active, panicked, openLogs>>

AcquireCancelled(t) ==
    /\ pc[t] = "acquire"
    /\ WorkerLimit > 0
    /\ ctx # "live"
    /\ outcome' = [outcome EXCEPT ![t] = CancelCode(ctx)]
    /\ Send(t, CancelCode(ctx))
    /\ Goto(t, "wgdone")
    /\ UNCHANGED <<planVars, ctx, mainVars, wg, sem, active, panicked, openLogs>>

\* Counts itself active and opens its log, or falls back to the main one.
StartWork(t) ==
    /\ pc[t] = "start"
    /\ active' = active + 1
    /\ \E own \in BOOLEAN : openLogs' = IF own THEN openLogs \cup {t} ELSE openLogs
    /\ Goto(t, "run")
    /\ UNCHANGED <<planVars, ctx, mainVars, wg, resultsCh, sem, outcome, panicked>>

RunReturns(t) ==
    /\ pc[t] = "run"
    /\ \E code \in RunCodes : outcome' = [outcome EXCEPT ![t] = code]
    /\ Goto(t, "send")
    /\ UNCHANGED <<planVars, ctx, mainVars, wg, resultsCh, sem, active, panicked,
                   openLogs>>

\* Mutant: a panic goes straight to the recover, past the other deferred calls.
RunPanicsPastDefers(t) ==
    /\ pc[t] = "run"
    /\ outcome' = [outcome EXCEPT ![t] = 1]
    /\ panicked' = panicked \cup {t}
    /\ Goto(t, "recover")
    /\ UNCHANGED <<planVars, ctx, mainVars, wg, resultsCh, sem, active, openLogs>>

\* A panic skips the send; the deferred calls run, the recover last but one.
RunPanics(t) ==
    /\ pc[t] = "run"
    /\ outcome' = [outcome EXCEPT ![t] = 1]
    /\ panicked' = panicked \cup {t}
    /\ Goto(t, "close")
    /\ UNCHANGED <<planVars, ctx, mainVars, wg, resultsCh, sem, active, openLogs>>

SendResult(t) ==
    /\ pc[t] = "send"
    /\ Send(t, outcome[t])
    /\ Goto(t, "close")
    /\ UNCHANGED <<planVars, ctx, mainVars, wg, sem, active, outcome, panicked,
                   openLogs>>

CloseLog(t) ==
    /\ pc[t] = "close"
    /\ openLogs' = openLogs \ {t}
    /\ Goto(t, "retire")
    /\ UNCHANGED <<planVars, ctx, mainVars, wg, resultsCh, sem, active, outcome,
                   panicked>>

Retire(t) ==
    /\ pc[t] = "retire"
    /\ active' = active - 1
    /\ Goto(t, "release")
    /\ UNCHANGED <<planVars, ctx, mainVars, wg, resultsCh, sem, outcome, panicked,
                   openLogs>>

\* Mutant: the recover sends a result after an orderly return too.
ReleaseSlotRecovers(t) ==
    /\ pc[t] = "release"
    /\ sem' = IF WorkerLimit > 0 /\ sem > 0 THEN sem - 1 ELSE sem
    /\ Goto(t, "recover")
    /\ UNCHANGED <<planVars, ctx, mainVars, wg, resultsCh, active, outcome,
                   panicked, openLogs>>

ReleaseSlot(t) ==
    /\ pc[t] = "release"
    /\ sem' = IF WorkerLimit > 0 /\ sem > 0 THEN sem - 1 ELSE sem
    /\ Goto(t, IF t \in panicked THEN "recover" ELSE "wgdone")
    /\ UNCHANGED <<planVars, ctx, mainVars, wg, resultsCh, active, outcome,
                   panicked, openLogs>>

\* Mutant: wg.Done is not deferred, so a panic skips it.
RecoverWithoutDone(t) ==
    /\ pc[t] = "recover"
    /\ Send(t, outcome[t])
    /\ Goto(t, "done")
    /\ UNCHANGED <<planVars, ctx, mainVars, wg, sem, active, outcome, panicked,
                   openLogs>>

Recover(t) ==
    /\ pc[t] = "recover"
    /\ Send(t, outcome[t])
    /\ Goto(t, "wgdone")
    /\ UNCHANGED <<planVars, ctx, mainVars, wg, sem, active, outcome, panicked,
                   openLogs>>

WgDone(t) ==
    /\ pc[t] = "wgdone"
    /\ wg' = wg - 1
    /\ Goto(t, "done")
    /\ UNCHANGED <<planVars, ctx, mainVars, resultsCh, sem, active, outcome,
                   panicked, openLogs>>

Worker(t) ==
    \/ AcquireSlot(t) \/ AcquireCancelled(t) \/ StartWork(t)
    \/ RunReturns(t) \/ RunPanics(t) \/ SendResult(t)
    \/ CloseLog(t) \/ Retire(t) \/ ReleaseSlot(t) \/ Recover(t) \/ WgDone(t)

-----------------------------------------------------------------------------
(* The parent context ends at any moment, at most once. *)
CancelContext ==
    /\ ctx = "live"
    /\ ctx' \in CancelKinds
    /\ UNCHANGED <<planVars, mainVars, wg, resultsCh, workerVars>>

Terminated == main = "done" /\ UNCHANGED vars

Next == Main \/ (\E t \in Task : Worker(t)) \/ CancelContext \/ Terminated

\* The Go scheduler runs every runnable goroutine, and a task's run returns
\* (ExecutionLifecycle: its own timeout ends it).
Fairness == WF_vars(Main) /\ \A t \in Task : WF_vars(Worker(t))

Spec == Init /\ [][Next]_vars
FairSpec == Spec /\ Fairness

-----------------------------------------------------------------------------
(* Properties *)

Places == {"none", "acquire", "start", "run", "send", "close", "retire",
           "release", "recover", "wgdone", "done"}
Codes == RunCodes \cup {1, 124, 130}
ResultSet == [task : Task, code : Codes]

TypeOK ==
    /\ deps \in [Task -> SUBSET Task]
    /\ layers \in Seq(Seq(Task))
    /\ ctx \in {"live", "cancelled", "deadline"}
    /\ main \in {"spawn", "wait", "collect", "done"}
    /\ cur \in Nat
    /\ idx \in Nat
    /\ executed \in Nat
    /\ results \in Seq(ResultSet)
    /\ failed \subseteq Task
    /\ wg \in Nat
    /\ resultsCh \in Seq(ResultSet)
    /\ sem \in Nat
    /\ active \in Nat
    /\ pc \in [Task -> Places]
    /\ outcome \in [Task -> Codes \cup {NoOutcome}]
    /\ panicked \subseteq Task
    /\ openLogs \subseteq Task

Succeeded(t) == \E i \in DOMAIN results : results[i] = Result(t, 0)
HasResult(t) == \E i \in DOMAIN results : results[i].task = t

\* A goroutine exists only for a task all of whose dependencies have a result
\* of exit code 0 among the collected results: the layers, the failed map and
\* the collection after the barrier together give what the task file asks for.
DependenciesSucceeded ==
    \A t \in Task : pc[t] # "none" => \A d \in deps[t] : Succeeded(d)

\* With a limit, no more goroutines hold a slot, and no more count as active,
\* than the limit; sem is what the goroutines in flight add up to.
HoldsSlot(t) == pc[t] \in {"start", "run", "send", "close", "retire", "release"}
Working(t) == pc[t] \in {"run", "send", "close", "retire"}
WorkerBound ==
    WorkerLimit > 0 =>
        /\ sem = Cardinality({t \in Task : HoldsSlot(t)})
        /\ active = Cardinality({t \in Task : Working(t)})
        /\ active <= sem
        /\ sem <= WorkerLimit

\* No task is reported twice, in the slice and the channel together.
OneResultEach ==
    LET all == results \o resultsCh
    IN  \A i, j \in DOMAIN all : all[i].task = all[j].task => i = j

\* When the function returns every task has a result, no goroutine is left, no
\* slot is taken, no result stays in the channel and no task log stays open.
NothingLeftBehind ==
    main = "done" =>
        /\ \A t \in Task : HasResult(t) /\ pc[t] \in {"none", "done"}
        /\ sem = 0 /\ active = 0 /\ wg = 0
        /\ resultsCh = <<>>
        /\ openLogs = {}

\* A sender always finds room: the buffer is as large as the run.
SendNeverBlocks ==
    \A t \in Task :
        pc[t] \in {"acquire", "send", "recover"} => Len(resultsCh) < Capacity

\* The layer barrier: a goroutine in flight belongs to the current layer.
LayerBarrier ==
    \A t \in Task :
        pc[t] \notin {"none", "done"} =>
            cur \in DOMAIN layers /\ t \in ToSet(layers[cur])

\* The run ends: no interleaving of slots, results and cancellation hangs it.
Termination == <>(main = "done")

\* What a task is to the author of the task file.
StatusOf(t) ==
    IF outcome[t] = 0 THEN "ok"
    ELSE IF outcome[t] # NoOutcome \/ t \in failed THEN "failed"
    ELSE IF pc[t] \in {"none", "acquire"} THEN "pending"
    ELSE "running"

Dag == INSTANCE DagScheduler WITH
           status <- [t \in Task |-> StatusOf(t)],
           stopped <- ctx # "live"

\* The executor is a DAG scheduler.
ImplementsDag == Dag!Spec

\* What has become of a task stands: the deferred calls of its goroutine, the collection
\* of its result, the fate of other tasks and the end of the context leave it. The panic
\* of a task is that of its run (RunPanics); the deferred calls do not panic here.
VerdictsStand ==
    [][\A t \in Task : StatusOf(t) \in {"ok", "failed"} => StatusOf(t)' = StatusOf(t)]_vars

\* Every task is decided, whatever fails, panics or is cancelled.
EveryTaskDecided == <>[]Dag!AllDecided

=============================================================================
