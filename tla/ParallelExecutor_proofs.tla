----------------------- MODULE ParallelExecutor_proofs -----------------------
(* Theorems about ParallelExecutor, for every finite set of tasks, every    *)
(* layered plan, every worker limit and every set of exit codes.            *)
EXTENDS ParallelExecutor, FiniteSetTheorems, TLAPS

InFlight == {t \in Task : pc[t] \notin {"none", "done"}}
Holders  == {t \in Task : HoldsSlot(t)}
Workers  == {t \in Task : Working(t)}

\* The three counters are what the goroutines in flight add up to.
Counters ==
    /\ wg = Cardinality(InFlight)
    /\ active = Cardinality(Workers)
    /\ sem = IF WorkerLimit > 0 THEN Cardinality(Holders) ELSE 0
    /\ WorkerLimit > 0 => sem <= WorkerLimit

\* A goroutine has an outcome from its run's end on, and a panicked one sends
\* it from recover.
Outcomes ==
    /\ \A t \in Task :
         /\ outcome[t] = NoOutcome
              <=> pc[t] \in {"none", "acquire", "start", "run"}
         /\ t \in panicked => /\ outcome[t] = 1
                              /\ pc[t] \in {"close", "retire", "release", "recover",
                                            "wgdone", "done"}
         /\ pc[t] = "recover" => t \in panicked
         /\ t \in openLogs => pc[t] \in {"run", "send", "close"}

Sent(t) ==
    \/ pc[t] \in {"wgdone", "done"}
    \/ pc[t] \in {"close", "retire", "release"} /\ t \notin panicked

InChannel(t) == \E i \in DOMAIN resultsCh : resultsCh[i].task = t

\* What a result in the slice or the channel says, and that it is said once.
Reports ==
    /\ \A i \in DOMAIN results :
         LET t == results[i].task
         IN  \/ pc[t] = "none" /\ results[i].code # 0
             \/ Sent(t) /\ results[i].code = outcome[t]
    /\ \A i \in DOMAIN resultsCh :
         LET t == resultsCh[i].task
         IN  Sent(t) /\ resultsCh[i].code = outcome[t]
    /\ \A i, j \in DOMAIN results : results[i].task = results[j].task => i = j
    /\ \A i, j \in DOMAIN resultsCh : resultsCh[i].task = resultsCh[j].task => i = j
    /\ \A i \in DOMAIN results, j \in DOMAIN resultsCh :
         results[i].task # resultsCh[j].task
    /\ \A t \in Task : Sent(t) => HasResult(t) \/ InChannel(t)

\* The failed map holds the tasks whose collected result is a failure.
FailedMap ==
    \A t \in Task :
        t \in failed <=> \E i \in DOMAIN results :
                            results[i].task = t /\ results[i].code # 0

\* Where the main goroutine is says which tasks are behind and ahead of it.
Position ==
    /\ cur \in Nat \ {0} /\ idx \in Nat \ {0}
    /\ main \in {"wait", "collect"} =>
         cur \in DOMAIN layers /\ idx \notin DOMAIN layers[cur]
    /\ main = "done" => cur \notin DOMAIN layers
    /\ main = "collect" => \A t \in Task : pc[t] \in {"none", "done"}
    /\ \A n \in DOMAIN layers : \A i \in DOMAIN layers[n] :
         LET t == layers[n][i]
         IN  /\ n < cur => HasResult(t) /\ pc[t] \in {"none", "done"}
             /\ n > cur \/ (n = cur /\ i >= idx) => ~HasResult(t) /\ pc[t] = "none"
             /\ n = cur /\ i < idx => HasResult(t) \/ pc[t] # "none"

\* Every goroutine of the layer is counted until its result is collected.
Outstanding == {t \in Task : pc[t] # "none" /\ ~HasResult(t)}
Executed == executed = Cardinality(Outstanding)

Planned == Layered(deps, layers)

IInv ==
    /\ TypeOK
    /\ Planned
    /\ Counters
    /\ Outcomes
    /\ Reports
    /\ FailedMap
    /\ Position
    /\ Executed
    /\ DependenciesSucceeded

-----------------------------------------------------------------------------
\* The limit is a natural number, and the codes are integers.
LEMMA Arguments ==
    /\ WorkerLimit \in Nat
    /\ Codes \subseteq Int
    /\ NoOutcome \notin Codes
    /\ \A kind : CancelCode(kind) \in Codes /\ CancelCode(kind) # 0
  <1>1. WorkerLimit \in Nat
    BY WorkersAssumption DEF WorkerLimit
  <1>2. Codes \subseteq Int
    BY CodesAssumption DEF Codes
  <1>3. NoOutcome \notin Codes
    BY <1>2, CodesAssumption
  <1>4. ASSUME NEW kind
        PROVE  CancelCode(kind) \in Codes /\ CancelCode(kind) # 0
    <2>1. CancelCode(kind) = 124 \/ CancelCode(kind) = 130
      BY DEF CancelCode
    <2> QED
      BY <2>1 DEF Codes
  <1> QED
    BY <1>1, <1>2, <1>3, <1>4

\* Any set of tasks has a natural number of members.
LEMMA TasksFinite ==
    ASSUME NEW S \in SUBSET Task
    PROVE  IsFiniteSet(S) /\ Cardinality(S) \in Nat
  BY TaskAssumption, FS_Subset, FS_CardinalityType

\* Adding a task to a set of tasks, or taking one out, changes its size by one.
LEMMA AddTask ==
    ASSUME NEW S \in SUBSET Task, NEW t \in Task, t \notin S
    PROVE  Cardinality(S \cup {t}) = Cardinality(S) + 1
  BY TasksFinite, FS_AddElement

\* Taking a member out of a set of tasks makes it smaller by one.
LEMMA RemoveTask ==
    ASSUME NEW S \in SUBSET Task, NEW t \in S
    PROVE  Cardinality(S \ {t}) = Cardinality(S) - 1 /\ Cardinality(S) > 0
  <1>1. Cardinality(S \ {t}) = Cardinality(S) - 1
    BY TasksFinite, FS_RemoveElement
  <1>2. Cardinality(S \ {t}) \in Nat /\ Cardinality(S) \in Nat
    BY TasksFinite
  <1> QED
    BY <1>1, <1>2

-----------------------------------------------------------------------------
(* The invariant *)

\* It holds when the executor is called, whatever layered plan it is given.
LEMMA CalledInv ==
    ASSUME IdleInit, Planned
    PROVE  IInv
  <1>1. TypeOK
    BY DEF IdleInit, TypeOK, Planned, Layered, Places
  <1>2. InFlight = {} /\ Holders = {} /\ Workers = {} /\ Outstanding = {}
    BY DEF IdleInit, InFlight, Holders, Workers, HoldsSlot, Working, Outstanding
  <1>3. Counters /\ Executed
    BY <1>2, FS_EmptySet, Arguments DEF IdleInit, Counters, Executed
  <1>4. Outcomes /\ Reports /\ FailedMap
    BY DEF IdleInit, Outcomes, Reports, FailedMap, Sent
  <1>5. Position
    BY DEF IdleInit, Position, HasResult, Planned, Layered
  <1>6. DependenciesSucceeded
    BY DEF IdleInit, DependenciesSucceeded
  <1> QED
    BY <1>1, <1>3, <1>4, <1>5, <1>6 DEF IInv

\* It holds initially, for every layered plan.
THEOREM InitInv == Init => IInv
  <1> SUFFICES ASSUME Init PROVE IInv
    OBVIOUS
  <1>1. PICK plan \in Plans : deps = plan.deps /\ layers = plan.layers
    BY DEF Init
  <1>2. Layered(plan.deps, plan.layers)
    BY PlansAssumption
  <1>3. Planned
    BY <1>1, <1>2 DEF Planned, Layered
  <1> QED
    BY <1>3, CalledInv DEF Init

-----------------------------------------------------------------------------
(* Every step preserves each part of the invariant. *)

\* A step that is not a stutter, as one goroutine's or the context's.
LEMMA Steps ==
    ASSUME Next
    PROVE  \/ \E t \in Task : SkipTask(t) \/ CancelTask(t)
           \/ \E t \in Task : SpawnTask(t)
           \/ LayerSpawned \/ WaitReturns \/ NextLayer \/ Return
           \/ CollectResult
           \/ \E t \in Task : AcquireSlot(t) \/ StartWork(t) \/ RunReturns(t)
           \/ \E t \in Task : AcquireCancelled(t) \/ SendResult(t) \/ Recover(t)
           \/ \E t \in Task : RunPanics(t) \/ CloseLog(t)
           \/ \E t \in Task : Retire(t) \/ ReleaseSlot(t)
           \/ \E t \in Task : WgDone(t)
           \/ CancelContext
           \/ UNCHANGED vars
  BY DEF Next, Main, Worker, Terminated

\* Recording a result keeps the slice and the channel well typed.
LEMMA AppendTyped ==
    ASSUME NEW s \in Seq(ResultSet), NEW t \in Task, NEW code \in Codes
    PROVE  Append(s, Result(t, code)) \in Seq(ResultSet)
  BY DEF Result, ResultSet

\* A goroutine in flight, working or holding a slot is in its set of tasks.
LEMMA CountersPositive ==
    ASSUME IInv, NEW t \in Task
    PROVE  /\ pc[t] \notin {"none", "done"} => wg - 1 \in Nat
           /\ Working(t) => active - 1 \in Nat
  <1>1. InFlight \in SUBSET Task /\ Workers \in SUBSET Task
    BY DEF InFlight, Workers
  <1>2. pc[t] \notin {"none", "done"} => Cardinality(InFlight) > 0
    BY <1>1, RemoveTask DEF InFlight
  <1>3. Working(t) => Cardinality(Workers) > 0
    BY <1>1, RemoveTask DEF Workers
  <1> QED
    BY <1>2, <1>3 DEF IInv, Counters, TypeOK

\* Every step keeps the types.
LEMMA TypeStep ==
    ASSUME IInv, [Next]_vars
    PROVE  TypeOK'
  <1> USE Arguments DEF IInv, TypeOK
  <1>1. CASE \E t \in Task : SkipTask(t) \/ CancelTask(t)
    <2> PICK t \in Task : SkipTask(t) \/ CancelTask(t)
      BY <1>1
    <2>1. results' \in Seq(ResultSet)
      <3>1. \E code \in Codes : results' = Append(results, Result(t, code))
        BY DEF SkipTask, CancelTask, Record, Codes
      <3> QED
        BY <3>1, AppendTyped
    <2> QED
      BY <2>1 DEF SkipTask, CancelTask, Record, planVars, workerVars
  <1>2. CASE \E t \in Task : SpawnTask(t)
    BY <1>2 DEF SpawnTask, planVars, Places
  <1>3. CASE LayerSpawned \/ WaitReturns \/ NextLayer \/ Return
    BY <1>3 DEF LayerSpawned, WaitReturns, NextLayer, Return, planVars, workerVars
  <1>4. CASE CollectResult
    <2>1. Head(resultsCh) \in ResultSet /\ Tail(resultsCh) \in Seq(ResultSet)
      BY <1>4 DEF CollectResult
    <2>2. results' \in Seq(ResultSet)
      BY <1>4, <2>1 DEF CollectResult
    <2>3. failed' \subseteq Task
      <3>1. Head(resultsCh).task \in Task
        BY <2>1 DEF ResultSet
      <3> QED
        BY <1>4, <3>1 DEF CollectResult
    <2> QED
      BY <1>4, <2>1, <2>2, <2>3 DEF CollectResult, planVars, workerVars
  <1>5. CASE \E t \in Task : AcquireSlot(t) \/ StartWork(t) \/ RunReturns(t)
    <2>1. CASE \E t \in Task : AcquireSlot(t)
      BY <2>1 DEF AcquireSlot, Goto, planVars, mainVars, Places
    <2>2. CASE \E t \in Task : StartWork(t)
      BY <2>2 DEF StartWork, Goto, planVars, mainVars, Places
    <2>3. CASE \E t \in Task : RunReturns(t)
      BY <2>3 DEF RunReturns, Goto, planVars, mainVars, Places, Codes
    <2> QED
      BY <1>5, <2>1, <2>2, <2>3
  <1>6. CASE \E t \in Task : AcquireCancelled(t) \/ SendResult(t) \/ Recover(t)
    <2> PICK t \in Task : AcquireCancelled(t) \/ SendResult(t) \/ Recover(t)
      BY <1>6
    <2>1. \E code \in Codes : resultsCh' = Append(resultsCh, Result(t, code))
      <3>1. CASE AcquireCancelled(t)
        BY <3>1 DEF AcquireCancelled, Send
      <3>2. CASE SendResult(t) \/ Recover(t)
        <4>1. outcome[t] \in Codes
          BY <3>2 DEF SendResult, Recover, Outcomes
        <4> QED
          BY <3>2, <4>1 DEF SendResult, Recover, Send
      <3> QED
        BY <3>1, <3>2
    <2>2. resultsCh' \in Seq(ResultSet)
      BY <2>1, AppendTyped
    <2>3. outcome' \in [Task -> Codes \cup {NoOutcome}]
      BY DEF AcquireCancelled, SendResult, Recover
    <2> QED
      BY <2>2, <2>3 DEF AcquireCancelled, SendResult, Recover, Goto, planVars,
                        mainVars, Places
  <1>7. CASE \E t \in Task : RunPanics(t) \/ CloseLog(t)
    <2>1. CASE \E t \in Task : RunPanics(t)
      BY <2>1 DEF RunPanics, Goto, planVars, mainVars, Places, Codes
    <2>2. CASE \E t \in Task : CloseLog(t)
      BY <2>2 DEF CloseLog, Goto, planVars, mainVars, Places
    <2> QED
      BY <1>7, <2>1, <2>2
  <1>8. CASE \E t \in Task : Retire(t) \/ ReleaseSlot(t)
    <2> PICK t \in Task : Retire(t) \/ ReleaseSlot(t)
      BY <1>8
    <2>1. active' \in Nat
      BY CountersPositive DEF Retire, ReleaseSlot, Working
    <2>2. sem' \in Nat
      BY DEF Retire, ReleaseSlot
    <2> QED
      BY <2>1, <2>2 DEF Retire, ReleaseSlot, Goto, planVars, mainVars, Places
  <1>9. CASE \E t \in Task : WgDone(t)
    <2> PICK t \in Task : WgDone(t)
      BY <1>9
    <2>1. wg' \in Nat
      BY CountersPositive DEF WgDone
    <2> QED
      BY <2>1 DEF WgDone, Goto, planVars, mainVars, Places
  <1>10. CASE CancelContext
    BY <1>10, CodesAssumption DEF CancelContext, planVars, mainVars, workerVars
  <1>11. CASE UNCHANGED vars
    BY <1>11 DEF vars, planVars, mainVars, workerVars
  <1> QED
    BY <1>1, <1>2, <1>3, <1>4, <1>5, <1>6, <1>7, <1>8, <1>9, <1>10, <1>11, Steps

\* The plan never changes.
LEMMA PlannedStep ==
    ASSUME IInv, [Next]_vars
    PROVE  Planned' /\ UNCHANGED planVars
  <1>1. UNCHANGED planVars
    BY DEF Next, Main, Worker, Terminated, vars, SkipTask, CancelTask, Record,
           SpawnTask, LayerSpawned, WaitReturns, CollectResult, NextLayer, Return,
           AcquireSlot, AcquireCancelled, StartWork, RunReturns, RunPanics,
           SendResult, CloseLog, Retire, ReleaseSlot, Recover, WgDone, CancelContext
  <1> QED
    BY <1>1 DEF IInv, Planned, planVars

\* While no goroutine moves and no counter changes, the counters stay right.
LEMMA CountersKept ==
    ASSUME Counters, UNCHANGED <<wg, sem, active, pc>>
    PROVE  Counters'
  BY DEF Counters, InFlight, Holders, Workers, HoldsSlot, Working

\* Every step keeps the WaitGroup, the semaphore and activeWorkers in step with
\* the goroutines in flight.
LEMMA CountersStep ==
    ASSUME IInv, [Next]_vars
    PROVE  Counters'
  <1> USE DEF IInv, TypeOK
  <1>1. /\ InFlight \in SUBSET Task /\ Holders \in SUBSET Task
        /\ Workers \in SUBSET Task
    BY DEF InFlight, Holders, Workers
  <1>2. CASE \E t \in Task : SkipTask(t) \/ CancelTask(t)
    BY <1>2, CountersKept DEF SkipTask, CancelTask, Record, workerVars
  <1>3. CASE LayerSpawned \/ WaitReturns \/ NextLayer \/ Return \/ CollectResult
    BY <1>3, CountersKept DEF LayerSpawned, WaitReturns, NextLayer, Return,
                              CollectResult, workerVars
  <1>4. ASSUME NEW t \in Task, SpawnTask(t)
        PROVE  Counters'
    <2>1. pc[t] = "none"
      BY <1>4 DEF SpawnTask, AtTask, Position
    <2>2. InFlight' = InFlight \cup {t} /\ t \notin InFlight
      BY <1>4, <2>1 DEF SpawnTask, InFlight
    <2>3. Holders' = Holders /\ Workers' = Workers
      BY <1>4, <2>1 DEF SpawnTask, Holders, Workers, HoldsSlot, Working
    <2> QED
      BY <1>1, <1>4, <2>2, <2>3, AddTask DEF SpawnTask, Counters
  <1>5. ASSUME NEW t \in Task, AcquireSlot(t)
        PROVE  Counters'
    <2>1. InFlight' = InFlight /\ Workers' = Workers
      BY <1>5 DEF AcquireSlot, Goto, InFlight, Workers, Working
    <2>2. Holders' = Holders \cup {t} /\ t \notin Holders
      BY <1>5 DEF AcquireSlot, Goto, Holders, HoldsSlot
    <2>3. Cardinality(Holders') = Cardinality(Holders) + 1
      BY <1>1, <2>2, AddTask
    <2> QED
      BY <1>5, <2>1, <2>3, Arguments DEF AcquireSlot, Counters
  <1>6. ASSUME NEW t \in Task, StartWork(t)
        PROVE  Counters'
    <2>1. InFlight' = InFlight /\ Holders' = Holders
      BY <1>6 DEF StartWork, Goto, InFlight, Holders, HoldsSlot
    <2>2. Workers' = Workers \cup {t} /\ t \notin Workers
      BY <1>6 DEF StartWork, Goto, Workers, Working
    <2>3. Cardinality(Workers') = Cardinality(Workers) + 1
      BY <1>1, <2>2, AddTask
    <2> QED
      BY <1>6, <2>1, <2>3 DEF StartWork, Counters
  <1>7. ASSUME NEW t \in Task,
               \/ RunReturns(t) \/ RunPanics(t) \/ SendResult(t)
               \/ CloseLog(t) \/ AcquireCancelled(t) \/ Recover(t)
        PROVE  Counters'
    <2>1. InFlight' = InFlight /\ Holders' = Holders /\ Workers' = Workers
      BY <1>7 DEF RunReturns, RunPanics, SendResult, CloseLog, AcquireCancelled,
                  Recover, Goto, InFlight, Holders, HoldsSlot, Workers, Working
    <2>2. UNCHANGED <<wg, sem, active>>
      BY <1>7 DEF RunReturns, RunPanics, SendResult, CloseLog, AcquireCancelled,
                  Recover
    <2> QED
      BY <2>1, <2>2 DEF Counters
  <1>8. ASSUME NEW t \in Task, Retire(t)
        PROVE  Counters'
    <2>1. InFlight' = InFlight /\ Holders' = Holders
      BY <1>8 DEF Retire, Goto, InFlight, Holders, HoldsSlot
    <2>2. Workers' = Workers \ {t} /\ t \in Workers
      BY <1>8 DEF Retire, Goto, Workers, Working
    <2>3. Cardinality(Workers') = Cardinality(Workers) - 1
      BY <1>1, <2>2, RemoveTask
    <2> QED
      BY <1>8, <2>1, <2>3 DEF Retire, Counters
  <1>9. ASSUME NEW t \in Task, ReleaseSlot(t)
        PROVE  Counters'
    <2>1. InFlight' = InFlight /\ Workers' = Workers
      BY <1>9 DEF ReleaseSlot, Goto, InFlight, Workers, Working
    <2>2. Holders' = Holders \ {t} /\ t \in Holders
      BY <1>9 DEF ReleaseSlot, Goto, Holders, HoldsSlot
    <2>3. Cardinality(Holders') = Cardinality(Holders) - 1 /\ Cardinality(Holders) > 0
      BY <1>1, <2>2, RemoveTask
    <2>4. /\ sem' = IF WorkerLimit > 0 THEN Cardinality(Holders') ELSE 0
          /\ WorkerLimit > 0 => sem' <= WorkerLimit
      BY <1>9, <2>3, Arguments DEF ReleaseSlot, Counters
    <2> QED
      BY <1>9, <2>1, <2>4 DEF ReleaseSlot, Counters
  <1>10. ASSUME NEW t \in Task, WgDone(t)
         PROVE  Counters'
    <2>1. Holders' = Holders /\ Workers' = Workers
      BY <1>10 DEF WgDone, Goto, Holders, HoldsSlot, Workers, Working
    <2>2. InFlight' = InFlight \ {t} /\ t \in InFlight
      BY <1>10 DEF WgDone, Goto, InFlight
    <2>3. Cardinality(InFlight') = Cardinality(InFlight) - 1
      BY <1>1, <2>2, RemoveTask
    <2> QED
      BY <1>10, <2>1, <2>3 DEF WgDone, Counters
  <1>11. CASE CancelContext \/ UNCHANGED vars
    BY <1>11, CountersKept DEF CancelContext, vars, workerVars
  <1> QED
    BY <1>2, <1>3, <1>4, <1>5, <1>6, <1>7, <1>8, <1>9, <1>10, <1>11, Steps

\* Every step keeps outcomes, panics and open logs where the goroutines are.
LEMMA OutcomesStep ==
    ASSUME IInv, [Next]_vars
    PROVE  Outcomes'
  <1> USE DEF IInv, TypeOK, Outcomes
  <1>1. CASE \E t \in Task : SkipTask(t) \/ CancelTask(t)
    BY <1>1 DEF SkipTask, CancelTask, Record, workerVars
  <1>2. CASE \/ LayerSpawned \/ WaitReturns \/ NextLayer \/ Return \/ CollectResult
             \/ CancelContext \/ UNCHANGED vars
    BY <1>2 DEF LayerSpawned, WaitReturns, NextLayer, Return, CollectResult,
                CancelContext, vars, workerVars
  <1>3. ASSUME NEW t \in Task, SpawnTask(t)
        PROVE  Outcomes'
    <2>1. pc[t] = "none"
      BY <1>3 DEF SpawnTask, AtTask, Position
    <2> QED
      BY <1>3, <2>1 DEF SpawnTask
  <1>4. ASSUME NEW t \in Task,
               \/ AcquireSlot(t) \/ StartWork(t) \/ SendResult(t) \/ CloseLog(t)
               \/ Retire(t) \/ ReleaseSlot(t) \/ Recover(t) \/ WgDone(t)
        PROVE  Outcomes'
    BY <1>4 DEF AcquireSlot, StartWork, SendResult, CloseLog, Retire, ReleaseSlot,
                Recover, WgDone, Goto, mainVars
  <1>5. ASSUME NEW t \in Task, AcquireCancelled(t) \/ RunReturns(t) \/ RunPanics(t)
        PROVE  Outcomes'
    <2>1. outcome'[t] # NoOutcome
      BY <1>5, Arguments, CodesAssumption
         DEF AcquireCancelled, RunReturns, RunPanics, Codes
    <2> QED
      BY <1>5, <2>1 DEF AcquireCancelled, RunReturns, RunPanics, Goto, mainVars
  <1> QED
    BY <1>1, <1>2, <1>3, <1>4, <1>5, Steps

\* A task that has sent nothing has no result anywhere.
LEMMA NotReported ==
    ASSUME IInv, NEW t \in Task, ~Sent(t)
    PROVE  /\ ~InChannel(t)
           /\ pc[t] # "none" => ~HasResult(t)
  BY DEF IInv, Reports, InChannel, HasResult

\* The task the main goroutine is looking at is untouched.
LEMMA AtTaskFresh ==
    ASSUME IInv, NEW t \in Task, AtTask(t)
    PROVE  pc[t] = "none" /\ ~HasResult(t) /\ ~Sent(t) /\ ~InChannel(t)
  <1>1. pc[t] = "none" /\ ~HasResult(t)
    BY DEF IInv, TypeOK, AtTask, Position
  <1>2. ~Sent(t)
    BY <1>1 DEF Sent
  <1> QED
    BY <1>1, <1>2, NotReported

\* Appending to a sequence of results adds its task and nothing else.
LEMMA Appended ==
    ASSUME NEW s \in Seq(ResultSet), NEW r \in ResultSet, NEW new, new = Append(s, r)
    PROVE  /\ new \in Seq(ResultSet)
           /\ DOMAIN new = DOMAIN s \cup {Len(s) + 1}
           /\ Len(s) + 1 \notin DOMAIN s
           /\ \A i \in DOMAIN s : new[i] = s[i]
           /\ new[Len(s) + 1] = r
  OBVIOUS

\* A task has a result after an append if it had one or is the one appended.
LEMMA HasResultStep ==
    ASSUME IInv, NEW r \in ResultSet, results' = Append(results, r), NEW t
    PROVE  HasResult(t)' <=> HasResult(t) \/ t = r.task
  <1>1. results \in Seq(ResultSet)
    BY DEF IInv, TypeOK
  <1> DEFINE n == Len(results) + 1
  <1>2. /\ DOMAIN results' = DOMAIN results \cup {n}
        /\ \A i \in DOMAIN results : results'[i] = results[i]
        /\ results'[n] = r
    BY <1>1, Appended
  <1> HIDE DEF n
  <1> QED
    BY <1>2 DEF HasResult

\* An entry of the slice or of the channel names a task and a code.
LEMMA Entry ==
    ASSUME NEW s \in Seq(ResultSet), NEW i \in DOMAIN s
    PROVE  s[i].task \in Task /\ s[i].code \in Codes
  <1>1. s[i] \in ResultSet
    OBVIOUS
  <1> QED
    BY <1>1 DEF ResultSet

\* Every step keeps each result true and reported once.
LEMMA ReportsStep ==
    ASSUME IInv, [Next]_vars
    PROVE  Reports'
  <1>0. /\ results \in Seq(ResultSet) /\ resultsCh \in Seq(ResultSet)
        /\ pc \in [Task -> Places] /\ outcome \in [Task -> Codes \cup {NoOutcome}]
        /\ Reports
    BY DEF IInv, TypeOK
  <1>a. /\ \A i \in DOMAIN results : results[i].task \in Task
        /\ \A i \in DOMAIN resultsCh : resultsCh[i].task \in Task
    BY <1>0, Entry
  <1>b. pc \in [Task -> Places] /\ outcome \in [Task -> Codes \cup {NoOutcome}]
    BY <1>0
  <1>1. ASSUME NEW t \in Task, SkipTask(t) \/ CancelTask(t)
        PROVE  Reports'
    <2>1. PICK code \in Codes : /\ code # 0
                                /\ results' = Append(results, Result(t, code))
      BY <1>1, Arguments DEF SkipTask, CancelTask, Record, Codes
    <2>2. pc[t] = "none" /\ ~HasResult(t) /\ ~InChannel(t) /\ ~Sent(t)
      BY <1>1, AtTaskFresh DEF SkipTask, CancelTask
    <2>3. UNCHANGED <<resultsCh, pc, outcome, panicked>>
      BY <1>1 DEF SkipTask, CancelTask, Record, workerVars
    <2>4. Result(t, code) \in ResultSet /\ Result(t, code).task = t
          /\ Result(t, code).code = code
      BY <2>1 DEF Result, ResultSet
    <2>5. \A u : Sent(u)' <=> Sent(u)
      BY <2>3 DEF Sent
    <2>6. \A u \in Task : Sent(u)' => HasResult(u)' \/ InChannel(u)'
      BY <1>0, <2>1, <2>3, <2>4, <2>5, HasResultStep DEF Reports, InChannel
    <2> QED
      BY <1>0, <2>1, <2>2, <2>3, <2>4, <2>5, <2>6, Appended
         DEF Reports, HasResult, InChannel
  <1>2. ASSUME NEW t \in Task, SpawnTask(t)
        PROVE  Reports'
    <2>1. ~HasResult(t) /\ ~InChannel(t) /\ ~Sent(t)
      BY <1>2, AtTaskFresh DEF SpawnTask
    <2>2. /\ UNCHANGED <<results, resultsCh, outcome, panicked>>
          /\ \A u \in Task : u # t => pc'[u] = pc[u]
          /\ pc'[t] = "acquire"
      BY <1>0, <1>2 DEF SpawnTask
    <2>3. \A u \in Task : Sent(u)' <=> Sent(u)
      BY <2>1, <2>2 DEF Sent
    <2> QED
      BY <1>0, <1>a, <2>1, <2>2, <2>3 DEF Reports, HasResult, InChannel
  <1>3. CASE CollectResult
    <2> DEFINE r == Head(resultsCh)
    <2>1. /\ r \in ResultSet /\ r = resultsCh[1] /\ 1 \in DOMAIN resultsCh
          /\ results' = Append(results, r)
      BY <1>0, <1>3 DEF CollectResult
    <2>2. /\ DOMAIN resultsCh' \subseteq DOMAIN resultsCh
          /\ \A i \in DOMAIN resultsCh' :
               i + 1 \in DOMAIN resultsCh /\ resultsCh'[i] = resultsCh[i + 1]
          /\ \A i \in DOMAIN resultsCh :
               i # 1 => i - 1 \in DOMAIN resultsCh' /\ resultsCh'[i - 1] = resultsCh[i]
          /\ DOMAIN resultsCh' \subseteq Nat \ {0}
      BY <1>0, <1>3 DEF CollectResult
    <2>3. UNCHANGED <<pc, outcome, panicked>>
      BY <1>3 DEF CollectResult, workerVars
    <2>4. \A u : Sent(u)' <=> Sent(u)
      BY <2>3 DEF Sent
    <2>5. /\ Sent(r.task) /\ r.code = outcome[r.task]
          /\ \A i \in DOMAIN results : results[i].task # r.task
          /\ \A i \in DOMAIN resultsCh' : resultsCh'[i].task # r.task
      BY <1>0, <2>1, <2>2 DEF Reports
    <2>6. \A u \in Task : Sent(u)' => HasResult(u)' \/ InChannel(u)'
      <3> SUFFICES ASSUME NEW u \in Task, Sent(u), ~HasResult(u)'
                   PROVE  InChannel(u)'
        BY <2>4
      <3>1. ~HasResult(u) /\ u # r.task
        BY <2>1, HasResultStep
      <3>2. PICK i \in DOMAIN resultsCh : resultsCh[i].task = u
        BY <1>0, <3>1 DEF Reports, InChannel
      <3> QED
        BY <2>1, <2>2, <3>1, <3>2 DEF InChannel
    <2>7. \A i, j \in DOMAIN resultsCh' :
             resultsCh'[i].task = resultsCh'[j].task => i = j
      <3> SUFFICES ASSUME NEW i \in DOMAIN resultsCh', NEW j \in DOMAIN resultsCh',
                          resultsCh'[i].task = resultsCh'[j].task
                   PROVE  i = j
        OBVIOUS
      <3>1. i + 1 = j + 1
        BY <1>0, <2>2 DEF Reports
      <3> QED
        BY <2>2, <3>1
    <2>8. \A i \in DOMAIN resultsCh' :
             /\ Sent(resultsCh'[i].task)
             /\ resultsCh'[i].code = outcome[resultsCh'[i].task]
             /\ \A j \in DOMAIN results : results[j].task # resultsCh'[i].task
      BY <1>0, <2>2 DEF Reports
    <2> HIDE DEF r
    <2> QED
      BY <1>0, <2>1, <2>3, <2>4, <2>5, <2>6, <2>7, <2>8, Appended DEF Reports
  <1>4. ASSUME NEW t \in Task,
               AcquireSlot(t) \/ StartWork(t) \/ RunReturns(t) \/ RunPanics(t)
        PROVE  Reports'
    <2>1. pc[t] # "none" /\ ~Sent(t)
      BY <1>4 DEF AcquireSlot, StartWork, RunReturns, RunPanics, Sent
    <2>2. ~HasResult(t) /\ ~InChannel(t)
      BY <2>1, NotReported
    <2>3. /\ UNCHANGED <<results, resultsCh>>
          /\ \A u \in Task : u # t => /\ pc'[u] = pc[u] /\ outcome'[u] = outcome[u]
                                      /\ (u \in panicked' <=> u \in panicked)
          /\ pc'[t] \in {"start", "run", "send"} \/ (pc'[t] = "close" /\ t \in panicked')
      <3>1. CASE AcquireSlot(t)
        BY <1>b, <3>1 DEF AcquireSlot, Goto, mainVars
      <3>2. CASE StartWork(t)
        BY <1>b, <3>2 DEF StartWork, Goto, mainVars
      <3>3. CASE RunReturns(t)
        BY <1>b, <3>3 DEF RunReturns, Goto, mainVars
      <3>4. CASE RunPanics(t)
        BY <1>b, <3>4 DEF RunPanics, Goto, mainVars
      <3> QED
        BY <1>4, <3>1, <3>2, <3>3, <3>4
    <2>4. \A u \in Task : Sent(u)' <=> Sent(u)
      BY <2>1, <2>3 DEF Sent
    <2> QED
      BY <1>0, <1>a, <2>2, <2>3, <2>4 DEF Reports, HasResult, InChannel
  <1>5. ASSUME NEW t \in Task, AcquireCancelled(t) \/ SendResult(t) \/ Recover(t)
        PROVE  Reports'
    <2>1. pc[t] # "none" /\ ~Sent(t)
      BY <1>5 DEF AcquireCancelled, SendResult, Recover, Sent
    <2>2. ~HasResult(t) /\ ~InChannel(t)
      BY <2>1, NotReported
    <2>3. /\ UNCHANGED <<results, panicked>>
          /\ \A u \in Task : u # t => pc'[u] = pc[u] /\ outcome'[u] = outcome[u]
          /\ pc'[t] = "wgdone" \/ (pc'[t] = "close" /\ t \notin panicked)
          /\ outcome'[t] \in Codes
          /\ resultsCh' = Append(resultsCh, Result(t, outcome'[t]))
      <3>1. CASE AcquireCancelled(t)
        <4>1. outcome' = [outcome EXCEPT ![t] = CancelCode(ctx)]
          BY <3>1 DEF AcquireCancelled
        <4>2. outcome'[t] = CancelCode(ctx) /\ outcome'[t] \in Codes
          BY <1>b, <4>1, Arguments
        <4>3. resultsCh' = Append(resultsCh, Result(t, CancelCode(ctx)))
          BY <3>1 DEF AcquireCancelled, Send
        <4>4. pc' = [pc EXCEPT ![t] = "wgdone"] /\ UNCHANGED <<results, panicked>>
          BY <3>1 DEF AcquireCancelled, Goto, mainVars
        <4> QED
          BY <1>b, <4>1, <4>2, <4>3, <4>4
      <3>2. CASE SendResult(t) \/ Recover(t)
        <4>1. outcome[t] # NoOutcome /\ (pc[t] = "send" => t \notin panicked)
          BY <3>2 DEF SendResult, Recover, IInv, Outcomes
        <4>2. CASE SendResult(t)
          BY <1>b, <4>1, <4>2 DEF SendResult, Goto, Send, mainVars
        <4>3. CASE Recover(t)
          BY <1>b, <4>1, <4>3 DEF Recover, Goto, Send, mainVars
        <4> QED
          BY <3>2, <4>2, <4>3
      <3> QED
        BY <1>5, <3>1, <3>2
    <2>4. Sent(t)' /\ \A u \in Task : u # t => (Sent(u)' <=> Sent(u))
      BY <2>3 DEF Sent
    <2>5. /\ Result(t, outcome'[t]) \in ResultSet
          /\ Result(t, outcome'[t]).task = t
          /\ Result(t, outcome'[t]).code = outcome'[t]
      BY <2>3 DEF Result, ResultSet
    <2>6. InChannel(t)' /\ \A u : InChannel(u) => InChannel(u)'
      BY <1>0, <2>3, <2>5, Appended DEF InChannel
    <2>7. \A u \in Task : Sent(u)' => HasResult(u)' \/ InChannel(u)'
      BY <1>0, <2>3, <2>4, <2>6 DEF Reports, HasResult
    <2>8. \A i \in DOMAIN results : results[i].task \in Task /\ results[i].task # t
      BY <1>a, <2>2 DEF HasResult
    <2>9. \A i \in DOMAIN resultsCh : resultsCh[i].task \in Task /\ resultsCh[i].task # t
      BY <1>a, <2>2 DEF InChannel
    <2> QED
      BY <1>0, <2>3, <2>4, <2>5, <2>7, <2>8, <2>9, Appended DEF Reports
  <1>6. ASSUME NEW t \in Task,
               CloseLog(t) \/ Retire(t) \/ ReleaseSlot(t) \/ WgDone(t)
        PROVE  Reports'
    <2>1. /\ UNCHANGED <<results, resultsCh, outcome, panicked>>
          /\ pc[t] # "none" /\ pc'[t] # "none"
          /\ \A u \in Task : u # t => pc'[u] = pc[u]
          /\ Sent(t)' <=> Sent(t)
      BY <1>0, <1>6 DEF CloseLog, Retire, ReleaseSlot, WgDone, Goto, mainVars, Sent
    <2>2. \A u \in Task : Sent(u)' <=> Sent(u)
      BY <2>1 DEF Sent
    <2> QED
      BY <1>0, <1>a, <2>1, <2>2 DEF Reports, HasResult, InChannel
  <1>7. CASE \/ LayerSpawned \/ WaitReturns \/ NextLayer \/ Return
             \/ CancelContext \/ UNCHANGED vars
    <2>1. UNCHANGED <<results, resultsCh, pc, outcome, panicked>>
      BY <1>7 DEF LayerSpawned, WaitReturns, NextLayer, Return, CancelContext, vars,
                  mainVars, workerVars
    <2> QED
      BY <1>0, <2>1 DEF Reports, Sent, HasResult, InChannel
  <1> QED
    BY <1>1, <1>2, <1>3, <1>4, <1>5, <1>6, <1>7, Steps

\* Steps of a task's goroutine: it exists, has not finished, and still exists
\* after the step; nothing of the main goroutine changes.
GoroutineStep(t) ==
    /\ pc[t] \notin {"none", "done"} /\ pc'[t] # "none"
    /\ \A u \in Task : u # t => pc'[u] = pc[u]
    /\ UNCHANGED <<planVars, mainVars>>

\* Every step of a task's goroutine is such a step.
LEMMA WorkerSteps ==
    ASSUME IInv, NEW t \in Task, Worker(t)
    PROVE  GoroutineStep(t)
  <1>1. pc \in [Task -> Places]
    BY DEF IInv, TypeOK
  <1>2. UNCHANGED <<planVars, mainVars>>
    BY DEF Worker, AcquireSlot, AcquireCancelled, StartWork, RunReturns, RunPanics,
           SendResult, CloseLog, Retire, ReleaseSlot, Recover, WgDone
  <1>3. /\ pc[t] \notin {"none", "done"}
        /\ \E place \in Places \ {"none"} : Goto(t, place)
    BY DEF Worker, AcquireSlot, AcquireCancelled, StartWork, RunReturns, RunPanics,
           SendResult, CloseLog, Retire, ReleaseSlot, Recover, WgDone, Places
  <1> QED
    BY <1>1, <1>2, <1>3 DEF GoroutineStep, Goto

\* The same steps, as the main goroutine's and the others'.
LEMMA MainSteps ==
    ASSUME IInv, Next
    PROVE  \/ \E t \in Task : SkipTask(t) \/ CancelTask(t)
           \/ \E t \in Task : SpawnTask(t)
           \/ LayerSpawned \/ WaitReturns \/ CollectResult \/ NextLayer \/ Return
           \/ \E t \in Task : GoroutineStep(t)
           \/ UNCHANGED <<planVars, mainVars, pc>>
  BY WorkerSteps DEF Next, Main, Terminated, CancelContext, vars, workerVars

\* A recorded task gets a failing result; a collected one, its channel's.
LEMMA RecordedResult ==
    ASSUME IInv, NEW t \in Task, SkipTask(t) \/ CancelTask(t)
    PROVE  \E r \in ResultSet :
             /\ r.task = t /\ r.code # 0
             /\ results' = Append(results, r) /\ failed' = failed \cup {t}
  <1>1. PICK code \in Codes :
             /\ code # 0
             /\ results' = Append(results, Result(t, code))
             /\ failed' = failed \cup {t}
    BY Arguments DEF SkipTask, CancelTask, Record, Codes
  <1>2. /\ Result(t, code) \in ResultSet
        /\ Result(t, code).task = t /\ Result(t, code).code = code
    BY DEF Result, ResultSet
  <1> QED
    BY <1>1, <1>2

\* The result collected is that of a task that sent it and had none in the slice.
LEMMA CollectedResult ==
    ASSUME IInv, CollectResult
    PROVE  \E r \in ResultSet :
             /\ results' = Append(results, r)
             /\ failed' = IF r.code # 0 THEN failed \cup {r.task} ELSE failed
             /\ Sent(r.task) /\ ~HasResult(r.task) /\ r.task \in Task
             /\ r.code = outcome[r.task]
  <1> DEFINE r == Head(resultsCh)
  <1>1. resultsCh \in Seq(ResultSet) /\ resultsCh # <<>>
    BY DEF IInv, TypeOK, CollectResult
  <1>2. 1 \in DOMAIN resultsCh /\ r = resultsCh[1] /\ r \in ResultSet
    BY <1>1
  <1>3. r.task \in Task
    BY <1>1, <1>2, Entry
  <1>4. Sent(r.task) /\ ~HasResult(r.task) /\ r.code = outcome[r.task]
    BY <1>2 DEF IInv, Reports, HasResult
  <1> QED
    BY <1>2, <1>3, <1>4 DEF CollectResult

\* Every step keeps the failed map equal to the tasks with a failing result.
LEMMA FailedMapStep ==
    ASSUME IInv, [Next]_vars
    PROVE  FailedMap'
  <1>0. results \in Seq(ResultSet) /\ FailedMap
    BY DEF IInv, TypeOK
  <1>1. ASSUME NEW t \in Task, SkipTask(t) \/ CancelTask(t)
        PROVE  FailedMap'
    <2>1. PICK r \in ResultSet :
             /\ r.task = t /\ r.code # 0
             /\ results' = Append(results, r) /\ failed' = failed \cup {t}
      BY <1>1, RecordedResult
    <2> DEFINE n == Len(results) + 1
    <2>2. /\ DOMAIN results' = DOMAIN results \cup {n}
          /\ \A i \in DOMAIN results : results'[i] = results[i]
          /\ results'[n] = r
      BY <1>0, <2>1, Appended
    <2> HIDE DEF n
    <2> QED
      BY <1>0, <2>1, <2>2 DEF FailedMap
  <1>2. CASE CollectResult
    <2>1. PICK r \in ResultSet :
             /\ results' = Append(results, r)
             /\ failed' = IF r.code # 0 THEN failed \cup {r.task} ELSE failed
      BY <1>2, CollectedResult
    <2> DEFINE n == Len(results) + 1
    <2>2. /\ DOMAIN results' = DOMAIN results \cup {n}
          /\ \A i \in DOMAIN results : results'[i] = results[i]
          /\ results'[n] = r
      BY <1>0, <2>1, Appended
    <2> HIDE DEF n
    <2> QED
      BY <1>0, <2>1, <2>2 DEF FailedMap
  <1>3. ASSUME UNCHANGED <<results, failed>>
        PROVE  FailedMap'
    BY <1>0, <1>3 DEF FailedMap
  <1>4. CASE \/ \E t \in Task : SpawnTask(t)
             \/ LayerSpawned \/ WaitReturns \/ NextLayer \/ Return
             \/ \E t \in Task : GoroutineStep(t)
             \/ UNCHANGED <<planVars, mainVars, pc>>
    BY <1>3, <1>4 DEF SpawnTask, LayerSpawned, WaitReturns, NextLayer, Return,
                      GoroutineStep, mainVars
  <1>5. CASE UNCHANGED vars
    BY <1>3, <1>5 DEF vars, mainVars
  <1> QED
    BY <1>1, <1>2, <1>4, <1>5, MainSteps

\* With nothing in flight the WaitGroup is at zero, and the other way round.
LEMMA NothingInFlight ==
    ASSUME IInv, wg = 0
    PROVE  \A t \in Task : pc[t] \in {"none", "done"}
  <1>1. InFlight \in SUBSET Task /\ Cardinality(InFlight) = 0
    BY DEF IInv, Counters, InFlight
  <1>2. InFlight = {}
    BY <1>1, TasksFinite, FS_EmptySet
  <1> QED
    BY <1>2 DEF InFlight

\* With nothing left to collect, every goroutine's result is collected.
LEMMA NothingOutstanding ==
    ASSUME IInv, executed = 0
    PROVE  \A t \in Task : pc[t] # "none" => HasResult(t)
  <1>1. Outstanding \in SUBSET Task /\ Cardinality(Outstanding) = 0
    BY DEF IInv, Executed, Outstanding
  <1>2. Outstanding = {}
    BY <1>1, TasksFinite, FS_EmptySet
  <1> QED
    BY <1>2 DEF Outstanding

\* Every step keeps executed equal to the number of results to collect.
LEMMA ExecutedStep ==
    ASSUME IInv, [Next]_vars
    PROVE  Executed'
  <1>0. Executed /\ pc \in [Task -> Places] /\ Outstanding \in SUBSET Task
    BY DEF IInv, TypeOK, Outstanding
  <1>1. ASSUME NEW t \in Task, SkipTask(t) \/ CancelTask(t)
        PROVE  Executed'
    <2>1. \A u : HasResult(u)' <=> HasResult(u) \/ u = t
      BY <1>1, RecordedResult, HasResultStep
    <2>2. pc[t] = "none" /\ UNCHANGED <<pc, executed>>
      BY <1>1, AtTaskFresh DEF SkipTask, CancelTask, Record, workerVars
    <2>3. Outstanding' = Outstanding
      BY <2>1, <2>2 DEF Outstanding
    <2> QED
      BY <1>0, <2>2, <2>3 DEF Executed
  <1>2. ASSUME NEW t \in Task, SpawnTask(t)
        PROVE  Executed'
    <2>1. pc[t] = "none" /\ ~HasResult(t)
      BY <1>2, AtTaskFresh DEF SpawnTask
    <2>2. /\ pc' = [pc EXCEPT ![t] = "acquire"]
          /\ executed' = executed + 1 /\ results' = results
      BY <1>2 DEF SpawnTask
    <2>3. \A u : HasResult(u)' <=> HasResult(u)
      BY <2>2 DEF HasResult
    <2>4. Outstanding' = Outstanding \cup {t} /\ t \notin Outstanding
      BY <1>0, <2>1, <2>2, <2>3 DEF Outstanding
    <2> QED
      BY <1>0, <2>2, <2>4, AddTask DEF Executed
  <1>3. CASE CollectResult
    <2>1. PICK r \in ResultSet :
             /\ results' = Append(results, r)
             /\ Sent(r.task) /\ ~HasResult(r.task) /\ r.task \in Task
      BY <1>3, CollectedResult
    <2>2. \A u : HasResult(u)' <=> HasResult(u) \/ u = r.task
      BY <2>1, HasResultStep
    <2>3. pc[r.task] # "none"
      BY <2>1 DEF Sent
    <2>4. UNCHANGED pc /\ executed' = executed - 1
      BY <1>3 DEF CollectResult, workerVars
    <2>5. Outstanding' = Outstanding \ {r.task} /\ r.task \in Outstanding
      BY <2>1, <2>2, <2>3, <2>4 DEF Outstanding
    <2> QED
      BY <1>0, <2>4, <2>5, RemoveTask DEF Executed
  <1>4. ASSUME UNCHANGED <<results, executed>>,
               \A t \in Task : pc'[t] = "none" <=> pc[t] = "none"
        PROVE  Executed'
    <2>1. \A u : HasResult(u)' <=> HasResult(u)
      BY <1>4 DEF HasResult
    <2>2. Outstanding' = Outstanding
      BY <1>4, <2>1 DEF Outstanding
    <2> QED
      BY <1>0, <1>4, <2>2 DEF Executed
  <1>5. ASSUME NEW t \in Task, GoroutineStep(t)
        PROVE  Executed'
    <2>1. \A u \in Task : pc'[u] = "none" <=> pc[u] = "none"
      BY <1>5 DEF GoroutineStep
    <2>2. UNCHANGED <<results, executed>>
      BY <1>5 DEF GoroutineStep, mainVars
    <2> QED
      BY <1>4, <2>1, <2>2
  <1>6. CASE LayerSpawned \/ WaitReturns \/ NextLayer \/ Return
    BY <1>4, <1>6 DEF LayerSpawned, WaitReturns, NextLayer, Return, workerVars
  <1>7. CASE UNCHANGED <<planVars, mainVars, pc>> \/ UNCHANGED vars
    BY <1>4, <1>7 DEF vars, mainVars, workerVars
  <1> QED
    BY <1>1, <1>2, <1>3, <1>5, <1>6, <1>7, MainSteps

\* Every task has one place in the plan, and dependencies stand before it.
LEMMA PlanFacts ==
    ASSUME IInv
    PROVE  /\ \A m, n \in DOMAIN layers :
                \A i \in DOMAIN layers[m], j \in DOMAIN layers[n] :
                    layers[m][i] = layers[n][j] => m = n /\ i = j
           /\ \A n \in DOMAIN layers : \A i \in DOMAIN layers[n] :
                /\ layers[n][i] \in Task
                /\ \A d \in deps[layers[n][i]] : \E m \in DOMAIN layers :
                     m < n /\ \E j \in DOMAIN layers[m] : layers[m][j] = d
           /\ \A t \in Task : \E n \in DOMAIN layers :
                \E i \in DOMAIN layers[n] : layers[n][i] = t
           /\ DOMAIN layers \subseteq Nat \ {0}
           /\ \A n \in DOMAIN layers : DOMAIN layers[n] = 1..Len(layers[n])
                                       /\ Len(layers[n]) \in Nat
           /\ DOMAIN layers = 1..Len(layers) /\ Len(layers) \in Nat
  <1>1. layers \in Seq(Seq(Task))
    BY DEF IInv, TypeOK
  <1>2. DOMAIN layers = 1..Len(layers) /\ Len(layers) \in Nat
    BY <1>1
  <1>3. \A n \in DOMAIN layers : layers[n] \in Seq(Task)
    BY <1>1
  <1>4. \A n \in DOMAIN layers : /\ DOMAIN layers[n] = 1..Len(layers[n])
                                 /\ Len(layers[n]) \in Nat
                                 /\ \A i \in DOMAIN layers[n] : layers[n][i] \in Task
    BY <1>3
  <1>a. Planned
    BY DEF IInv
  <1>b. \A n \in DOMAIN layers : \A i \in DOMAIN layers[n] :
             \A d \in deps[layers[n][i]] :
                 \E m \in 1..(n - 1) : \E j \in DOMAIN layers[m] : layers[m][j] = d
    BY <1>a DEF Planned, Layered
  <1>5. ASSUME NEW n \in DOMAIN layers, NEW i \in DOMAIN layers[n],
               NEW d \in deps[layers[n][i]]
        PROVE  \E m \in DOMAIN layers :
                 m < n /\ \E j \in DOMAIN layers[m] : layers[m][j] = d
    <2>1. PICK m \in 1..(n - 1) : \E j \in DOMAIN layers[m] : layers[m][j] = d
      BY <1>b
    <2>2. m \in DOMAIN layers /\ m < n
      BY <1>2
    <2> QED
      BY <2>1, <2>2
  <1> QED
    BY <1>2, <1>4, <1>5, <1>a DEF Planned, Layered

\* A step of the main goroutine past task t at place (cur, idx), after which t
\* has a result or a goroutine.
LEMMA PastTask ==
    ASSUME IInv, NEW t \in Task, AtTask(t),
           idx' = idx + 1, UNCHANGED <<planVars, main, cur>>,
           HasResult(t)' \/ pc'[t] # "none",
           \A u \in Task : u # t => (HasResult(u)' <=> HasResult(u)) /\ pc'[u] = pc[u]
    PROVE  Position'
  <1>1. /\ cur \in DOMAIN layers /\ idx \in DOMAIN layers[cur]
        /\ t = layers[cur][idx] /\ main = "spawn"
    BY DEF AtTask
  <1>2. cur \in Nat \ {0} /\ idx \in Nat \ {0}
    BY DEF IInv, Position
  <1>3. ASSUME NEW n \in DOMAIN layers, NEW i \in DOMAIN layers[n],
               NEW u \in Task, u = layers[n][i]
        PROVE  /\ n < cur => HasResult(u)' /\ pc'[u] \in {"none", "done"}
               /\ n > cur \/ (n = cur /\ i >= idx + 1)
                     => ~HasResult(u)' /\ pc'[u] = "none"
               /\ n = cur /\ i < idx + 1 => HasResult(u)' \/ pc'[u] # "none"
    <2>1. n \in Nat /\ i \in Nat
      BY PlanFacts
    <2>2. CASE u = t
      <3>1. \A m, k \in DOMAIN layers :
                \A x \in DOMAIN layers[m], y \in DOMAIN layers[k] :
                    layers[m][x] = layers[k][y] => m = k /\ x = y
        BY PlanFacts
      <3>a. layers[n][i] = layers[cur][idx] /\ cur \in DOMAIN layers
            /\ idx \in DOMAIN layers[cur]
        BY <1>1, <1>3, <2>2
      <3>2. n = cur /\ i = idx
        BY <3>1, <3>a
      <3> QED
        BY <1>2, <2>2, <3>2
    <2>3. CASE u # t
      <3>1. (HasResult(u)' <=> HasResult(u)) /\ pc'[u] = pc[u]
        BY <2>3
      <3>2. n = cur => i # idx
        BY <1>1, <1>3, <2>3
      <3>3. /\ n < cur => HasResult(u) /\ pc[u] \in {"none", "done"}
            /\ n > cur \/ (n = cur /\ i >= idx) => ~HasResult(u) /\ pc[u] = "none"
            /\ n = cur /\ i < idx => HasResult(u) \/ pc[u] # "none"
        BY <1>3 DEF IInv, Position
      <3> QED
        BY <1>2, <2>1, <3>1, <3>2, <3>3
    <2> QED
      BY <2>2, <2>3
  <1>4. UNCHANGED <<layers, main, cur>>
    BY DEF planVars
  <1>5. \A n \in DOMAIN layers : \A i \in DOMAIN layers[n] : layers[n][i] \in Task
    BY PlanFacts
  <1> QED
    BY <1>1, <1>2, <1>3, <1>4, <1>5 DEF Position

\* Every step keeps what lies behind and ahead of the main goroutine.
LEMMA PositionStep ==
    ASSUME IInv, [Next]_vars
    PROVE  Position'
  <1>0. /\ Position /\ pc \in [Task -> Places] /\ UNCHANGED <<deps, layers>>
        /\ cur \in Nat \ {0} /\ idx \in Nat \ {0}
    BY PlannedStep DEF IInv, TypeOK, Position, planVars
  <1>1. ASSUME NEW t \in Task, SkipTask(t) \/ CancelTask(t)
        PROVE  Position'
    <2>1. \A u : HasResult(u)' <=> HasResult(u) \/ u = t
      BY <1>1, RecordedResult, HasResultStep
    <2>2. /\ AtTask(t) /\ idx' = idx + 1 /\ UNCHANGED <<planVars, main, cur, pc>>
      BY <1>1 DEF SkipTask, CancelTask, Record, workerVars
    <2> QED
      BY <2>1, <2>2, PastTask
  <1>2. ASSUME NEW t \in Task, SpawnTask(t)
        PROVE  Position'
    <2>1. /\ AtTask(t) /\ idx' = idx + 1 /\ UNCHANGED <<planVars, main, cur, results>>
          /\ pc' = [pc EXCEPT ![t] = "acquire"]
      BY <1>2 DEF SpawnTask
    <2>2. \A u : HasResult(u)' <=> HasResult(u)
      BY <2>1 DEF HasResult
    <2>3. pc'[t] # "none" /\ \A u \in Task : u # t => pc'[u] = pc[u]
      BY <1>0, <2>1
    <2> QED
      BY <2>1, <2>2, <2>3, PastTask
  <1>3. CASE LayerSpawned \/ WaitReturns
    <2>1. /\ UNCHANGED <<cur, idx, results, pc>>
          /\ main' \in {"wait", "collect"}
          /\ cur \in DOMAIN layers /\ idx \notin DOMAIN layers[cur]
      BY <1>0, <1>3 DEF LayerSpawned, WaitReturns, Position, workerVars
    <2>2. main' = "collect" => \A t \in Task : pc[t] \in {"none", "done"}
      BY <1>3, NothingInFlight DEF LayerSpawned, WaitReturns
    <2>3. \A u : HasResult(u)' <=> HasResult(u)
      BY <2>1 DEF HasResult
    <2> QED
      BY <1>0, <2>1, <2>2, <2>3 DEF Position
  <1>4. CASE CollectResult
    <2>1. PICK r \in ResultSet :
             results' = Append(results, r) /\ Sent(r.task) /\ r.task \in Task
      BY <1>4, CollectedResult
    <2>2. \A u : HasResult(u)' <=> HasResult(u) \/ u = r.task
      BY <2>1, HasResultStep
    <2>3. pc[r.task] # "none"
      BY <2>1 DEF Sent
    <2>4. UNCHANGED <<main, cur, idx, pc>>
      BY <1>4 DEF CollectResult, workerVars
    <2> QED
      BY <1>0, <2>2, <2>3, <2>4 DEF Position
  <1>5. CASE NextLayer
    <2>1. /\ main = "collect" /\ main' = "spawn" /\ cur' = cur + 1 /\ idx' = 1
          /\ executed = 0 /\ UNCHANGED <<results, pc>>
      BY <1>5 DEF NextLayer, workerVars
    <2>2. \A t \in Task : pc[t] \in {"none", "done"} /\ (pc[t] # "none" => HasResult(t))
      BY <1>0, <2>1, NothingOutstanding DEF Position
    <2>3. \A u : HasResult(u)' <=> HasResult(u)
      BY <2>1 DEF HasResult
    <2>4. \A i \in DOMAIN layers[cur] : i < idx
      <3>1. cur \in DOMAIN layers /\ idx \notin DOMAIN layers[cur]
        BY <1>0, <2>1 DEF Position
      <3> QED
        BY <1>0, <3>1, PlanFacts
    <2>5. ASSUME NEW n \in DOMAIN layers, NEW i \in DOMAIN layers[n]
          PROVE  LET u == layers[n][i]
                 IN /\ n < cur + 1 => HasResult(u) /\ pc[u] \in {"none", "done"}
                    /\ n >= cur + 1 => ~HasResult(u) /\ pc[u] = "none"
      <3> DEFINE u == layers[n][i]
      <3>1. u \in Task /\ n \in Nat /\ i \in Nat \ {0}
        BY PlanFacts
      <3>2. /\ n < cur => HasResult(u)
            /\ n > cur => ~HasResult(u) /\ pc[u] = "none"
            /\ n = cur => HasResult(u) \/ pc[u] # "none"
        BY <1>0, <2>4 DEF Position
      <3> HIDE DEF u
      <3>3. pc[u] \in {"none", "done"} /\ (pc[u] # "none" => HasResult(u))
        BY <2>2, <3>1
      <3>4. /\ n < cur + 1 => HasResult(u) /\ pc[u] \in {"none", "done"}
            /\ n >= cur + 1 => ~HasResult(u) /\ pc[u] = "none"
        BY <1>0, <3>1, <3>2, <3>3
      <3> QED
        BY <3>4 DEF u
    <2>6. \A n \in DOMAIN layers : \A i \in DOMAIN layers[n] : ~(i < 1)
      BY PlanFacts
    <2> QED
      BY <1>0, <2>1, <2>3, <2>5, <2>6, PlanFacts DEF Position
  <1>6. CASE Return
    <2>1. /\ main' = "done" /\ cur \notin DOMAIN layers
          /\ UNCHANGED <<cur, idx, results, pc>>
      BY <1>6 DEF Return, workerVars
    <2>2. \A u : HasResult(u)' <=> HasResult(u)
      BY <2>1 DEF HasResult
    <2> QED
      BY <1>0, <2>1, <2>2 DEF Position
  <1>7. ASSUME NEW t \in Task, GoroutineStep(t)
        PROVE  Position'
    <2>1. /\ UNCHANGED <<main, cur, idx, results>>
          /\ pc[t] \notin {"none", "done"} /\ pc'[t] # "none"
          /\ \A u \in Task : u # t => pc'[u] = pc[u]
      BY <1>7 DEF GoroutineStep, mainVars
    <2>2. \A u : HasResult(u)' <=> HasResult(u)
      BY <2>1 DEF HasResult
    <2>3. main # "collect"
      BY <1>0, <2>1 DEF Position
    <2>4. \A n \in DOMAIN layers : \A i \in DOMAIN layers[n] : layers[n][i] \in Task
      BY PlanFacts
    <2> QED
      BY <1>0, <2>1, <2>2, <2>3, <2>4 DEF Position
  <1>8. CASE UNCHANGED <<planVars, mainVars, pc>> \/ UNCHANGED vars
    <2>1. UNCHANGED <<main, cur, idx, results, pc>>
      BY <1>8 DEF vars, mainVars, workerVars
    <2>2. \A u : HasResult(u)' <=> HasResult(u)
      BY <2>1 DEF HasResult
    <2> QED
      BY <1>0, <2>1, <2>2 DEF Position
  <1> QED
    BY <1>1, <1>2, <1>3, <1>4, <1>5, <1>6, <1>7, <1>8, MainSteps

\* A task of an earlier layer that did not fail has succeeded.
LEMMA EarlierSucceeded ==
    ASSUME IInv, NEW t \in Task, AtTask(t), ~Blocked(t), NEW d \in deps[t]
    PROVE  Succeeded(d)
  <1>1. d \in Task
    BY DEF IInv, TypeOK
  <1>2. HasResult(d)
    BY PlanFacts DEF AtTask, IInv, Position
  <1>3. PICK i \in DOMAIN results : results[i].task = d
    BY <1>2 DEF HasResult
  <1>4. results[i].code = 0
    BY <1>1, <1>3 DEF Blocked, IInv, FailedMap
  <1>5. results[i] \in ResultSet
    BY DEF IInv, TypeOK
  <1>6. results[i] = Result(d, 0)
    BY <1>3, <1>4, <1>5 DEF Result, ResultSet
  <1> QED
    BY <1>6 DEF Succeeded

\* Every step keeps a goroutine's dependencies successful.
LEMMA DependenciesStep ==
    ASSUME IInv, [Next]_vars
    PROVE  DependenciesSucceeded'
  <1>0. UNCHANGED deps /\ results \in Seq(ResultSet) /\ pc \in [Task -> Places]
    BY PlannedStep DEF planVars, IInv, TypeOK
  <1>1. ASSUME \/ UNCHANGED results
               \/ \E r \in ResultSet : results' = Append(results, r),
               NEW d, Succeeded(d)
        PROVE  Succeeded(d)'
    BY <1>0, <1>1, Appended DEF Succeeded
  <1>2. ASSUME \/ UNCHANGED results
               \/ \E r \in ResultSet : results' = Append(results, r),
               \A t \in Task : pc'[t] # "none" => pc[t] # "none"
        PROVE  DependenciesSucceeded'
    BY <1>0, <1>1, <1>2 DEF DependenciesSucceeded, IInv
  <1>3. CASE \E t \in Task : SkipTask(t) \/ CancelTask(t)
    <2>1. UNCHANGED pc
      BY <1>3 DEF SkipTask, CancelTask, Record, workerVars
    <2> QED
      BY <1>2, <1>3, <2>1, RecordedResult
  <1>4. ASSUME NEW t \in Task, SpawnTask(t)
        PROVE  DependenciesSucceeded'
    <2>1. \A d \in deps[t] : Succeeded(d)
      BY <1>4, EarlierSucceeded DEF SpawnTask
    <2>2. /\ UNCHANGED results
          /\ \A u \in Task : u # t => pc'[u] = pc[u]
      BY <1>0, <1>4 DEF SpawnTask
    <2>3. \A u \in Task : pc'[u] # "none" => \A d \in deps[u] : Succeeded(d)
      BY <2>1, <2>2 DEF IInv, DependenciesSucceeded
    <2> QED
      BY <1>0, <1>1, <2>2, <2>3 DEF DependenciesSucceeded
  <1>5. CASE CollectResult
    BY <1>2, <1>5, CollectedResult DEF CollectResult, workerVars
  <1>6. CASE LayerSpawned \/ WaitReturns \/ NextLayer \/ Return
    BY <1>2, <1>6 DEF LayerSpawned, WaitReturns, NextLayer, Return, workerVars
  <1>7. ASSUME NEW t \in Task, GoroutineStep(t)
        PROVE  DependenciesSucceeded'
    BY <1>2, <1>7 DEF GoroutineStep, mainVars
  <1>8. CASE UNCHANGED <<planVars, mainVars, pc>> \/ UNCHANGED vars
    BY <1>2, <1>8 DEF vars, mainVars, workerVars
  <1> QED
    BY <1>3, <1>4, <1>5, <1>6, <1>7, <1>8, MainSteps

-----------------------------------------------------------------------------
(* The theorems. *)

\* The invariant is inductive.
THEOREM StepInv == IInv /\ [Next]_vars => IInv'
  BY TypeStep, PlannedStep, CountersStep, OutcomesStep, ReportsStep, FailedMapStep,
     PositionStep, ExecutedStep, DependenciesStep DEF IInv

\* The invariant holds in every reachable state.
THEOREM Invariance == Spec => []IInv
  BY InitInv, StepInv, PTL DEF Spec

\* Every variable keeps its type: the counters never go below zero.
THEOREM TypeCorrect == Spec => []TypeOK
  <1>1. IInv => TypeOK
    BY DEF IInv
  <1> QED
    BY <1>1, Invariance, PTL

\* No goroutine starts before all its task's dependencies have succeeded.
THEOREM DependencyOrder == Spec => []DependenciesSucceeded
  <1>1. IInv => DependenciesSucceeded
    BY DEF IInv
  <1> QED
    BY <1>1, Invariance, PTL

\* At most WorkerLimit goroutines hold a slot, and no more count as active.
THEOREM WorkerLimitKept == Spec => []WorkerBound
  <1>1. ASSUME IInv
        PROVE  WorkerBound
    <2>1. Workers \in SUBSET Task /\ Holders \in SUBSET Task /\ Workers \subseteq Holders
      BY DEF Workers, Holders, Working, HoldsSlot
    <2>2. Cardinality(Workers) <= Cardinality(Holders)
      BY <2>1, TasksFinite, FS_Subset
    <2> QED
      BY <1>1, <2>2 DEF IInv, Counters, WorkerBound, Workers, Holders
  <1> QED
    BY <1>1, Invariance, PTL

\* A goroutine in flight belongs to the layer the main goroutine works on.
THEOREM Barrier == Spec => []LayerBarrier
  <1>1. ASSUME IInv
        PROVE  LayerBarrier
    <2> SUFFICES ASSUME NEW t \in Task, pc[t] \notin {"none", "done"}
                 PROVE  cur \in DOMAIN layers /\ t \in ToSet(layers[cur])
      BY DEF LayerBarrier
    <2>1. PICK n \in DOMAIN layers : \E i \in DOMAIN layers[n] : layers[n][i] = t
      BY <1>1, PlanFacts
    <2>2. n = cur
      BY <1>1, <2>1, PlanFacts DEF IInv, Position
    <2> QED
      BY <2>1, <2>2 DEF ToSet
  <1> QED
    BY <1>1, Invariance, PTL

\* A result is never reported twice, in the slice and the channel together.
THEOREM ReportedOnce == Spec => []OneResultEach
  <1>1. ASSUME IInv
        PROVE  OneResultEach
    <2> DEFINE all == results \o resultsCh
               k == Len(results)
    <2>1. results \in Seq(ResultSet) /\ resultsCh \in Seq(ResultSet) /\ k \in Nat
      BY <1>1 DEF IInv, TypeOK
    <2>2. ASSUME NEW i \in DOMAIN all
          PROVE  /\ i \in Nat
                 /\ i <= k => i \in DOMAIN results /\ all[i] = results[i]
                 /\ i > k => i - k \in DOMAIN resultsCh /\ all[i] = resultsCh[i - k]
      BY <2>1
    <2> HIDE DEF all, k
    <2>3. ASSUME NEW i \in DOMAIN all, NEW j \in DOMAIN all, all[i].task = all[j].task
          PROVE  i = j
      <3>1. CASE i <= k /\ j <= k
        BY <1>1, <2>2, <2>3, <3>1 DEF IInv, Reports
      <3>2. CASE i > k /\ j > k
        <4>1. i - k = j - k
          BY <1>1, <2>2, <2>3, <3>2 DEF IInv, Reports
        <4> QED
          BY <2>1, <2>2, <4>1
      <3>3. CASE (i <= k /\ j > k) \/ (i > k /\ j <= k)
        BY <1>1, <2>2, <2>3, <3>3 DEF IInv, Reports
      <3> QED
        BY <2>1, <2>2, <3>1, <3>2, <3>3
    <2> QED
      BY <2>3 DEF OneResultEach, all
  <1> QED
    BY <1>1, Invariance, PTL

\* When the function has returned every task is reported, and no goroutine, slot, log
\* or undelivered result is left.
LEMMA AtReturn ==
    ASSUME IInv, main = "done"
    PROVE  /\ \A t \in Task : HasResult(t) /\ pc[t] \in {"none", "done"}
           /\ sem = 0 /\ active = 0 /\ wg = 0
           /\ resultsCh = <<>>
           /\ openLogs = {}
  <1>1. \A n \in DOMAIN layers : n < cur
    <2>1. cur \in Nat \ {0} /\ cur \notin DOMAIN layers
      BY DEF IInv, Position
    <2>2. DOMAIN layers = 1..Len(layers) /\ Len(layers) \in Nat
      BY PlanFacts
    <2> QED
      BY <2>1, <2>2
  <1>2. ASSUME NEW t \in Task
        PROVE  HasResult(t) /\ pc[t] \in {"none", "done"}
    <2>1. PICK n \in DOMAIN layers : \E i \in DOMAIN layers[n] : layers[n][i] = t
      BY PlanFacts
    <2> QED
      BY <1>1, <2>1 DEF IInv, Position
  <1>3. InFlight = {} /\ Workers = {} /\ Holders = {}
    BY <1>2 DEF InFlight, Workers, Holders, Working, HoldsSlot
  <1>4. sem = 0 /\ active = 0 /\ wg = 0
    BY <1>3, FS_EmptySet DEF IInv, Counters
  <1>5. resultsCh = <<>>
    <2> SUFFICES ASSUME resultsCh # <<>> PROVE FALSE
      OBVIOUS
    <2>1. resultsCh \in Seq(ResultSet)
      BY DEF IInv, TypeOK
    <2>2. 1 \in DOMAIN resultsCh
      BY <2>1
    <2>3. resultsCh[1].task \in Task
      BY <2>1, <2>2, Entry
    <2> QED
      BY <1>2, <2>2, <2>3 DEF IInv, Reports, HasResult
  <1>6. openLogs = {}
    BY <1>2 DEF IInv, TypeOK, Outcomes
  <1> QED
    BY <1>2, <1>4, <1>5, <1>6

\* Whatever failed, panicked or was cancelled, the function returns with every
\* task reported, no goroutine, slot, log or undelivered result left.
THEOREM NothingLeft == Spec => []NothingLeftBehind
  <1>1. IInv => NothingLeftBehind
    BY AtReturn DEF NothingLeftBehind
  <1> QED
    BY <1>1, Invariance, PTL

\* A collected result of 0 is the outcome of its task's run.
LEMMA CollectedOutcome ==
    ASSUME IInv, NEW i \in DOMAIN results
    PROVE  /\ results[i].task \in Task /\ results[i].code \in Codes
           /\ results[i].code = 0 <=> outcome[results[i].task] = 0
  <1>1. results \in Seq(ResultSet)
    BY DEF IInv, TypeOK
  <1>2. results[i].task \in Task /\ results[i].code \in Codes
    BY <1>1, Entry DEF ResultSet
  <1>3. \/ pc[results[i].task] = "none" /\ results[i].code # 0
        \/ results[i].code = outcome[results[i].task]
    BY DEF IInv, Reports
  <1>4. pc[results[i].task] = "none" => outcome[results[i].task] = NoOutcome
    BY <1>2 DEF IInv, Outcomes
  <1> QED
    BY <1>2, <1>3, <1>4, CodesAssumption

\* The results of a finished run are one for each task, and as many of them are 0 as
\* tasks have succeeded.
LEMMA ReportComplete ==
    ASSUME IInv, main = "done"
    PROVE  /\ Len(results) = Cardinality(Task)
           /\ Cardinality({i \in DOMAIN results : results[i].code = 0}) =
                  Cardinality({t \in Task : outcome[t] = 0})
           /\ (\A t \in Task : outcome[t] = 0) <=> (\A i \in DOMAIN results : results[i].code = 0)
  <1> DEFINE n == Len(results)
             good == {i \in DOMAIN results : results[i].code = 0}
             ok == {t \in Task : outcome[t] = 0}
             taskOf == [i \in 1..n |-> results[i].task]
             okOf == [i \in good |-> results[i].task]
  <1>1. n \in Nat /\ DOMAIN results = 1..n
    BY DEF IInv, TypeOK
  <1>2. /\ \A i \in 1..n : results[i].task \in Task
        /\ \A i \in 1..n : results[i].code = 0 <=> outcome[results[i].task] = 0
    BY <1>1, CollectedOutcome
  <1>3. \A i, j \in 1..n : results[i].task = results[j].task => i = j
    BY <1>1 DEF IInv, Reports
  <1>4. \A t \in Task : \E i \in 1..n : results[i].task = t
    BY <1>1, AtReturn DEF HasResult
  <1>5. n = Cardinality(Task)
    <2>1. taskOf \in Injection(1..n, Task) /\ taskOf \in Surjection(1..n, Task)
      BY <1>2, <1>3, <1>4 DEF Injection, Surjection, IsInjective
    <2> HIDE DEF taskOf, n
    <2>2. Cardinality(1..n) = n
      BY <1>1, FS_Interval
    <2> QED
      BY <2>1, <2>2, TaskAssumption, FS_Injection
  <1>6. Cardinality(good) = Cardinality(ok)
    <2>1. okOf \in [good -> ok] /\ \A i \in good : okOf[i] = results[i].task
      BY <1>1, <1>2
    <2>2. \A i, j \in good : okOf[i] = okOf[j] => i = j
      BY <1>1, <1>3
    <2>3. \A t \in ok : \E i \in good : okOf[i] = t
      BY <1>1, <1>2, <1>4
    <2>4. IsFiniteSet(ok)
      BY TasksFinite
    <2> HIDE DEF okOf, good, ok
    <2>5. okOf \in Injection(good, ok) /\ okOf \in Surjection(good, ok)
      BY <2>1, <2>2, <2>3 DEF Injection, Surjection, IsInjective
    <2> QED
      BY <2>4, <2>5, FS_Injection
  <1>7. (\A t \in Task : outcome[t] = 0) <=> (\A i \in DOMAIN results : results[i].code = 0)
    BY <1>1, <1>2, <1>4
  <1> QED
    BY <1>5, <1>6, <1>7

\* A goroutine that has yet to send finds room in the channel: its buffer
\* holds at most one result of every other task.
THEOREM RoomToSend == Spec => []SendNeverBlocks
  <1>1. ASSUME IInv, NEW t \in Task, pc[t] \in {"acquire", "send", "recover"}
        PROVE  Len(resultsCh) < Capacity
    <2> DEFINE n == Len(resultsCh)
               others == Task \ {t}
               f == [i \in 1..n |-> resultsCh[i].task]
    <2>1. resultsCh \in Seq(ResultSet) /\ n \in Nat /\ DOMAIN resultsCh = 1..n
      BY <1>1 DEF IInv, TypeOK
    <2>2. ~Sent(t)
      BY <1>1 DEF Sent, IInv, Outcomes
    <2>3. \A i \in 1..n : resultsCh[i].task \in others
      BY <1>1, <2>1, <2>2, Entry DEF IInv, Reports
    <2>4. \A i, j \in 1..n : f[i] = f[j] => i = j
      BY <1>1, <2>1 DEF IInv, Reports
    <2>5. f \in Injection(1..n, others)
      BY <2>3, <2>4 DEF Injection, IsInjective
    <2>6. IsFiniteSet(others) /\ Cardinality(others) = Capacity - 1
          /\ Cardinality(others) \in Nat
      BY TasksFinite, RemoveTask DEF Capacity
    <2>7. Cardinality(1..n) <= Cardinality(others)
      BY <2>5, <2>6, FS_Injection
    <2>8. Cardinality(1..n) = n
      BY <2>1, FS_Interval
    <2>9. Capacity \in Nat
      BY TasksFinite DEF Capacity
    <2> QED
      BY <2>1, <2>6, <2>7, <2>8, <2>9
  <1>2. IInv => SendNeverBlocks
    BY <1>1 DEF SendNeverBlocks
  <1> QED
    BY <1>2, Invariance, PTL

-----------------------------------------------------------------------------
(* The executor implements the DAG scheduler. *)

\* A task in the failed map counts as failed, one that succeeded as ok.
LEMMA StatusFacts ==
    ASSUME IInv, NEW t \in Task
    PROVE  /\ t \in failed => StatusOf(t) = "failed"
           /\ Succeeded(t) => StatusOf(t) = "ok"
  <1>1. ASSUME t \in failed PROVE outcome[t] # 0
    <2>1. PICK i \in DOMAIN results : results[i].task = t /\ results[i].code # 0
      BY <1>1 DEF IInv, FailedMap
    <2> QED
      BY <2>1, CodesAssumption DEF IInv, Reports, Outcomes
  <1>2. ASSUME Succeeded(t) PROVE outcome[t] = 0
    <2>1. PICK i \in DOMAIN results : results[i] = Result(t, 0)
      BY <1>2 DEF Succeeded
    <2>2. results[i].task = t /\ results[i].code = 0
      BY <2>1 DEF Result
    <2> QED
      BY <2>2 DEF IInv, Reports
  <1> QED
    BY <1>1, <1>2 DEF StatusOf

\* A goroutine with no outcome yet is not in the failed map.
LEMMA UndecidedNotFailed ==
    ASSUME IInv, NEW t \in Task, pc[t] \in {"acquire", "start", "run"}
    PROVE  t \notin failed /\ outcome[t] = NoOutcome
  <1>1. ~Sent(t)
    BY DEF Sent
  <1>2. ~HasResult(t)
    BY <1>1, NotReported
  <1> QED
    BY <1>2 DEF IInv, FailedMap, HasResult, Outcomes

\* If one task's status changes in a step, the status function changes there only.
LEMMA StatusChange ==
    ASSUME NEW t \in Task, NEW new, StatusOf(t)' = new,
           \A u \in Task : u # t => StatusOf(u)' = StatusOf(u)
    PROVE  [u \in Task |-> StatusOf(u)]'
              = [[u \in Task |-> StatusOf(u)] EXCEPT ![t] = new]
  OBVIOUS

\* The executor's initial states are initial states of the DAG scheduler.
THEOREM DagInit == Init => Dag!Init
  <1> SUFFICES ASSUME Init PROVE Dag!Init
    OBVIOUS
  <1>1. deps \in [Task -> SUBSET Task]
    BY PlansAssumption DEF Init, Layered
  <1>2. \A t \in Task : StatusOf(t) = "pending"
    BY CodesAssumption DEF Init, IdleInit, StatusOf
  <1>3. (ctx # "live") = FALSE
    BY DEF Init, IdleInit
  <1> QED
    BY <1>1, <1>2, <1>3 DEF Dag!Init

\* Every step of the executor is a step of the DAG scheduler, or a stutter.
THEOREM DagStep == IInv /\ [Next]_vars => [Dag!Next]_(Dag!dagVars)
  <1> SUFFICES ASSUME IInv, [Next]_vars
               PROVE  Dag!Next \/ UNCHANGED Dag!dagVars
    OBVIOUS
  <1> DEFINE status == [u \in Task |-> StatusOf(u)]
  <1>0. /\ UNCHANGED deps /\ pc \in [Task -> Places] /\ deps \in [Task -> SUBSET Task]
        /\ outcome \in [Task -> Codes \cup {NoOutcome}] /\ 0 # NoOutcome
    BY PlannedStep, CodesAssumption DEF planVars, IInv, TypeOK
  <1>1. ASSUME UNCHANGED ctx, \A u \in Task : StatusOf(u)' = StatusOf(u)
        PROVE  UNCHANGED Dag!dagVars
    <2>1. status' = status
      BY <1>1
    <2> QED
      BY <1>0, <1>1, <2>1 DEF Dag!dagVars
  <1>2. ASSUME NEW t \in Task, SkipTask(t) \/ CancelTask(t)
        PROVE  Dag!Next
    <2>1. pc[t] = "none" /\ ~HasResult(t) /\ UNCHANGED <<ctx, pc, outcome>>
          /\ failed' = failed \cup {t}
      BY <1>2, AtTaskFresh DEF SkipTask, CancelTask, Record, workerVars
    <2>2. outcome[t] = NoOutcome /\ t \notin failed
      BY <2>1 DEF IInv, Outcomes, FailedMap, HasResult
    <2>3. StatusOf(t) = "pending" /\ StatusOf(t)' = "failed"
      BY <1>0, <2>1, <2>2 DEF StatusOf
    <2>4. \A u \in Task : u # t => StatusOf(u)' = StatusOf(u)
      BY <2>1 DEF StatusOf
    <2>5. status' = [status EXCEPT ![t] = "failed"]
      BY <2>3, <2>4, StatusChange
    <2>6. ctx # "live" \/ \E d \in deps[t] : status[d] = "failed"
      <3>1. CASE CancelTask(t)
        BY <3>1 DEF CancelTask
      <3>2. CASE SkipTask(t)
        <4>1. PICK d \in deps[t] : d \in failed
          BY <3>2 DEF SkipTask, Blocked
        <4>2. d \in Task /\ StatusOf(d) = "failed"
          BY <1>0, <4>1, StatusFacts
        <4> QED
          BY <4>1, <4>2
      <3> QED
        BY <1>2, <3>1, <3>2
    <2>7. Dag!Drop(t)
      BY <1>0, <2>1, <2>3, <2>5, <2>6 DEF Dag!Drop
    <2> QED
      BY <2>7 DEF Dag!Next
  <1>3. ASSUME NEW t \in Task, SpawnTask(t)
        PROVE  UNCHANGED Dag!dagVars
    <2>1. /\ pc[t] = "none" /\ pc' = [pc EXCEPT ![t] = "acquire"]
          /\ UNCHANGED <<ctx, outcome, failed>>
      BY <1>3, AtTaskFresh DEF SpawnTask
    <2>2. \A u \in Task : StatusOf(u)' = StatusOf(u)
      BY <1>0, <2>1 DEF StatusOf
    <2> QED
      BY <1>1, <2>1, <2>2
  <1>4. CASE CollectResult
    <2>1. PICK r \in ResultSet :
             /\ failed' = IF r.code # 0 THEN failed \cup {r.task} ELSE failed
             /\ Sent(r.task) /\ r.task \in Task /\ r.code = outcome[r.task]
      BY <1>4, CollectedResult
    <2>2. outcome[r.task] # NoOutcome
      BY <2>1 DEF Sent, IInv, Outcomes
    <2>3. UNCHANGED <<ctx, pc, outcome>>
      BY <1>4 DEF CollectResult, workerVars
    <2>4. \A u \in Task : StatusOf(u)' = StatusOf(u)
      BY <2>1, <2>2, <2>3 DEF StatusOf
    <2> QED
      BY <1>1, <2>3, <2>4
  <1>5. ASSUME NEW t \in Task, AcquireSlot(t)
        PROVE  Dag!Next
    <2>1. /\ pc[t] = "acquire" /\ pc' = [pc EXCEPT ![t] = "start"]
          /\ UNCHANGED <<ctx, outcome, failed>>
      BY <1>5 DEF AcquireSlot, Goto, mainVars
    <2>2. t \notin failed /\ outcome[t] = NoOutcome
      BY <2>1, UndecidedNotFailed
    <2>3. StatusOf(t) = "pending" /\ StatusOf(t)' = "running"
      BY <1>0, <2>1, <2>2 DEF StatusOf
    <2>4. \A u \in Task : u # t => StatusOf(u)' = StatusOf(u)
      BY <1>0, <2>1 DEF StatusOf
    <2>5. status' = [status EXCEPT ![t] = "running"]
      BY <2>3, <2>4, StatusChange
    <2>6. \A d \in deps[t] : status[d] = "ok"
      BY <1>0, <2>1, StatusFacts DEF IInv, DependenciesSucceeded
    <2>7. Dag!Start(t)
      BY <1>0, <2>1, <2>3, <2>5, <2>6 DEF Dag!Start
    <2> QED
      BY <2>7 DEF Dag!Next
  <1>6. ASSUME NEW t \in Task, AcquireCancelled(t)
        PROVE  Dag!Next
    <2>1. /\ pc[t] = "acquire" /\ ctx # "live"
          /\ outcome' = [outcome EXCEPT ![t] = CancelCode(ctx)]
          /\ pc' = [pc EXCEPT ![t] = "wgdone"]
          /\ UNCHANGED <<ctx, failed>>
      BY <1>6 DEF AcquireCancelled, Goto, mainVars
    <2>2. t \notin failed /\ outcome[t] = NoOutcome
      BY <2>1, UndecidedNotFailed
    <2>3. outcome'[t] # 0 /\ outcome'[t] # NoOutcome
      BY <1>0, <2>1, Arguments
    <2>4. StatusOf(t) = "pending" /\ StatusOf(t)' = "failed"
      BY <1>0, <2>1, <2>2, <2>3 DEF StatusOf
    <2>5. \A u \in Task : u # t => StatusOf(u)' = StatusOf(u)
      BY <1>0, <2>1 DEF StatusOf
    <2>6. status' = [status EXCEPT ![t] = "failed"]
      BY <2>4, <2>5, StatusChange
    <2>7. Dag!Drop(t)
      BY <1>0, <2>1, <2>4, <2>6 DEF Dag!Drop
    <2> QED
      BY <2>7 DEF Dag!Next
  <1>7. ASSUME NEW t \in Task, RunReturns(t) \/ RunPanics(t)
        PROVE  Dag!Next
    <2>1. PICK code \in Codes :
             /\ outcome' = [outcome EXCEPT ![t] = code]
             /\ pc[t] = "run" /\ UNCHANGED <<ctx, failed>>
      BY <1>7 DEF RunReturns, RunPanics, Codes, mainVars
    <2>2. t \notin failed /\ outcome[t] = NoOutcome
      BY <2>1, UndecidedNotFailed
    <2>3. \A u \in Task : u # t => pc'[u] = pc[u]
      BY <1>0, <1>7 DEF RunReturns, RunPanics, Goto
    <2>4. StatusOf(t) = "running"
      BY <1>0, <2>1, <2>2 DEF StatusOf
    <2>5. StatusOf(t)' = IF code = 0 THEN "ok" ELSE "failed"
      BY <1>0, <2>1, Arguments DEF StatusOf
    <2>6. \A u \in Task : u # t => StatusOf(u)' = StatusOf(u)
      BY <1>0, <2>1, <2>3 DEF StatusOf
    <2>7. status' = [status EXCEPT ![t] = IF code = 0 THEN "ok" ELSE "failed"]
      BY <2>5, <2>6, StatusChange
    <2>8. Dag!Finish(t)
      BY <1>0, <2>1, <2>4, <2>7 DEF Dag!Finish
    <2> QED
      BY <2>8 DEF Dag!Next
  <1>8. ASSUME NEW t \in Task,
               \/ StartWork(t) \/ SendResult(t) \/ CloseLog(t) \/ Retire(t)
               \/ ReleaseSlot(t) \/ Recover(t) \/ WgDone(t)
        PROVE  UNCHANGED Dag!dagVars
    <2>1. /\ UNCHANGED <<ctx, outcome, failed>>
          /\ pc[t] \notin {"none", "acquire"} /\ pc'[t] \notin {"none", "acquire"}
          /\ \A u \in Task : u # t => pc'[u] = pc[u]
      BY <1>0, <1>8 DEF StartWork, SendResult, CloseLog, Retire, ReleaseSlot,
                        Recover, WgDone, Goto, mainVars
    <2>2. \A u \in Task : StatusOf(u)' = StatusOf(u)
      BY <2>1 DEF StatusOf
    <2> QED
      BY <1>1, <2>1, <2>2
  <1>9. CASE CancelContext
    <2>1. ctx = "live" /\ ctx' # "live" /\ UNCHANGED <<pc, outcome, failed>>
      BY <1>9, CodesAssumption DEF CancelContext, mainVars, workerVars
    <2>2. \A u \in Task : StatusOf(u)' = StatusOf(u)
      BY <2>1 DEF StatusOf
    <2>3. status' = status
      BY <2>2
    <2>4. Dag!Stop
      BY <1>0, <2>1, <2>3 DEF Dag!Stop
    <2> QED
      BY <2>4 DEF Dag!Next
  <1>10. CASE \/ LayerSpawned \/ WaitReturns \/ NextLayer \/ Return
              \/ UNCHANGED vars
    <2>1. UNCHANGED <<ctx, pc, outcome, failed>>
      BY <1>10 DEF LayerSpawned, WaitReturns, NextLayer, Return, vars, mainVars,
                   workerVars
    <2>2. \A u \in Task : StatusOf(u)' = StatusOf(u)
      BY <2>1 DEF StatusOf
    <2> QED
      BY <1>1, <2>1, <2>2
  <1> QED
    BY <1>2, <1>3, <1>4, <1>5, <1>6, <1>7, <1>8, <1>9, <1>10, Steps

\* Every behaviour of the executor is one of the DAG scheduler: a task starts
\* only after its dependencies are ok, and is dropped only for a failed
\* dependency or a stopped run.
THEOREM Refinement == Spec => ImplementsDag
  BY DagInit, DagStep, Invariance, PTL DEF Spec, Dag!Spec, ImplementsDag

\* A task that has failed or succeeded stays so while its goroutine unwinds, its result
\* is collected, other tasks fail and the context ends, provided that the deferred calls
\* of the goroutine themselves do not panic (the model has the panic of a run only).
THEOREM VerdictsAreFinal == Spec => VerdictsStand
  <1>1. ASSUME IInv, [Next]_vars, NEW t \in Task, StatusOf(t) \in {"ok", "failed"}
        PROVE  StatusOf(t)' = StatusOf(t)
    <2> DEFINE status == [u \in Task |-> StatusOf(u)]
    <2>1. status[t] = StatusOf(t) /\ status'[t] = StatusOf(t)'
      OBVIOUS
    <2>2. [Dag!Next]_(Dag!dagVars)
      BY <1>1, DagStep
    <2>3. \/ status' = status
          \/ \E u \in Task :
                 /\ status[u] \in {"pending", "running"}
                 /\ \E new : status' = [status EXCEPT ![u] = new]
      <3>1. CASE Dag!Stop \/ UNCHANGED Dag!dagVars
        BY <3>1 DEF Dag!Stop, Dag!dagVars
      <3>2. ASSUME NEW u \in Task, Dag!Start(u)
            PROVE  status[u] = "pending" /\ status' = [status EXCEPT ![u] = "running"]
        BY <3>2 DEF Dag!Start
      <3>3. ASSUME NEW u \in Task, Dag!Finish(u)
            PROVE  status[u] = "running" /\ \E new : status' = [status EXCEPT ![u] = new]
        BY <3>3 DEF Dag!Finish
      <3>4. ASSUME NEW u \in Task, Dag!Drop(u)
            PROVE  status[u] = "pending" /\ status' = [status EXCEPT ![u] = "failed"]
        BY <3>4 DEF Dag!Drop
      <3> HIDE DEF status
      <3> QED
        BY <2>2, <3>1, <3>2, <3>3, <3>4 DEF Dag!Next
    <2> HIDE DEF status
    <2>4. ASSUME NEW u \in Task, NEW new, status[u] \in {"pending", "running"},
                 status' = [status EXCEPT ![u] = new]
          PROVE  status'[t] = status[t]
      <3>1. u # t
        BY <1>1, <2>1, <2>4
      <3> QED
        BY <2>4, <3>1
    <2> QED
      BY <2>1, <2>3, <2>4
  <1>2. IInv /\ [Next]_vars => [\A t \in Task : StatusOf(t) \in {"ok", "failed"} =>
                                    StatusOf(t)' = StatusOf(t)]_vars
    BY <1>1
  <1> QED
    BY <1>2, Invariance, PTL DEF Spec, VerdictsStand

=============================================================================
