--------------------------- MODULE TopologicalSort ---------------------------
(* topologicalSort (executor.go): Kahn's algorithm over the task slice. It  *)
(* counts the dependencies of every task, then takes the tasks with none    *)
(* left as a layer and relaxes each of them in order: a task whose last     *)
(* dependency is relaxed is queued for the next layer.                      *)
EXTENDS Integers, Sequences, FiniteSets, SequencesExt, Subsequences

CONSTANTS Task,      \* task ids; parseParallelConfig rejects a repeated one
          Names      \* names a dependencies line may hold, task ids or not

VARIABLES tasks,     \* the task slice TaskFile has read: every id once
          depList,   \* task -> its Dependencies slice, repetitions included
          indegree,  \* task -> dependencies not relaxed yet
          queue,     \* tasks for the next layer
          layers,    \* the layers built so far; the last one is "current"
          processed, \* how many tasks the layers hold
          pos,       \* the place in current of the next task to relax
          phase      \* "count", "relax", "done", "missing" or "cycle"

\* How often t names d, so how often t stands in adj[d].
Occurrences(t, d) == {i \in DOMAIN depList[t] : depList[t][i] = d}

Current == IF layers = <<>> THEN <<>> ELSE Last(layers)

\* The tasks of S in the order of the slice.
InOrder(S) == AtIndices(tasks, {i \in DOMAIN tasks : tasks[i] \in S})

Init ==
    /\ indegree = [t \in Task |-> 0]
    /\ queue = <<>>
    /\ layers = <<>>
    /\ processed = 0
    /\ pos = 1
    /\ phase = "count"

\* The first dependency that is no task ends the call with an error.
MissingDependency ==
    /\ phase = "count"
    /\ \E t \in Task : ~(ToSet(depList[t]) \subseteq Task)
    /\ phase' = "missing"
    /\ UNCHANGED <<tasks, depList, indegree, queue, layers, processed, pos>>

\* Both counting loops, and the first queue in the order of the slice.
CountDependencies ==
    /\ phase = "count"
    /\ \A t \in Task : ToSet(depList[t]) \subseteq Task
    /\ indegree' = [t \in Task |-> Len(depList[t])]
    /\ queue' = InOrder({t \in Task : depList[t] = <<>>})
    /\ phase' = "relax"
    /\ UNCHANGED <<tasks, depList, layers, processed, pos>>

\* Mutant: a layer counts as one processed task.
TakeLayerMiscounted ==
    /\ phase = "relax"
    /\ pos > Len(Current)
    /\ queue # <<>>
    /\ layers' = Append(layers, queue)
    /\ processed' = processed + 1
    /\ queue' = <<>>
    /\ pos' = 1
    /\ UNCHANGED <<tasks, depList, indegree, phase>>

\* Mutant: one task of the queue at a time.
TakeOneTask ==
    /\ phase = "relax"
    /\ pos > Len(Current)
    /\ queue # <<>>
    /\ layers' = Append(layers, <<Head(queue)>>)
    /\ processed' = processed + 1
    /\ queue' = Tail(queue)
    /\ pos' = 1
    /\ UNCHANGED <<tasks, depList, indegree, phase>>

\* The whole queue becomes a layer.
TakeLayer ==
    /\ phase = "relax"
    /\ pos > Len(Current)
    /\ queue # <<>>
    /\ layers' = Append(layers, queue)
    /\ processed' = processed + Len(queue)
    /\ queue' = <<>>
    /\ pos' = 1
    /\ UNCHANGED <<tasks, depList, indegree, phase>>

\* Mutant: a task nobody names is passed over before the index moves on.
RelaxStays ==
    /\ phase = "relax"
    /\ pos <= Len(Current)
    /\ LET id == Current[pos]
           left == [t \in Task |-> indegree[t] - Cardinality(Occurrences(t, id))]
       IN  /\ indegree' = left
           /\ queue' = queue \o InOrder({t \in Task : Occurrences(t, id) # {} /\ left[t] = 0})
           /\ pos' = IF left = indegree THEN pos ELSE pos + 1
    /\ UNCHANGED <<tasks, depList, layers, processed, phase>>

\* adj[id] lists the tasks that name id, in slice order: each loses one per
\* mention, and those that reach zero are queued in that order.
Relax ==
    /\ phase = "relax"
    /\ pos <= Len(Current)
    /\ LET id == Current[pos]
           left == [t \in Task |-> indegree[t] - Cardinality(Occurrences(t, id))]
       IN  /\ indegree' = left
           /\ queue' = queue \o InOrder({t \in Task : Occurrences(t, id) # {} /\ left[t] = 0})
    /\ pos' = pos + 1
    /\ UNCHANGED <<tasks, depList, layers, processed, phase>>

\* What is not processed waits on a cycle.
Finish ==
    /\ phase = "relax"
    /\ pos > Len(Current)
    /\ queue = <<>>
    /\ phase' = IF processed = Len(tasks) THEN "done" ELSE "cycle"
    /\ UNCHANGED <<tasks, depList, indegree, queue, layers, processed, pos>>

SortStep == MissingDependency \/ CountDependencies \/ TakeLayer \/ Relax \/ Finish

-----------------------------------------------------------------------------
(* Properties *)

DependsOn(t) == ToSet(depList[t])

\* Some tasks depend on one another only among themselves.
Cyclic == \E S \in SUBSET Task : S # {} /\ \A t \in S : DependsOn(t) \cap S # {}

\* The plan is returned exactly when there is one, a cycle reported exactly
\* when there is one, however often a dependency is repeated.
VerdictRight ==
    /\ phase = "done" => ~Cyclic
    /\ phase = "cycle" => Cyclic
    /\ phase = "missing" <=> \E t \in Task : ~(DependsOn(t) \subseteq Task) /\ phase # "count"

\* No task waits longer than it must: one of its dependencies stands in the layer
\* just before its own.
EarliestLayer ==
    \A n \in DOMAIN layers : n > 1 =>
        \A t \in ToSet(layers[n]) : DependsOn(t) \cap ToSet(layers[n - 1]) # {}

=============================================================================
