----------------------- MODULE TopologicalSort_proofs -----------------------
(* Theorems about TopologicalSort, for every finite set of tasks and every  *)
(* choice of their dependency lists: cyclic ones, and ones with repeated,   *)
(* self and unknown dependencies.                                           *)
EXTENDS TopologicalSort, FiniteSetTheorems, WellFoundedInduction, TLAPS

sortVars == <<tasks, depList, indegree, queue, layers, processed, pos, phase>>

\* What the task file hands over: every id once, and a dependency list for each.
Input ==
    /\ IsFiniteSet(Task)
    /\ tasks \in Seq(Task)
    /\ IsInjective(tasks)
    /\ ToSet(tasks) = Task
    /\ depList \in [Task -> Seq(Names)]

SortSpec == Input /\ Init /\ [][SortStep]_sortVars

TypeOK ==
    /\ indegree \in [Task -> Nat]
    /\ queue \in Seq(Task)
    /\ layers \in Seq(Seq(Task))
    /\ processed \in Nat
    /\ pos \in Nat \ {0}
    /\ phase \in {"count", "relax", "done", "missing", "cycle"}

Counted == phase \in {"relax", "done", "cycle"}
HasUnknown == \E t \in Task : ~(DependsOn(t) \subseteq Task)

\* Nothing is counted, placed or queued unless every dependency is a task.
Checked ==
    /\ ~Counted =>
           indegree = [t \in Task |-> 0] /\ queue = <<>> /\ layers = <<>>
               /\ processed = 0 /\ pos = 1
    /\ Counted => ~HasUnknown
    /\ phase = "missing" => HasUnknown

Placed == {t \in Task : \E n \in DOMAIN layers : \E i \in DOMAIN layers[n] : layers[n][i] = t}

\* Tasks of the layers before the current one, and those the loop has passed.
Relaxed ==
    {t \in Task : \E n \in DOMAIN layers : \E i \in DOMAIN layers[n] :
                      layers[n][i] = t /\ (n < Len(layers) \/ i < pos)}

Queued == {t \in Task : \E i \in DOMAIN queue : queue[i] = t}

\* The mentions of dependencies that are not relaxed yet.
Left(t) == {i \in DOMAIN depList[t] : depList[t][i] \notin Relaxed}

\* The counters say how much is left, and a task has a place as soon as nothing is.
Kahn ==
    Counted =>
        \A t \in Task :
            /\ indegree[t] = Cardinality(Left(t))
            /\ t \in Placed \cup Queued <=> Left(t) = {}

\* No task has two places.
Once ==
    /\ \A m, n \in DOMAIN layers : \A i \in DOMAIN layers[m], j \in DOMAIN layers[n] :
           layers[m][i] = layers[n][j] => m = n /\ i = j
    /\ \A i, j \in DOMAIN queue : queue[i] = queue[j] => i = j
    /\ Placed \cap Queued = {}
    /\ processed = Cardinality(Placed)

\* The dependencies of a task stand in the layers before its own.
Behind ==
    \A n \in DOMAIN layers : \A i \in DOMAIN layers[n] : \A d \in DependsOn(layers[n][i]) :
        \E m \in 1 .. (n - 1) : \E j \in DOMAIN layers[m] : layers[m][j] = d

\* One of them in the layer just before.
NotLate ==
    /\ EarliestLayer
    /\ layers # <<>> =>
           \A t \in Queued : DependsOn(t) \cap ToSet(Current) # {}

\* The loop ends with nothing queued and everything placed relaxed.
Ended ==
    /\ phase \in {"done", "cycle"} => queue = <<>> /\ pos > Len(Current)
    /\ phase = "done" => processed = Len(tasks)
    /\ phase = "cycle" => processed # Len(tasks)

IInv ==
    /\ Input
    /\ TypeOK
    /\ Checked
    /\ Kahn
    /\ Once
    /\ Behind
    /\ NotLate
    /\ Ended

-----------------------------------------------------------------------------
(* Lists in the order of the slice *)

\* Every set of naturals that has a member has a least one.
LEMMA Least ==
    ASSUME NEW T \in SUBSET Nat, T # {}
    PROVE  \E m \in T : \A n \in T : m <= n
  <1>1. PICK m \in T : \A n \in T : ~(<<n, m>> \in OpToRel(<, Nat))
    BY NatLessThanWellFounded, WFMin
  <1>2. \A n \in T : ~(n < m)
    BY <1>1 DEF OpToRel
  <1> QED
    BY <1>2

\* There are n numbers from 1 to n.
LEMMA UpTo ==
    ASSUME NEW n \in Nat
    PROVE  IsFiniteSet(1 .. n) /\ Cardinality(1 .. n) = n
  BY FS_Interval

\* Counting up to each of its members numbers a finite set of naturals without a gap.
LEMMA RankFacts ==
    ASSUME NEW I \in SUBSET Nat, IsFiniteSet(I)
    PROVE  /\ Cardinality(I) \in Nat
           /\ \A i \in I : Rank(I, i) \in 1 .. Cardinality(I)
           /\ \A i, j \in I : i < j => Rank(I, i) < Rank(I, j)
           /\ \A i, j \in I : Rank(I, i) = Rank(I, j) => i = j
           /\ \A k \in 1 .. Cardinality(I) : \E i \in I : Rank(I, i) = k
  <1> DEFINE upto(i) == {j \in I : j <= i}
             n == Cardinality(I)
             rank == [i \in I |-> Rank(I, i)]
  <1>1. n \in Nat
    BY FS_CardinalityType
  <1>2. ASSUME NEW i \in I
        PROVE  /\ IsFiniteSet(upto(i)) /\ Cardinality(upto(i)) \in Nat
               /\ Rank(I, i) = Cardinality(upto(i)) /\ Rank(I, i) \in 1 .. n
    <2>1. upto(i) \in SUBSET I /\ i \in upto(i)
      OBVIOUS
    <2>2. IsFiniteSet(upto(i)) /\ Cardinality(upto(i)) <= n
      BY <2>1, FS_Subset
    <2>3. Cardinality(upto(i)) \in Nat
      BY <2>2, FS_CardinalityType
    <2>4. Cardinality(upto(i)) # 0
      BY <2>1, <2>2, FS_EmptySet
    <2>5. Rank(I, i) = Cardinality(upto(i))
      BY DEF Rank
    <2> QED
      BY <1>1, <2>2, <2>3, <2>4, <2>5
  <1>3. ASSUME NEW i \in I, NEW j \in I, i < j
        PROVE  Rank(I, i) < Rank(I, j)
    <2>0. i \in Nat /\ j \in Nat /\ \A k \in I : k \in Nat
      OBVIOUS
    <2>1. upto(i) \in SUBSET upto(j) /\ j \notin upto(i) /\ j \in upto(j)
      <3>1. \A k \in I : k <= i => k <= j
        BY <1>3, <2>0
      <3>2. ~(j <= i) /\ j <= j
        BY <1>3, <2>0
      <3> QED
        BY <3>1, <3>2
    <2>2. /\ Cardinality(upto(i)) <= Cardinality(upto(j))
          /\ Cardinality(upto(j)) = Cardinality(upto(i)) => upto(j) = upto(i)
      BY <1>2, <2>1, FS_Subset
    <2> QED
      BY <1>2, <2>1, <2>2
  <1>4. ASSUME NEW i \in I, NEW j \in I, Rank(I, i) = Rank(I, j)
        PROVE  i = j
    <2>0. i \in Nat /\ j \in Nat
      OBVIOUS
    <2>1. Rank(I, i) \in Nat /\ Rank(I, j) \in Nat
      BY <1>1, <1>2
    <2>2. ~(i < j) /\ ~(j < i)
      BY <1>3, <1>4, <2>1
    <2> QED
      BY <2>0, <2>2
  <1>5. rank \in Injection(I, 1 .. n)
    <2>1. rank \in [I -> 1 .. n]
      BY <1>2
    <2> QED
      BY <1>4, <2>1 DEF Injection, IsInjective
  <1>6. rank \in Surjection(I, 1 .. n)
    <2>1. IsFiniteSet(1 .. n) /\ Cardinality(1 .. n) = n
      BY <1>1, UpTo
    <2> HIDE DEF rank, n
    <2> QED
      BY <1>5, <2>1, FS_Injection DEF n
  <1>7. \A k \in 1 .. n : \E i \in I : Rank(I, i) = k
    BY <1>6 DEF Surjection
  <1> QED
    BY <1>1, <1>2, <1>3, <1>4, <1>7

\* The elements of a slice at some indices: each of them, at the place that counts
\* those up to it, and no other.
LEMMA AtIndicesFacts ==
    ASSUME NEW S, NEW s \in Seq(S), NEW I \in SUBSET DOMAIN s
    PROVE  /\ AtIndices(s, I) \in Seq(S)
           /\ Len(AtIndices(s, I)) = Cardinality(I)
           /\ \A i \in I : /\ Rank(I, i) \in DOMAIN AtIndices(s, I)
                           /\ AtIndices(s, I)[Rank(I, i)] = s[i]
           /\ \A k \in DOMAIN AtIndices(s, I) :
                  \E i \in I : Rank(I, i) = k /\ AtIndices(s, I)[k] = s[i]
  <1> DEFINE n == Cardinality(I)
             q == AtIndices(s, I)
             filled(p) == /\ p \in [1 .. n -> {s[i] : i \in I}]
                          /\ \A i \in I : p[Rank(I, i)] = s[i]
             inverse == [k \in 1 .. n |-> CHOOSE i \in I : Rank(I, i) = k]
  <1>1. I \in SUBSET Nat /\ IsFiniteSet(I)
    <2>1. DOMAIN s = 1 .. Len(s) /\ Len(s) \in Nat
      OBVIOUS
    <2> QED
      BY <2>1, UpTo, FS_Subset
  <1>2. /\ n \in Nat
        /\ \A i \in I : Rank(I, i) \in 1 .. n
        /\ \A i, j \in I : Rank(I, i) = Rank(I, j) => i = j
        /\ \A k \in 1 .. n : \E i \in I : Rank(I, i) = k
    BY <1>1, RankFacts
  <1>3. \A k \in 1 .. n : inverse[k] \in I /\ Rank(I, inverse[k]) = k
    BY <1>2
  <1>4. \A i \in I : inverse[Rank(I, i)] = i
    BY <1>2, <1>3
  <1>5. filled([k \in 1 .. n |-> s[inverse[k]]])
    <2> HIDE DEF inverse
    <2> QED
      BY <1>2, <1>3, <1>4
  <1>6. filled(q)
    <2> HIDE DEF inverse
    <2> QED
      BY <1>5 DEF AtIndices
  <1> HIDE DEF q
  <1>7. q \in Seq(S) /\ Len(q) = n /\ DOMAIN q = 1 .. n
    <2>1. \A i \in I : s[i] \in S
      OBVIOUS
    <2>2. q \in [1 .. n -> S]
      BY <1>6, <2>1
    <2> QED
      BY <1>2, <2>2
  <1>8. \A k \in 1 .. n : \E i \in I : Rank(I, i) = k /\ q[k] = s[i]
    BY <1>2, <1>6
  <1> QED
    BY <1>2, <1>6, <1>7, <1>8 DEF q

\* Every set of tasks is finite.
LEMMA TasksFinite ==
    ASSUME Input, NEW S \in SUBSET Task
    PROVE  IsFiniteSet(S) /\ Cardinality(S) \in Nat
  BY FS_Subset, FS_CardinalityType DEF Input

\* The list the code builds by passing over the slice: the members of S, once each.
LEMMA InOrderFacts ==
    ASSUME Input, NEW S \in SUBSET Task
    PROVE  /\ InOrder(S) \in Seq(S)
           /\ \A i, j \in DOMAIN InOrder(S) : InOrder(S)[i] = InOrder(S)[j] => i = j
           /\ \A t \in S : \E i \in DOMAIN InOrder(S) : InOrder(S)[i] = t
  <1> DEFINE I == {i \in DOMAIN tasks : tasks[i] \in S}
             q == AtIndices(tasks, I)
  <1>1. /\ q \in Seq(Task)
        /\ \A i \in I : Rank(I, i) \in DOMAIN q /\ q[Rank(I, i)] = tasks[i]
        /\ \A k \in DOMAIN q : \E i \in I : Rank(I, i) = k /\ q[k] = tasks[i]
    <2>1. tasks \in Seq(Task) /\ I \in SUBSET DOMAIN tasks
      BY DEF Input
    <2> HIDE DEF I
    <2> QED
      BY <2>1, AtIndicesFacts
  <1>2. \A i, j \in I : tasks[i] = tasks[j] => i = j
    BY DEF Input, IsInjective
  <1>3. \A t \in S : \E i \in I : tasks[i] = t
    BY DEF Input, ToSet
  <1>4. \A i \in I : tasks[i] \in S
    OBVIOUS
  <1>5. InOrder(S) = q
    BY DEF InOrder
  <1> HIDE DEF q, I
  <1>6. q \in Seq(S)
    <2>1. \A k \in DOMAIN q : q[k] \in S
      BY <1>1, <1>4
    <2> QED
      BY <1>1, <2>1
  <1>7. \A k, m \in DOMAIN q : q[k] = q[m] => k = m
    BY <1>1, <1>2
  <1>8. \A t \in S : \E k \in DOMAIN q : q[k] = t
    BY <1>1, <1>3
  <1> QED
    BY <1>5, <1>6, <1>7, <1>8

-----------------------------------------------------------------------------
(* The invariant *)

\* The empty plan has no tasks.
LEMMA EmptyPlan ==
    ASSUME layers = <<>>
    PROVE  Placed = {} /\ Relaxed = {}
  BY DEF Placed, Relaxed

\* It holds when the sort is called.
THEOREM InitInv == Input /\ Init => IInv
  <1> SUFFICES ASSUME Input, Init PROVE IInv
    OBVIOUS
  <1> USE DEF Init
  <1>1. TypeOK
    BY DEF TypeOK
  <1>2. Checked
    BY DEF Checked, Counted
  <1>3. Kahn
    BY DEF Kahn, Counted
  <1>4. Once
    <2>1. Placed = {} /\ Cardinality({}) = 0
      BY EmptyPlan, FS_EmptySet
    <2> QED
      BY <2>1 DEF Once
  <1>5. Behind /\ NotLate /\ Ended
    BY DEF Behind, NotLate, EarliestLayer, Ended
  <1> QED
    BY <1>1, <1>2, <1>3, <1>4, <1>5 DEF IInv

\* The types of what a step appends.
LEMMA ListTypes ==
    ASSUME IInv
    PROVE  /\ Current \in Seq(Task)
           /\ \A t \in Task : depList[t] \in Seq(Names)
           /\ \A d : \A t \in Task : Occurrences(t, d) \in SUBSET DOMAIN depList[t]
           /\ \A t \in Task : Left(t) \in SUBSET DOMAIN depList[t]
           /\ \A t \in Task : \A S \in SUBSET DOMAIN depList[t] :
                  IsFiniteSet(S) /\ Cardinality(S) \in Nat
  <1>1. Current \in Seq(Task)
    <2>1. layers \in Seq(Seq(Task))
      BY DEF IInv, TypeOK
    <2>2. CASE layers = <<>>
      BY <2>2 DEF Current
    <2>3. CASE layers # <<>>
      <3>1. Len(layers) \in DOMAIN layers
        BY <2>1, <2>3
      <3> QED
        BY <2>1, <2>3, <3>1 DEF Current, Last
    <2> QED
      BY <2>2, <2>3
  <1>2. \A t \in Task : depList[t] \in Seq(Names)
    BY DEF IInv, Input
  <1>3. ASSUME NEW t \in Task, NEW S \in SUBSET DOMAIN depList[t]
        PROVE  IsFiniteSet(S) /\ Cardinality(S) \in Nat
    <2>1. DOMAIN depList[t] = 1 .. Len(depList[t]) /\ Len(depList[t]) \in Nat
      BY <1>2
    <2>2. IsFiniteSet(DOMAIN depList[t])
      BY <2>1, UpTo
    <2> QED
      BY <2>2, FS_Subset, FS_CardinalityType
  <1> QED
    BY <1>1, <1>2, <1>3 DEF Occurrences, Left

\* An unknown dependency ends the call before anything is counted.
LEMMA MissingStep ==
    ASSUME IInv, MissingDependency
    PROVE  IInv'
  <1> USE DEF MissingDependency
  <1>0. UNCHANGED <<tasks, depList, indegree, queue, layers, processed, pos>>
    OBVIOUS
  <1>1. Input'
    BY <1>0 DEF IInv, Input
  <1>2. TypeOK'
    BY <1>0 DEF IInv, TypeOK
  <1>3. Checked'
    BY <1>0 DEF IInv, Checked, Counted, HasUnknown, DependsOn
  <1>4. Kahn'
    BY DEF Kahn, Counted
  <1>5. Once'
    <2>1. Placed' = Placed /\ Queued' = Queued
      BY <1>0 DEF Placed, Queued
    <2> QED
      BY <1>0, <2>1 DEF IInv, Once
  <1>6. Behind'
    BY <1>0 DEF IInv, Behind, DependsOn
  <1>7. NotLate'
    <2>1. layers' = <<>>
      BY <1>0 DEF IInv, Checked, Counted
    <2> QED
      BY <2>1 DEF NotLate, EarliestLayer
  <1>8. Ended'
    BY DEF Ended
  <1> QED
    BY <1>1, <1>2, <1>3, <1>4, <1>5, <1>6, <1>7, <1>8 DEF IInv

\* At the start nothing is relaxed, and the tasks without dependencies are queued.
LEMMA CountStep ==
    ASSUME IInv, CountDependencies
    PROVE  IInv'
  <1> DEFINE free == {t \in Task : depList[t] = <<>>}
  <1>0. /\ UNCHANGED <<tasks, depList, layers, processed, pos>>
        /\ indegree' = [t \in Task |-> Len(depList[t])]
        /\ queue' = InOrder(free)
        /\ phase' = "relax"
    BY DEF CountDependencies
  <1>1. layers = <<>> /\ layers' = <<>> /\ processed' = 0
    BY <1>0 DEF CountDependencies, IInv, Checked, Counted
  <1>2. /\ queue' \in Seq(free)
        /\ \A i, j \in DOMAIN queue' : queue'[i] = queue'[j] => i = j
        /\ \A t \in free : \E i \in DOMAIN queue' : queue'[i] = t
    BY <1>0, InOrderFacts DEF IInv
  <1>3. Placed' = {} /\ Relaxed' = {}
    BY <1>1 DEF Placed, Relaxed
  <1>4. Queued' = free
    BY <1>2 DEF Queued
  <1>5. Input'
    BY <1>0 DEF IInv, Input
  <1>6. TypeOK'
    <2>1. indegree' \in [Task -> Nat]
      BY <1>0, ListTypes
    <2>2. queue' \in Seq(Task)
      BY <1>2
    <2> QED
      BY <1>0, <2>1, <2>2 DEF IInv, TypeOK
  <1>7. Checked'
    BY <1>0 DEF CountDependencies, Checked, Counted, HasUnknown, DependsOn
  <1>8. Kahn'
    <2> SUFFICES ASSUME NEW t \in Task
                 PROVE  /\ indegree'[t] = Cardinality(Left(t)')
                        /\ t \in Placed' \cup Queued' <=> Left(t)' = {}
      BY DEF Kahn
    <2>1. Left(t)' = DOMAIN depList[t]
      BY <1>0, <1>3 DEF Left
    <2>2. DOMAIN depList[t] = 1 .. Len(depList[t]) /\ Len(depList[t]) \in Nat
      BY ListTypes
    <2>3. Cardinality(1 .. Len(depList[t])) = Len(depList[t])
      BY <2>2, UpTo
    <2>4. depList[t] = <<>> <=> DOMAIN depList[t] = {}
      <3>1. depList[t] \in Seq(Names)
        BY ListTypes
      <3>2. CASE Len(depList[t]) = 0
        BY <2>2, <3>1, <3>2
      <3>3. CASE Len(depList[t]) # 0
        <4>1. 1 \in DOMAIN depList[t]
          BY <2>2, <3>3
        <4> QED
          BY <4>1
      <3> QED
        BY <3>2, <3>3
    <2> QED
      BY <1>0, <1>3, <1>4, <2>1, <2>2, <2>3, <2>4
  <1>9. Once'
    <2>1. processed' = Cardinality(Placed')
      BY <1>1, <1>3, FS_EmptySet
    <2> QED
      BY <1>1, <1>2, <1>3, <2>1 DEF Once
  <1>10. Behind' /\ NotLate'
    BY <1>1 DEF Behind, NotLate, EarliestLayer
  <1>11. Ended'
    BY <1>0 DEF Ended
  <1> QED
    BY <1>5, <1>6, <1>7, <1>8, <1>9, <1>10, <1>11 DEF IInv

\* What is placed, relaxed and queued, seen from the lists.
LEMMA SetFacts ==
    ASSUME IInv
    PROVE  /\ Relaxed \subseteq Placed
           /\ pos > Len(Current) => Relaxed = Placed
           /\ ToSet(queue) = Queued
           /\ layers # <<>> => Len(layers) \in DOMAIN layers /\ Current = layers[Len(layers)]
           /\ Placed \subseteq Task /\ IsFiniteSet(Placed)
           /\ Queued \subseteq Task /\ IsFiniteSet(Queued)
  <1>1. layers \in Seq(Seq(Task)) /\ queue \in Seq(Task) /\ pos \in Nat
    BY DEF IInv, TypeOK
  <1>2. Relaxed \subseteq Placed
    BY DEF Relaxed, Placed
  <1>3. ASSUME layers # <<>>
        PROVE  Len(layers) \in DOMAIN layers /\ Current = layers[Len(layers)]
    BY <1>1, <1>3 DEF Current, Last
  <1>4. ASSUME pos > Len(Current) PROVE Placed \subseteq Relaxed
    <2> SUFFICES ASSUME NEW t \in Placed PROVE t \in Relaxed
      OBVIOUS
    <2>1. PICK n \in DOMAIN layers : \E i \in DOMAIN layers[n] : layers[n][i] = t
      BY DEF Placed
    <2>2. PICK i \in DOMAIN layers[n] : layers[n][i] = t
      BY <2>1
    <2>3. layers # <<>> /\ n \in 1 .. Len(layers)
      BY <1>1
    <2>4. n < Len(layers) \/ i < pos
      <3>1. CASE n < Len(layers)
        BY <3>1
      <3>2. CASE n = Len(layers)
        <4>1. layers[n] = Current /\ Current \in Seq(Task)
          BY <1>3, <2>3, <3>2, ListTypes
        <4>2. i \in 1 .. Len(Current)
          BY <4>1
        <4> QED
          BY <1>1, <1>4, <4>1, <4>2
      <3> QED
        BY <1>1, <2>3, <3>1, <3>2
    <2> QED
      BY <2>2, <2>4 DEF Placed, Relaxed
  <1>5. ToSet(queue) = Queued
    BY <1>1 DEF ToSet, Queued
  <1>6. /\ Placed \in SUBSET Task
        /\ Queued \in SUBSET Task
    BY DEF Placed, Queued
  <1>7. IsFiniteSet(Placed) /\ IsFiniteSet(Queued)
    BY <1>6, TasksFinite DEF IInv
  <1> QED
    BY <1>2, <1>3, <1>4, <1>5, <1>6, <1>7

\* The queue becomes the last layer: its tasks are placed and none is relaxed by that.
LEMMA TakeLayerStep ==
    ASSUME IInv, TakeLayer
    PROVE  IInv'
  <1> DEFINE last == Len(layers) + 1
  <1>0. /\ UNCHANGED <<tasks, depList, indegree, phase>>
        /\ phase = "relax" /\ pos > Len(Current) /\ queue # <<>>
        /\ layers' = Append(layers, queue) /\ processed' = processed + Len(queue)
        /\ queue' = <<>> /\ pos' = 1
    BY DEF TakeLayer
  <1>1. layers \in Seq(Seq(Task)) /\ queue \in Seq(Task) /\ processed \in Nat
    BY DEF IInv, TypeOK
  <1>2. /\ layers' \in Seq(Seq(Task)) /\ DOMAIN layers' = 1 .. last /\ Len(layers') = last
        /\ DOMAIN layers = 1 .. Len(layers) /\ Len(layers) \in Nat
        /\ \A n \in DOMAIN layers : n \in DOMAIN layers' /\ layers'[n] = layers[n] /\ n < last
        /\ \A n \in DOMAIN layers' : n \in DOMAIN layers \/ n = last
        /\ last \in DOMAIN layers' /\ layers'[last] = queue
    BY <1>0, <1>1
  <1>3. Placed' = Placed \cup Queued
    <2>1. ASSUME NEW t \in Placed' PROVE t \in Placed \cup Queued
      <3>1. PICK n \in DOMAIN layers' : \E i \in DOMAIN layers'[n] : layers'[n][i] = t
        BY DEF Placed
      <3>2. CASE n \in DOMAIN layers
        BY <1>2, <3>1, <3>2 DEF Placed
      <3>3. CASE n = last
        BY <1>2, <3>1, <3>3 DEF Placed, Queued
      <3> QED
        BY <1>2, <3>2, <3>3
    <2>2. ASSUME NEW t \in Placed PROVE t \in Placed'
      <3>1. PICK n \in DOMAIN layers : \E i \in DOMAIN layers[n] : layers[n][i] = t
        BY DEF Placed
      <3> QED
        BY <1>2, <3>1 DEF Placed
    <2>3. ASSUME NEW t \in Queued PROVE t \in Placed'
      BY <1>2 DEF Placed, Queued
    <2> QED
      BY <2>1, <2>2, <2>3
  <1>4. Relaxed' = Placed
    <2>1. ASSUME NEW t \in Relaxed' PROVE t \in Placed
      <3>1. PICK n \in DOMAIN layers' :
                \E i \in DOMAIN layers'[n] : layers'[n][i] = t /\ (n < Len(layers') \/ i < pos')
        BY DEF Relaxed
      <3>2. PICK i \in DOMAIN layers'[n] : layers'[n][i] = t /\ (n < Len(layers') \/ i < pos')
        BY <3>1
      <3>3. i \in Nat /\ i >= 1
        BY <1>2
      <3>4. n \in DOMAIN layers
        BY <1>0, <1>2, <3>2, <3>3
      <3> QED
        BY <1>2, <3>2, <3>4 DEF Relaxed, Placed
    <2>2. ASSUME NEW t \in Placed PROVE t \in Relaxed'
      <3>1. PICK n \in DOMAIN layers : \E i \in DOMAIN layers[n] : layers[n][i] = t
        BY DEF Placed
      <3>2. n \in DOMAIN layers' /\ n < Len(layers') /\ layers'[n] = layers[n]
        BY <1>2
      <3> QED
        BY <3>1, <3>2 DEF Relaxed, Placed
    <2> QED
      BY <2>1, <2>2
  <1>5. Queued' = {} /\ Placed = Relaxed
    BY <1>0, SetFacts DEF Queued
  <1>6. Input'
    BY <1>0 DEF IInv, Input
  <1>7. TypeOK'
    <2>1. processed' \in Nat
      BY <1>0, <1>1
    <2> QED
      BY <1>0, <1>2, <2>1 DEF IInv, TypeOK
  <1>8. Checked'
    BY <1>0 DEF IInv, Checked, Counted, HasUnknown, DependsOn
  <1>9. Kahn'
    <2>1. \A t : Left(t)' = Left(t)
      BY <1>0, <1>4, <1>5 DEF Left
    <2>2. Counted
      BY <1>0 DEF Counted
    <2> QED
      BY <1>0, <1>3, <1>5, <2>1, <2>2 DEF IInv, Kahn
  <1>10. Once'
    <2>1. /\ \A m, n \in DOMAIN layers : \A i \in DOMAIN layers[m], j \in DOMAIN layers[n] :
                 layers[m][i] = layers[n][j] => m = n /\ i = j
          /\ \A i, j \in DOMAIN queue : queue[i] = queue[j] => i = j
          /\ Placed \cap Queued = {}
          /\ processed = Cardinality(Placed)
      BY DEF IInv, Once
    <2>2. ASSUME NEW n \in DOMAIN layers, NEW i \in DOMAIN layers[n], NEW j \in DOMAIN queue
          PROVE  layers[n][i] # queue[j]
      <3>1. layers[n][i] \in Task /\ queue[j] \in Task
        BY <1>1
      <3> QED
        BY <2>1, <3>1 DEF Placed, Queued
    <2>3. ASSUME NEW m \in DOMAIN layers', NEW n \in DOMAIN layers',
                 NEW i \in DOMAIN layers'[m], NEW j \in DOMAIN layers'[n],
                 layers'[m][i] = layers'[n][j]
          PROVE  m = n /\ i = j
      <3>1. CASE m \in DOMAIN layers /\ n \in DOMAIN layers
        BY <1>2, <2>1, <2>3, <3>1
      <3>2. CASE m = last /\ n = last
        BY <1>2, <2>1, <2>3, <3>2
      <3>3. CASE m \in DOMAIN layers /\ n = last
        BY <1>2, <2>2, <2>3, <3>3
      <3>4. CASE m = last /\ n \in DOMAIN layers
        BY <1>2, <2>2, <2>3, <3>4
      <3> QED
        BY <1>2, <3>1, <3>2, <3>3, <3>4
    <2>4. processed' = Cardinality(Placed')
      <3>1. Cardinality(Queued) = Len(queue)
        <4>1. DOMAIN queue = 1 .. Len(queue) /\ Len(queue) \in Nat
          BY <1>1
        <4>2. queue \in [1 .. Len(queue) -> Queued]
          BY <1>1, <4>1 DEF Queued
        <4>3. queue \in Injection(1 .. Len(queue), Queued)
          BY <2>1, <4>1, <4>2 DEF Injection, IsInjective
        <4>4. queue \in Surjection(1 .. Len(queue), Queued)
          BY <4>1, <4>2 DEF Surjection, Queued
        <4>5. Cardinality(1 .. Len(queue)) = Len(queue)
          BY <4>1, UpTo
        <4> QED
          BY <4>3, <4>4, <4>5, SetFacts, FS_Injection
      <3>2. /\ Cardinality(Placed \cup Queued) =
                   Cardinality(Placed) + Cardinality(Queued) - Cardinality(Placed \cap Queued)
        BY SetFacts, FS_Union
      <3>3. Cardinality(Placed \cap Queued) = 0
        BY <2>1, FS_EmptySet
      <3>4. Cardinality(Placed) \in Nat /\ Cardinality(Queued) \in Nat
        BY SetFacts, FS_CardinalityType
      <3> QED
        BY <1>0, <1>3, <2>1, <3>1, <3>2, <3>3, <3>4
    <2> QED
      BY <1>0, <1>5, <2>3, <2>4 DEF Once
  <1>11. Behind'
    <2> SUFFICES ASSUME NEW n \in DOMAIN layers', NEW i \in DOMAIN layers'[n],
                        NEW d \in DependsOn(layers'[n][i])
                 PROVE  \E m \in 1 .. (n - 1) : \E j \in DOMAIN layers'[m] : layers'[m][j] = d
      BY <1>0 DEF Behind, DependsOn
    <2>1. CASE n \in DOMAIN layers
      <3>1. PICK m \in 1 .. (n - 1) : \E j \in DOMAIN layers[m] : layers[m][j] = d
        BY <1>2, <2>1 DEF IInv, Behind
      <3>2. m \in DOMAIN layers
        BY <1>2, <2>1
      <3> QED
        BY <1>2, <3>1, <3>2
    <2>2. CASE n = last
      <3> DEFINE t == queue[i]
      <3>1. i \in DOMAIN queue /\ t \in Task /\ t \in Queued /\ d \in DependsOn(t)
        BY <1>1, <1>2, <2>2 DEF Queued
      <3>2. Left(t) = {}
        BY <1>0, <3>1 DEF IInv, Kahn, Counted
      <3>3. d \in Placed
        BY <1>5, <3>1, <3>2 DEF DependsOn, ToSet, Left
      <3>4. PICK m \in DOMAIN layers : \E j \in DOMAIN layers[m] : layers[m][j] = d
        BY <3>3 DEF Placed
      <3>5. m \in 1 .. (n - 1) /\ layers'[m] = layers[m]
        BY <1>2, <2>2
      <3> QED
        BY <3>4, <3>5
    <2> QED
      BY <1>2, <2>1, <2>2
  <1>12. NotLate'
    <2>1. EarliestLayer'
      <3> SUFFICES ASSUME NEW n \in DOMAIN layers', n > 1, NEW t \in ToSet(layers'[n])
                   PROVE  DependsOn(t) \cap ToSet(layers'[n - 1]) # {}
        BY <1>0 DEF EarliestLayer, DependsOn
      <3>1. n - 1 \in DOMAIN layers /\ layers'[n - 1] = layers[n - 1]
        BY <1>2
      <3>2. CASE n \in DOMAIN layers
        BY <1>2, <3>1, <3>2 DEF IInv, NotLate, EarliestLayer
      <3>3. CASE n = last
        <4>1. layers # <<>> /\ Current = layers[n - 1]
          BY <1>2, <3>1, <3>3, SetFacts
        <4>2. t \in Queued
          BY <1>2, <3>3, SetFacts
        <4> QED
          BY <3>1, <4>1, <4>2 DEF IInv, NotLate
      <3> QED
        BY <1>2, <3>2, <3>3
    <2> QED
      BY <1>5, <2>1 DEF NotLate
  <1>13. Ended'
    BY <1>0 DEF Ended
  <1> QED
    BY <1>6, <1>7, <1>8, <1>9, <1>10, <1>11, <1>12, <1>13 DEF IInv

\* Relaxing a task takes its mentions out of what is left, and queues the tasks of
\* which nothing is left any more.
LEMMA RelaxStep ==
    ASSUME IInv, Relax
    PROVE  IInv'
  <1> DEFINE id == Current[pos]
             left == [t \in Task |-> indegree[t] - Cardinality(Occurrences(t, id))]
             new == {t \in Task : Occurrences(t, id) # {} /\ left[t] = 0}
  <1>0. /\ UNCHANGED <<tasks, depList, layers, processed, phase>>
        /\ phase = "relax" /\ pos <= Len(Current) /\ pos' = pos + 1
        /\ indegree' = left
        /\ queue' = queue \o InOrder(new)
    BY DEF Relax
  <1>1. /\ layers \in Seq(Seq(Task)) /\ queue \in Seq(Task) /\ pos \in Nat \ {0}
        /\ layers # <<>> /\ Len(layers) \in DOMAIN layers /\ Current = layers[Len(layers)]
        /\ Current \in Seq(Task) /\ pos \in DOMAIN Current
    <2>1. pos \in Nat \ {0} /\ Current \in Seq(Task)
      BY ListTypes DEF IInv, TypeOK
    <2>2. pos \in DOMAIN Current /\ layers # <<>>
      BY <1>0, <2>1 DEF Current
    <2> QED
      BY <2>1, <2>2, SetFacts DEF IInv, TypeOK
  <1>2. id \in Task /\ id \in ToSet(Current) /\ id \in Placed
    BY <1>1 DEF ToSet, Placed
  <1>3. id \notin Relaxed
    <2> SUFFICES ASSUME id \in Relaxed PROVE FALSE
      OBVIOUS
    <2>1. PICK n \in DOMAIN layers : \E i \in DOMAIN layers[n] :
                   layers[n][i] = id /\ (n < Len(layers) \/ i < pos)
      BY DEF Relaxed
    <2>2. PICK i \in DOMAIN layers[n] : layers[n][i] = id /\ (n < Len(layers) \/ i < pos)
      BY <2>1
    <2>3. n = Len(layers) /\ i = pos
      BY <1>1, <2>2 DEF IInv, Once
    <2> QED
      BY <1>1, <2>2, <2>3
  <1>4. Relaxed' = Relaxed \cup {id}
    <2>1. ASSUME NEW t \in Relaxed' PROVE t \in Relaxed \cup {id}
      <3>1. PICK n \in DOMAIN layers : \E i \in DOMAIN layers[n] :
                     layers[n][i] = t /\ (n < Len(layers) \/ i < pos + 1)
        BY <1>0 DEF Relaxed
      <3>2. PICK i \in DOMAIN layers[n] : layers[n][i] = t /\ (n < Len(layers) \/ i < pos + 1)
        BY <3>1
      <3>3. n \in 1 .. Len(layers) /\ i \in Nat
        BY <1>1
      <3>4. CASE n < Len(layers) \/ i < pos
        BY <3>2, <3>4 DEF Relaxed
      <3>5. CASE n = Len(layers) /\ i = pos
        BY <1>1, <3>2, <3>5
      <3> QED
        BY <1>1, <3>2, <3>3, <3>4, <3>5
    <2>2. ASSUME NEW t \in Relaxed PROVE t \in Relaxed'
      <3>1. PICK n \in DOMAIN layers : \E i \in DOMAIN layers[n] :
                     layers[n][i] = t /\ (n < Len(layers) \/ i < pos)
        BY DEF Relaxed
      <3>2. PICK i \in DOMAIN layers[n] : layers[n][i] = t /\ (n < Len(layers) \/ i < pos)
        BY <3>1
      <3>3. i \in Nat
        BY <1>1
      <3>4. n < Len(layers) \/ i < pos + 1
        BY <1>1, <3>2, <3>3
      <3> QED
        BY <1>0, <3>2, <3>4 DEF Relaxed
    <2>3. id \in Relaxed'
      <3>1. pos < pos + 1
        BY <1>1
      <3>2. layers[Len(layers)][pos] = id
        BY <1>1
      <3> QED
        BY <1>0, <1>1, <1>2, <3>1, <3>2 DEF Relaxed
    <2> QED
      BY <2>1, <2>2, <2>3
  <1>5. ASSUME NEW t \in Task
        PROVE  /\ Left(t)' = Left(t) \ Occurrences(t, id)
               /\ Occurrences(t, id) \subseteq Left(t)
               /\ left[t] = Cardinality(Left(t)')
               /\ left[t] \in Nat
               /\ left[t] = 0 <=> Left(t)' = {}
    <2>1. Left(t)' = Left(t) \ Occurrences(t, id)
      BY <1>0, <1>4 DEF Left, Occurrences
    <2>2. Occurrences(t, id) \subseteq Left(t)
      BY <1>3 DEF Left, Occurrences
    <2>3. /\ IsFiniteSet(Left(t)) /\ IsFiniteSet(Occurrences(t, id))
          /\ IsFiniteSet(Left(t) \ Occurrences(t, id))
          /\ Cardinality(Left(t)) \in Nat /\ Cardinality(Occurrences(t, id)) \in Nat
          /\ Cardinality(Left(t) \ Occurrences(t, id)) \in Nat
      <3>1. Left(t) \ Occurrences(t, id) \in SUBSET DOMAIN depList[t]
        BY ListTypes
      <3> QED
        BY <3>1, ListTypes
    <2>4. Cardinality(Left(t)) =
              Cardinality(Left(t) \ Occurrences(t, id)) + Cardinality(Occurrences(t, id))
      <3>1. (Left(t) \ Occurrences(t, id)) \cup Occurrences(t, id) = Left(t)
        BY <2>2
      <3>2. (Left(t) \ Occurrences(t, id)) \cap Occurrences(t, id) = {}
        OBVIOUS
      <3>3. Cardinality({}) = 0
        BY FS_EmptySet
      <3>4. Cardinality((Left(t) \ Occurrences(t, id)) \cup Occurrences(t, id)) =
                Cardinality(Left(t) \ Occurrences(t, id)) + Cardinality(Occurrences(t, id))
                - Cardinality((Left(t) \ Occurrences(t, id)) \cap Occurrences(t, id))
        BY <2>3, FS_Union
      <3> QED
        BY <2>3, <3>1, <3>2, <3>3, <3>4
    <2>5. indegree[t] = Cardinality(Left(t))
      BY <1>0 DEF IInv, Kahn, Counted
    <2>6. left[t] = Cardinality(Left(t) \ Occurrences(t, id))
      BY <2>3, <2>4, <2>5
    <2>7. left[t] = 0 <=> Left(t)' = {}
      BY <2>1, <2>3, <2>6, FS_EmptySet
    <2> QED
      BY <2>1, <2>2, <2>3, <2>6, <2>7
  <1>6. /\ new \in SUBSET Task
        /\ \A t \in new : Left(t)' = {} /\ t \notin Placed /\ t \notin Queued
        /\ \A t \in new : id \in DependsOn(t)
    <2>1. ASSUME NEW t \in new
          PROVE  Left(t)' = {} /\ t \notin Placed /\ t \notin Queued
      <3>1. Left(t) # {}
        BY <1>5
      <3> QED
        BY <1>0, <1>5, <3>1 DEF IInv, Kahn, Counted
    <2>2. ASSUME NEW t \in new PROVE id \in DependsOn(t)
      BY DEF Occurrences, DependsOn, ToSet
    <2> QED
      BY <2>1, <2>2
  <1> DEFINE q == InOrder(new)
  <1>7. /\ q \in Seq(new)
        /\ \A i, j \in DOMAIN q : q[i] = q[j] => i = j
        /\ \A t \in new : \E i \in DOMAIN q : q[i] = t
    BY <1>6, InOrderFacts DEF IInv
  <1>8. queue' = queue \o q
    BY <1>0
  <1>9. \A t \in Task : Occurrences(t, id) # {} /\ left[t] = 0 <=> t \in new
    OBVIOUS
  <1> HIDE DEF q, new, left
  <1>10. /\ queue' \in Seq(Task)
         /\ Len(queue) \in Nat /\ Len(q) \in Nat
         /\ DOMAIN queue = 1 .. Len(queue) /\ DOMAIN q = 1 .. Len(q)
         /\ DOMAIN queue' = 1 .. (Len(queue) + Len(q))
         /\ \A i \in DOMAIN queue : i \in DOMAIN queue' /\ queue'[i] = queue[i]
         /\ \A i \in DOMAIN q : Len(queue) + i \in DOMAIN queue' /\ queue'[Len(queue) + i] = q[i]
    <2>1. q \in Seq(Task)
      BY <1>6, <1>7
    <2> QED
      BY <1>1, <1>8, <2>1
  <1>11. ASSUME NEW i \in DOMAIN queue'
         PROVE  \/ i \in DOMAIN queue
                \/ i - Len(queue) \in DOMAIN q /\ queue'[i] = q[i - Len(queue)]
    <2>1. CASE i <= Len(queue)
      BY <1>10, <2>1
    <2>2. CASE i > Len(queue)
      <3>1. i - Len(queue) \in DOMAIN q
        BY <1>10, <2>2
      <3>2. Len(queue) + (i - Len(queue)) = i
        BY <1>10
      <3> QED
        BY <1>10, <3>1, <3>2
    <2> QED
      BY <1>10, <2>1, <2>2
  <1>12. Queued' = Queued \cup new
    <2>1. ASSUME NEW t \in Queued' PROVE t \in Queued \cup new
      <3>1. PICK i \in DOMAIN queue' : queue'[i] = t
        BY DEF Queued
      <3>2. CASE i \in DOMAIN queue
        BY <1>10, <3>1, <3>2 DEF Queued
      <3>3. CASE i - Len(queue) \in DOMAIN q /\ queue'[i] = q[i - Len(queue)]
        BY <1>7, <3>1, <3>3
      <3> QED
        BY <1>11, <3>2, <3>3
    <2>2. ASSUME NEW t \in Queued PROVE t \in Queued'
      BY <1>10 DEF Queued
    <2>3. ASSUME NEW t \in new PROVE t \in Queued'
      BY <1>6, <1>7, <1>10 DEF Queued
    <2> QED
      BY <2>1, <2>2, <2>3
  <1>13. Placed' = Placed /\ Current' = Current
    BY <1>0 DEF Placed, Current
  <1>14. Input'
    BY <1>0 DEF IInv, Input
  <1>15. TypeOK'
    <2>1. indegree' \in [Task -> Nat]
      <3>1. \A t \in Task : left[t] \in Nat
        BY <1>5
      <3>2. left = [t \in Task |-> left[t]]
        BY DEF left
      <3> QED
        BY <1>0, <3>1, <3>2
    <2>2. pos' \in Nat \ {0}
      BY <1>0, <1>1
    <2> QED
      BY <1>0, <1>10, <2>1, <2>2 DEF IInv, TypeOK
  <1>16. Checked'
    BY <1>0 DEF IInv, Checked, Counted, HasUnknown, DependsOn
  <1>17. Kahn'
    <2> SUFFICES ASSUME NEW t \in Task
                 PROVE  /\ indegree'[t] = Cardinality(Left(t)')
                        /\ t \in Placed' \cup Queued' <=> Left(t)' = {}
      BY DEF Kahn
    <2>1. indegree'[t] = Cardinality(Left(t)')
      BY <1>0, <1>5
    <2>2. t \in Placed \cup Queued <=> Left(t) = {}
      BY <1>0 DEF IInv, Kahn, Counted
    <2>3. CASE Occurrences(t, id) = {}
      <3>1. Left(t)' = Left(t) /\ t \notin new
        BY <1>5, <1>9, <2>3
      <3> QED
        BY <1>12, <1>13, <2>1, <2>2, <3>1
    <2>4. CASE Occurrences(t, id) # {}
      <3>1. Left(t) # {} /\ (t \in new <=> Left(t)' = {})
        BY <1>5, <1>9, <2>4
      <3> QED
        BY <1>12, <1>13, <2>1, <2>2, <3>1
    <2> QED
      BY <2>3, <2>4
  <1>18. Once'
    <2>1. ASSUME NEW i \in DOMAIN queue', NEW j \in DOMAIN queue', queue'[i] = queue'[j]
          PROVE  i = j
      <3>1. \A m \in DOMAIN queue : queue'[m] \in Queued
        BY <1>1, <1>10 DEF Queued
      <3>2. \A m \in DOMAIN q : q[m] \in new /\ q[m] \notin Queued
        BY <1>6, <1>7
      <3>3. CASE i \in DOMAIN queue /\ j \in DOMAIN queue
        BY <1>10, <2>1, <3>3 DEF IInv, Once
      <3>4. CASE i \notin DOMAIN queue /\ j \notin DOMAIN queue
        <4>1. i - Len(queue) = j - Len(queue)
          BY <1>7, <1>11, <2>1, <3>4
        <4> QED
          BY <1>10, <4>1
      <3>5. CASE i \in DOMAIN queue /\ j \notin DOMAIN queue
        BY <1>11, <2>1, <3>1, <3>2, <3>5
      <3>6. CASE i \notin DOMAIN queue /\ j \in DOMAIN queue
        BY <1>11, <2>1, <3>1, <3>2, <3>6
      <3> QED
        BY <3>3, <3>4, <3>5, <3>6
    <2>2. Placed' \cap Queued' = {}
      BY <1>6, <1>12, <1>13 DEF IInv, Once
    <2> QED
      BY <1>0, <1>13, <2>1, <2>2 DEF IInv, Once
  <1>19. Behind'
    <2>1. Behind /\ UNCHANGED <<depList, layers>>
      BY <1>0 DEF IInv
    <2> QED
      BY <2>1 DEF Behind, DependsOn
  <1>20. NotLate'
    <2>1. EarliestLayer'
      BY <1>0 DEF IInv, NotLate, EarliestLayer, DependsOn
    <2>2. ASSUME NEW t \in Queued' PROVE DependsOn(t)' \cap ToSet(Current') # {}
      <3>1. DependsOn(t)' = DependsOn(t)
        BY <1>0 DEF DependsOn
      <3>2. CASE t \in Queued
        BY <1>1, <1>13, <3>1, <3>2 DEF IInv, NotLate
      <3>3. CASE t \in new
        BY <1>2, <1>6, <1>13, <3>1, <3>3
      <3> QED
        BY <1>12, <3>2, <3>3
    <2> QED
      BY <2>1, <2>2 DEF NotLate
  <1>21. Ended'
    BY <1>0 DEF Ended
  <1> QED
    BY <1>14, <1>15, <1>16, <1>17, <1>18, <1>19, <1>20, <1>21 DEF IInv

\* The end changes the phase only.
LEMMA FinishStep ==
    ASSUME IInv, Finish
    PROVE  IInv'
  <1>0. /\ UNCHANGED <<tasks, depList, indegree, queue, layers, processed, pos>>
        /\ phase = "relax" /\ pos > Len(Current) /\ queue = <<>>
        /\ phase' = IF processed = Len(tasks) THEN "done" ELSE "cycle"
    BY DEF Finish
  <1>1. Placed' = Placed /\ Queued' = Queued /\ Relaxed' = Relaxed /\ Current' = Current
    BY <1>0 DEF Placed, Queued, Relaxed, Current
  <1>2. Input' /\ TypeOK'
    BY <1>0 DEF IInv, Input, TypeOK
  <1>3. Checked'
    BY <1>0 DEF IInv, Checked, Counted, HasUnknown, DependsOn
  <1>4. Kahn'
    <2>1. \A t : Left(t)' = Left(t)
      BY <1>0, <1>1 DEF Left
    <2> QED
      BY <1>0, <1>1, <2>1 DEF IInv, Kahn, Counted
  <1>5. Once'
    BY <1>0, <1>1 DEF IInv, Once
  <1>6. Behind'
    BY <1>0 DEF IInv, Behind, DependsOn
  <1>7. NotLate'
    BY <1>0, <1>1 DEF IInv, NotLate, EarliestLayer, DependsOn
  <1>8. Ended'
    BY <1>0, <1>1 DEF Ended
  <1> QED
    BY <1>2, <1>3, <1>4, <1>5, <1>6, <1>7, <1>8 DEF IInv

\* Every step of the sort keeps it, and so does a step of anything else.
THEOREM StepInv == IInv /\ [SortStep]_sortVars => IInv'
  <1> SUFFICES ASSUME IInv, [SortStep]_sortVars PROVE IInv'
    OBVIOUS
  <1>1. CASE UNCHANGED sortVars
    <2>1. Placed' = Placed /\ Queued' = Queued /\ Relaxed' = Relaxed /\ Current' = Current
      BY <1>1 DEF sortVars, Placed, Queued, Relaxed, Current
    <2>2. \A t : Left(t)' = Left(t)
      BY <1>1, <2>1 DEF sortVars, Left
    <2>3. Input' /\ TypeOK'
      BY <1>1 DEF sortVars, IInv, Input, TypeOK
    <2>4. Checked'
      BY <1>1 DEF sortVars, IInv, Checked, Counted, HasUnknown, DependsOn
    <2>5. Kahn'
      BY <1>1, <2>1, <2>2 DEF sortVars, IInv, Kahn, Counted
    <2>6. Once'
      BY <1>1, <2>1 DEF sortVars, IInv, Once
    <2>7. Behind' /\ NotLate' /\ Ended'
      BY <1>1, <2>1 DEF sortVars, IInv, Behind, NotLate, EarliestLayer, Ended, DependsOn
    <2> QED
      BY <2>3, <2>4, <2>5, <2>6, <2>7 DEF IInv
  <1> QED
    BY <1>1, MissingStep, CountStep, TakeLayerStep, RelaxStep, FinishStep DEF SortStep

-----------------------------------------------------------------------------
(* What it gives *)

\* Every state of a sort satisfies the invariant.
THEOREM Invariance == SortSpec => []IInv
  BY InitInv, StepInv, PTL DEF SortSpec

\* The slice holds as many tasks as there are, so all are processed when all are placed.
LEMMA AllPlaced ==
    ASSUME IInv
    PROVE  processed = Len(tasks) <=> Placed = Task
  <1>1. processed = Cardinality(Placed)
    BY DEF IInv, Once
  <1>2. Len(tasks) = Cardinality(Task)
    <2>1. tasks \in Seq(Task) /\ DOMAIN tasks = 1 .. Len(tasks) /\ Len(tasks) \in Nat
      BY DEF IInv, Input
    <2>2. tasks \in [1 .. Len(tasks) -> Task]
      BY <2>1
    <2>3. tasks \in Injection(1 .. Len(tasks), Task)
      BY <2>1, <2>2 DEF IInv, Input, Injection, IsInjective
    <2>4. tasks \in Surjection(1 .. Len(tasks), Task)
      BY <2>1, <2>2 DEF IInv, Input, Surjection, ToSet
    <2>5. Cardinality(1 .. Len(tasks)) = Len(tasks)
      BY <2>1, UpTo
    <2> QED
      BY <2>3, <2>4, <2>5, FS_Injection DEF IInv, Input
  <1> QED
    BY <1>1, <1>2, SetFacts, FS_Subset DEF IInv, Input

\* In a plan that is complete no set of tasks depends on itself: the one of them in
\* the first layer would depend on one in an earlier layer.
LEMMA NoCycle ==
    ASSUME IInv, phase = "done"
    PROVE  ~Cyclic
  <1>1. Placed = Task
    BY AllPlaced DEF IInv, Ended
  <1> SUFFICES ASSUME NEW S \in SUBSET Task, S # {}, \A t \in S : DependsOn(t) \cap S # {}
               PROVE  FALSE
    BY DEF Cyclic
  <1> DEFINE depths == {n \in DOMAIN layers : \E i \in DOMAIN layers[n] : layers[n][i] \in S}
  <1>2. layers \in Seq(Seq(Task)) /\ DOMAIN layers \subseteq Nat
    BY DEF IInv, TypeOK
  <1>3. depths # {}
    BY <1>1 DEF Placed
  <1>4. depths \in SUBSET Nat
    BY <1>2
  <1>5. PICK n \in depths : \A m \in depths : n <= m
    BY <1>3, <1>4, Least
  <1>6. PICK i \in DOMAIN layers[n] : layers[n][i] \in S
    BY <1>5
  <1>7. PICK d \in S : d \in DependsOn(layers[n][i])
    BY <1>6
  <1>8. PICK m \in 1 .. (n - 1) : \E j \in DOMAIN layers[m] : layers[m][j] = d
    BY <1>5, <1>6, <1>7 DEF IInv, Behind
  <1>9. m \in DOMAIN layers /\ m < n /\ n \in Nat
    BY <1>2, <1>5
  <1>10. m \in depths
    BY <1>7, <1>8, <1>9
  <1> QED
    BY <1>5, <1>9, <1>10

\* The tasks that got no place depend on one another: of each something is left.
LEMMA CycleFound ==
    ASSUME IInv, phase = "cycle"
    PROVE  Cyclic
  <1> DEFINE S == Task \ Placed
  <1>1. Placed # Task
    BY AllPlaced DEF IInv, Ended
  <1>2. S \in SUBSET Task /\ S # {}
    BY <1>1, SetFacts
  <1>3. ASSUME NEW t \in S PROVE DependsOn(t) \cap S # {}
    <2>1. Placed = Relaxed /\ Queued = {}
      BY SetFacts DEF IInv, Ended, Queued
    <2>2. Left(t) # {}
      BY <2>1 DEF IInv, Kahn, Counted
    <2>3. PICK i \in DOMAIN depList[t] : depList[t][i] \notin Placed
      BY <2>1, <2>2 DEF Left
    <2>4. depList[t][i] \in DependsOn(t)
      BY DEF DependsOn, ToSet
    <2>5. depList[t][i] \in Task
      BY <2>4 DEF IInv, Checked, Counted, HasUnknown
    <2> QED
      BY <2>3, <2>4, <2>5
  <1> QED
    BY <1>2, <1>3 DEF Cyclic

\* The sort's answer is right: a plan only for a graph without a cycle, a cycle or an
\* unknown dependency reported only where there is one.
THEOREM AnswerRight == IInv => VerdictRight
  <1> SUFFICES ASSUME IInv PROVE VerdictRight
    OBVIOUS
  <1>1. phase = "missing" <=> \E t \in Task : ~(DependsOn(t) \subseteq Task) /\ phase # "count"
    <2>1. phase \in {"count", "relax", "done", "missing", "cycle"}
      BY DEF IInv, TypeOK
    <2> QED
      BY <2>1 DEF IInv, Checked, Counted, HasUnknown
  <1> QED
    BY <1>1, NoCycle, CycleFound DEF VerdictRight

\* The plan it returns holds every task once, each behind its dependencies and in
\* the earliest layer that is.
THEOREM PlanRight ==
    IInv /\ phase = "done" =>
        /\ layers \in Seq(Seq(Task))
        /\ \A t \in Task : DependsOn(t) \subseteq Task
        /\ \A t \in Task : \E n \in DOMAIN layers : \E i \in DOMAIN layers[n] : layers[n][i] = t
        /\ Once /\ Behind /\ EarliestLayer
  <1> SUFFICES ASSUME IInv, phase = "done"
               PROVE  /\ Placed = Task
                      /\ \A t \in Task : DependsOn(t) \subseteq Task
    BY DEF IInv, TypeOK, NotLate, Placed
  <1>1. \A t \in Task : DependsOn(t) \subseteq Task
    BY DEF IInv, Checked, Counted, HasUnknown
  <1>2. Placed = Task
    BY AllPlaced DEF IInv, Ended
  <1> QED
    BY <1>1, <1>2

=============================================================================
