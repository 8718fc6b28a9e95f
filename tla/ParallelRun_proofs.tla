------------------------- MODULE ParallelRun_proofs -------------------------
(* Theorems about ParallelRun: the task file is read right, what the parser *)
(* hands over is what the sorter is proved for, and what the sorter hands   *)
(* over what the executor is proved for, so their theorems hold of the      *)
(* whole run.                                                               *)
EXTENDS ParallelRun, FiniteSetTheorems, TLAPS

SortThm == INSTANCE TopologicalSort_proofs

ExecThm == INSTANCE ParallelExecutor_proofs WITH
               deps <- [t \in Task |-> ToSet(depList[t]) \cap Task],
               MaxWorkers <- ResolvedWorkers, CancelKinds <- {}, Plans <- {}

-----------------------------------------------------------------------------
(* The invariant of the parser *)

Values == Names \cup {Empty, "-"}
Past == {i \in Reader!Blocks(file) : i < block}
IdOf(i) == Reader!LastValue(file[i], "id")

\* v is the value of the last line of b with that key before the n-th line.
LastBefore(b, key, n, v) ==
    \/ v = Empty /\ \A m \in Reader!Lines(b, key) : m >= n
    \/ \E k \in Reader!Lines(b, key) :
           /\ k < n /\ b.lines[k].value = v
           /\ \A m \in Reader!Lines(b, key) : m < n => m <= k

\* What the dependencies lines before the n-th line name.
NamedBefore(b, n) ==
    {name \in Names : \E m \in Reader!Lines(b, "dependencies") :
                          m < n /\ name # Empty /\ name \in ToSet(b.lines[m].value)}

\* The task so far is what the lines read so far say.
LinesRead(b, n, s) ==
    /\ s.deps \in Seq(Names) /\ ToSet(s.deps) = NamedBefore(b, n)
    /\ s.id \in Values /\ LastBefore(b, "id", n, s.id)
    /\ s.session \in Values /\ LastBefore(b, "session_id", n, s.session)
    /\ s.mode = "resume" <=> \E m \in Reader!Lines(b, "session_id") : m < n
    /\ \A m \in DOMAIN b.lines : m < n => ~Reader!BadLine(b.lines[m])

\* A line is read only of a block that has been split at its separator.
AtStart == line = 1 /\ spec = Reader!NewSpec
Position ==
    /\ block \in Nat \ {0} /\ line \in Nat \ {0}
    /\ spec \in [id : Values, session : Values, mode : {"new", "resume"}, deps : Seq(Names)]
    /\ AtStart \/ (block \in DOMAIN file /\ ~file[block].blank /\ file[block].separator)
    /\ block \in DOMAIN file => LinesRead(file[block], line, spec)

\* The tasks so far are those of the blocks read so far.
TasksRead ==
    /\ tasks \in Seq(Values)
    /\ depList \in [Task -> Seq(Names)]
    /\ Len(tasks) = Cardinality(Past)
    /\ \A k \in DOMAIN tasks : \E i \in Past : Reader!Rank(Reader!Blocks(file), i) = k
    /\ \A i \in Past :
           /\ Reader!WellFormed(file[i])
           /\ Reader!Rank(Reader!Blocks(file), i) \in DOMAIN tasks
           /\ tasks[Reader!Rank(Reader!Blocks(file), i)] = IdOf(i)
           /\ IdOf(i) \in Task => ToSet(depList[IdOf(i)]) = Reader!NamedIn(file[i])
    /\ \A i, j \in Past : IdOf(i) = IdOf(j) => i = j

\* Why the call has ended.
Decided ==
    /\ parse = "accepted" => block > Len(file) /\ tasks # <<>>
    /\ parse \notin {"reading", "accepted"} => ~Reader!Acceptable(file)

ReadInv == file \in Files /\ Position /\ TasksRead /\ Decided

-----------------------------------------------------------------------------
(* The invariant of the run *)

Unsorted == SortThm!Init /\ Exec!IdleInit
Sorting == parse = "accepted" /\ SortThm!IInv /\ Exec!IdleInit
Executing == parse = "accepted" /\ SortThm!IInv /\ phase = "done" /\ ExecThm!IInv

\* Each stage has started from what the one before has left.
Stages ==
    /\ stage \in {"parse", "sort", "execute", "exited", "killed"}
    /\ stage = "parse" => Unsorted
    /\ stage = "sort" => Sorting
    /\ stage = "execute" => Executing
    /\ Unsorted \/ Sorting \/ Executing

Ctx == {"live", "timeout", "cancelled"}
RunStates == [phase : {"idle", "open", "backend", "ended", "returned"}, ctx : Ctx,
              code : RunCodes \cup {NoOutcome}]

\* The run of a task's backend and the goroutine that has called it.
Runs ==
    /\ run \in [Task -> RunStates]
    /\ \A t \in Task :
           /\ run[t].phase = "idle" => run[t].ctx = "live"
           /\ run[t].code = 0 => run[t].phase = "returned" /\ run[t].ctx = "live"
           /\ outcome[t] = 0 => run[t].code = 0

\* What the process says at its end.
Exited ==
    stage = "exited" =>
        \/ exitCode = 1 /\ (Unsorted \/ Sorting) /\ ~(phase = "done" /\ main = "done")
        \/ Executing /\ main = "done" /\ report = Count(results)
               /\ exitCode = Status(ParallelExitCode(results))

IInv == ReadInv /\ Stages /\ Runs /\ Exited /\ KilledLeavesNoBackend

-----------------------------------------------------------------------------
(* The library's operators are the same through every instance. *)

LEMMA SameCardinality ==
    /\ \A S : Reader!Cardinality(S) = Cardinality(S)
    /\ \A S : Sort!Cardinality(S) = Cardinality(S)
    /\ \A S : SortThm!Cardinality(S) = Cardinality(S)
    /\ \A S : Exec!Cardinality(S) = Cardinality(S)
    /\ \A S : ExecThm!Cardinality(S) = Cardinality(S)
  BY DEF Cardinality, Reader!Cardinality, Sort!Cardinality, SortThm!Cardinality,
         Exec!Cardinality, ExecThm!Cardinality

LEMMA SameFiniteness ==
    /\ \A S : SortThm!IsFiniteSet(S) = IsFiniteSet(S)
    /\ \A S : ExecThm!IsFiniteSet(S) = IsFiniteSet(S)
  BY DEF IsFiniteSet, SortThm!IsFiniteSet, ExecThm!IsFiniteSet

LEMMA SameToSet ==
    /\ \A s : Reader!ToSet(s) = ToSet(s)
    /\ \A s : Sort!ToSet(s) = ToSet(s)
    /\ \A s : SortThm!ToSet(s) = ToSet(s)
    /\ \A s : ExecThm!ToSet(s) = ToSet(s)
  BY DEF ToSet, Reader!ToSet, Sort!ToSet, SortThm!ToSet, ExecThm!ToSet

\* The place of an index, and the elements at some indices.
LEMMA SameIndices ==
    /\ \A I, i : SortThm!Rank(I, i) = Cardinality({j \in I : j <= i})
    /\ \A I, i : Reader!Rank(I, i) = Cardinality({j \in I : j <= i})
    /\ \A s, I : SortThm!AtIndices(s, I) = Reader!AtIndices(s, I)
  <1>1. /\ \A I, i : SortThm!Rank(I, i) = Cardinality({j \in I : j <= i})
        /\ \A I, i : Reader!Rank(I, i) = Cardinality({j \in I : j <= i})
    BY SameCardinality DEF SortThm!Rank, Reader!Rank
  <1>2. ASSUME NEW s, NEW I
        PROVE  SortThm!AtIndices(s, I) = Reader!AtIndices(s, I)
    <2>1. \A i : SortThm!Rank(I, i) = Reader!Rank(I, i)
      BY <1>1
    <2>2. SortThm!Cardinality(I) = Reader!Cardinality(I)
      BY SameCardinality
    <2> QED
      BY <2>1, <2>2 DEF SortThm!AtIndices, Reader!AtIndices
  <1> QED
    BY <1>1, <1>2

-----------------------------------------------------------------------------
(* The parser *)

\* Counting up to each of its members numbers a finite set of naturals.
LEMMA RankFacts ==
    ASSUME NEW I \in SUBSET Nat, IsFiniteSet(I)
    PROVE  /\ Cardinality(I) \in Nat
           /\ \A i \in I : Reader!Rank(I, i) \in 1 .. Cardinality(I)
           /\ \A i, j \in I : Reader!Rank(I, i) = Reader!Rank(I, j) => i = j
  <1>1. \A i : SortThm!Rank(I, i) = Reader!Rank(I, i)
    BY SameIndices
  <1>2. SortThm!IsFiniteSet(I) /\ SortThm!Cardinality(I) = Cardinality(I)
    BY SameFiniteness, SameCardinality
  <1>3. /\ SortThm!Cardinality(I) \in Nat
        /\ \A i \in I : SortThm!Rank(I, i) \in 1 .. SortThm!Cardinality(I)
        /\ \A i, j \in I : SortThm!Rank(I, i) = SortThm!Rank(I, j) => i = j
    BY <1>2, SortThm!RankFacts
  <1> QED
    BY <1>1, <1>2, <1>3

\* The files are sequences of blocks, and their blocks of lines.
LEMMA FileFacts ==
    ASSUME file \in Files
    PROVE  /\ file \in Seq(Reader!Block)
           /\ DOMAIN file = 1 .. Len(file) /\ Len(file) \in Nat
           /\ \A i \in DOMAIN file : file[i] \in Reader!Block
           /\ Reader!Blocks(file) \in SUBSET Nat /\ IsFiniteSet(Reader!Blocks(file))
           /\ Reader!Blocks(file) \subseteq DOMAIN file
  <1>1. file \in Seq(Reader!Block)
    BY FilesAssumption
  <1>2. DOMAIN file = 1 .. Len(file) /\ Len(file) \in Nat
    BY <1>1
  <1>3. Reader!Blocks(file) \in SUBSET DOMAIN file
    BY DEF Reader!Blocks
  <1>4. IsFiniteSet(1 .. Len(file))
    BY <1>2, FS_Interval
  <1>5. IsFiniteSet(Reader!Blocks(file))
    BY <1>2, <1>3, <1>4, FS_Subset
  <1> QED
    BY <1>1, <1>2, <1>3, <1>5

\* The lines of a block are numbered from 1, and each has a value of its kind.
LEMMA BlockFacts ==
    ASSUME NEW b \in Reader!Block
    PROVE  /\ b.lines \in Seq(Reader!Line)
           /\ DOMAIN b.lines = 1 .. Len(b.lines) /\ Len(b.lines) \in Nat
           /\ \A key : Reader!Lines(b, key) \subseteq DOMAIN b.lines
           /\ \A n \in DOMAIN b.lines :
                  /\ b.lines[n].key = "dependencies" =>
                         b.lines[n].value \in Seq(Names \cup {Empty})
                  /\ b.lines[n].key # "dependencies" => b.lines[n].value \in Values
  <1>1. b.lines \in Seq(Reader!Line)
    BY DEF Reader!Block
  <1>2. ASSUME NEW l \in Reader!Line
        PROVE  /\ l.key = "dependencies" => l.value \in Seq(Names \cup {Empty})
               /\ l.key # "dependencies" => l.value \in Values
    BY DEF Reader!Line, Reader!Keys, Values
  <1>3. \A n \in DOMAIN b.lines : b.lines[n] \in Reader!Line
    BY <1>1
  <1> QED
    BY <1>1, <1>2, <1>3 DEF Reader!Lines

\* The names of a dependencies line are those of its parts that are not empty.
LEMMA NamedFacts ==
    ASSUME NEW l, l.value \in Seq(Names \cup {Empty})
    PROVE  /\ Reader!Named(l) \in Seq(Names)
           /\ ToSet(Reader!Named(l)) = {name \in Names : name # Empty /\ name \in ToSet(l.value)}
  <1> DEFINE s == l.value
             I == {n \in DOMAIN s : s[n] # Empty}
             q == Reader!AtIndices(s, I)
  <1>1. Reader!Named(l) = q
    BY DEF Reader!Named
  <1>2. I \in SUBSET DOMAIN s /\ \A i \in I : s[i] \in Names /\ s[i] # Empty
    OBVIOUS
  <1>3. \A name \in Names : name # Empty /\ name \in ToSet(s) => \E i \in I : s[i] = name
    BY DEF ToSet
  <1>4. /\ q \in Seq(Names \cup {Empty})
        /\ \A i \in I : Reader!Rank(I, i) \in DOMAIN q /\ q[Reader!Rank(I, i)] = s[i]
        /\ \A k \in DOMAIN q : \E i \in I : q[k] = s[i]
    <2> HIDE DEF I, s
    <2>1. s \in Seq(Names \cup {Empty})
      BY DEF s
    <2>2. /\ SortThm!AtIndices(s, I) \in Seq(Names \cup {Empty})
          /\ \A i \in I : /\ SortThm!Rank(I, i) \in DOMAIN SortThm!AtIndices(s, I)
                          /\ SortThm!AtIndices(s, I)[SortThm!Rank(I, i)] = s[i]
          /\ \A k \in DOMAIN SortThm!AtIndices(s, I) :
                 \E i \in I : SortThm!Rank(I, i) = k /\ SortThm!AtIndices(s, I)[k] = s[i]
      BY <1>2, <2>1, SortThm!AtIndicesFacts
    <2>3. \A i : SortThm!Rank(I, i) = Reader!Rank(I, i)
      BY SameIndices
    <2>4. SortThm!AtIndices(s, I) = q
      BY SameIndices
    <2> HIDE DEF q
    <2> QED
      BY <2>2, <2>3, <2>4
  <1> HIDE DEF q, I
  <1>5. \A k \in DOMAIN q : q[k] \in Names /\ q[k] # Empty /\ q[k] \in ToSet(s)
    BY <1>2, <1>4 DEF ToSet, I
  <1>6. q \in Seq(Names)
    BY <1>4, <1>5
  <1>7. \A name \in Names : name # Empty /\ name \in ToSet(s) => name \in ToSet(q)
    BY <1>3, <1>4 DEF ToSet
  <1>8. \A name \in ToSet(q) : name \in Names /\ name # Empty /\ name \in ToSet(s)
    BY <1>5 DEF ToSet
  <1> QED
    BY <1>1, <1>6, <1>7, <1>8

\* Before its first line nothing of a block is known.
LEMMA NothingRead ==
    ASSUME NEW b \in Reader!Block
    PROVE  LinesRead(b, 1, Reader!NewSpec)
  <1>1. \A key : \A m \in Reader!Lines(b, key) : m >= 1 /\ ~(m < 1)
    BY BlockFacts
  <1>2. NamedBefore(b, 1) = {}
    BY <1>1 DEF NamedBefore
  <1>3. \A m \in DOMAIN b.lines : ~(m < 1)
    BY BlockFacts
  <1>4. ToSet(<<>>) = {}
    BY DEF ToSet
  <1> QED
    <2> DEFINE s == Reader!NewSpec
    <2>1. s.id = Empty /\ s.session = Empty /\ s.mode = "new" /\ s.deps = <<>>
      BY DEF Reader!NewSpec
    <2>2. LastBefore(b, "id", 1, Empty) /\ LastBefore(b, "session_id", 1, Empty)
      BY <1>1 DEF LastBefore
    <2>3. <<>> \in Seq(Names) /\ Empty \in Values /\ "new" # "resume"
      BY DEF Values
    <2>4. ~(\E m \in Reader!Lines(b, "session_id") : m < 1)
      BY <1>1
    <2> HIDE DEF s
    <2> QED
      BY <1>2, <1>3, <1>4, <2>1, <2>2, <2>3, <2>4 DEF LinesRead, s

\* One line more: its value is the last one of its key, the other keys keep theirs.
LEMMA NextLine ==
    ASSUME NEW b \in Reader!Block, NEW n \in DOMAIN b.lines, NEW key, NEW v,
           LastBefore(b, key, n, v)
    PROVE  LastBefore(b, key, n + 1, IF b.lines[n].key = key THEN b.lines[n].value ELSE v)
  <1>1. n \in Nat /\ \A m \in Reader!Lines(b, key) : m \in Nat
    BY BlockFacts
  <1>2. CASE b.lines[n].key = key
    <2>1. n \in Reader!Lines(b, key) /\ n < n + 1
      BY <1>1, <1>2 DEF Reader!Lines
    <2>2. \A m \in Reader!Lines(b, key) : m < n + 1 => m <= n
      BY <1>1
    <2> QED
      BY <1>2, <2>1, <2>2 DEF LastBefore
  <1>3. CASE b.lines[n].key # key
    <2>1. \A m \in Reader!Lines(b, key) : m # n
      BY <1>3 DEF Reader!Lines
    <2>2. CASE v = Empty /\ \A m \in Reader!Lines(b, key) : m >= n
      <3>1. \A m \in Reader!Lines(b, key) : m >= n + 1
        BY <1>1, <2>1, <2>2
      <3> QED
        BY <1>3, <2>2, <3>1 DEF LastBefore
    <2>3. CASE \E k \in Reader!Lines(b, key) :
                   /\ k < n /\ b.lines[k].value = v
                   /\ \A m \in Reader!Lines(b, key) : m < n => m <= k
      <3>1. PICK k \in Reader!Lines(b, key) :
                   /\ k < n /\ b.lines[k].value = v
                   /\ \A m \in Reader!Lines(b, key) : m < n => m <= k
        BY <2>3
      <3>2. k < n + 1 /\ \A m \in Reader!Lines(b, key) : m < n + 1 => m <= k
        BY <1>1, <2>1, <3>1
      <3> QED
        BY <1>3, <3>1, <3>2 DEF LastBefore
    <2> QED
      BY <2>2, <2>3 DEF LastBefore
  <1> QED
    BY <1>2, <1>3

\* After the last line, the last value before is the last one of the block.
LEMMA LastOfBlock ==
    ASSUME NEW b \in Reader!Block, NEW n \in Nat, n > Len(b.lines), NEW key, NEW v,
           LastBefore(b, key, n, v)
    PROVE  v = Reader!LastValue(b, key)
  <1>1. \A m \in Reader!Lines(b, key) : m \in Nat /\ m < n
    BY BlockFacts
  <1>2. CASE v = Empty /\ \A m \in Reader!Lines(b, key) : m >= n
    <2>1. Reader!Lines(b, key) = {}
      BY <1>1, <1>2
    <2> QED
      BY <1>2, <2>1 DEF Reader!LastValue
  <1>3. CASE \E k \in Reader!Lines(b, key) :
                 /\ k < n /\ b.lines[k].value = v
                 /\ \A m \in Reader!Lines(b, key) : m < n => m <= k
    <2>1. PICK k \in Reader!Lines(b, key) :
                 /\ k < n /\ b.lines[k].value = v
                 /\ \A m \in Reader!Lines(b, key) : m < n => m <= k
      BY <1>3
    <2> DEFINE last == CHOOSE i \in Reader!Lines(b, key) : \A m \in Reader!Lines(b, key) : m <= i
    <2>2. \A m \in Reader!Lines(b, key) : m <= k
      BY <1>1, <2>1
    <2>3. last \in Reader!Lines(b, key) /\ \A m \in Reader!Lines(b, key) : m <= last
      BY <2>2
    <2> HIDE DEF last
    <2>4. last <= k /\ k <= last
      BY <2>2, <2>3
    <2>5. last = k
      BY <1>1, <2>3, <2>4
    <2>6. Reader!LastValue(b, key) = b.lines[last].value
      BY <2>1 DEF Reader!LastValue, last
    <2> QED
      BY <2>1, <2>5, <2>6
  <1> QED
    BY <1>2, <1>3 DEF LastBefore

readerVars == <<file, block, line, spec, tasks, depList, parse>>

\* When the call begins nothing is read.
LEMMA ReadInit == Reader!Init => ReadInv
  <1> SUFFICES ASSUME Reader!Init PROVE ReadInv
    OBVIOUS
  <1>1. /\ file \in Files /\ block = 1 /\ line = 1 /\ spec = Reader!NewSpec
        /\ tasks = <<>> /\ depList = [t \in Task |-> <<>>] /\ parse = "reading"
    BY DEF Reader!Init
  <1>2. Past = {}
    BY <1>1, FileFacts DEF Past
  <1>3. Position
    <2>1. spec \in [id : Values, session : Values, mode : {"new", "resume"}, deps : Seq(Names)]
      BY <1>1 DEF Reader!NewSpec, Values
    <2>2. block \in DOMAIN file => LinesRead(file[block], line, spec)
      BY <1>1, FileFacts, NothingRead
    <2> QED
      BY <1>1, <2>1, <2>2 DEF Position, AtStart
  <1>4. TasksRead
    <2>1. Len(tasks) = Cardinality(Past)
      BY <1>1, <1>2, FS_EmptySet
    <2> QED
      BY <1>1, <1>2, <2>1 DEF TasksRead
  <1> QED
    BY <1>1, <1>3, <1>4 DEF ReadInv, Decided

\* What the end of a call leaves alone.
LEMMA KeepRead ==
    ASSUME ReadInv, UNCHANGED <<file, block, line, spec, tasks, depList>>, Decided'
    PROVE  ReadInv'
  <1>1. Past' = Past /\ \A i : IdOf(i)' = IdOf(i)
    BY DEF Past, IdOf
  <1>2. Position'
    BY DEF ReadInv, Position, AtStart
  <1>3. TasksRead'
    BY <1>1 DEF ReadInv, TasksRead
  <1> QED
    BY <1>2, <1>3 DEF ReadInv

\* A block that is not well formed makes the file one to refuse.
LEMMA BadBlock ==
    ASSUME ReadInv, block \in DOMAIN file, ~file[block].blank,
           ~Reader!WellFormed(file[block])
    PROVE  ~Reader!Acceptable(file)
  BY DEF Reader!Acceptable, Reader!Blocks

\* At the end of a block its task is what the block says.
LEMMA BlockRead ==
    ASSUME ReadInv, Reader!AtEndOfBlock
    PROVE  /\ parse = "reading" /\ block \in DOMAIN file /\ file[block] \in Reader!Block
           /\ block \in Reader!Blocks(file) /\ file[block].separator
           /\ spec.id = IdOf(block)
           /\ spec.session = Reader!LastValue(file[block], "session_id")
           /\ spec.mode = "resume" <=> Reader!Lines(file[block], "session_id") # {}
           /\ ToSet(spec.deps) = Reader!NamedIn(file[block])
           /\ Reader!Lines(file[block], "no such key") = {}
           /\ \A n \in Reader!Lines(file[block], "workdir") : file[block].lines[n].value # "-"
  <1> DEFINE b == file[block]
  <1>1. /\ parse = "reading" /\ block \in DOMAIN file /\ ~b.blank /\ b.separator
        /\ line > Len(b.lines)
    BY DEF Reader!AtEndOfBlock, Reader!InBlock, Reader!AtBlock
  <1>2. b \in Reader!Block /\ block \in Reader!Blocks(file) /\ line \in Nat
    BY <1>1, FileFacts DEF ReadInv, Position, Reader!Blocks
  <1>3. LinesRead(b, line, spec)
    BY <1>1 DEF ReadInv, Position
  <1> HIDE DEF b
  <1>4. \A key : \A m \in Reader!Lines(b, key) : m \in DOMAIN b.lines /\ m < line
    BY <1>1, <1>2, BlockFacts
  <1>5. /\ spec.id = Reader!LastValue(b, "id")
        /\ spec.session = Reader!LastValue(b, "session_id")
    BY <1>1, <1>2, <1>3, LastOfBlock DEF LinesRead
  <1>6. spec.mode = "resume" <=> Reader!Lines(b, "session_id") # {}
    BY <1>3, <1>4 DEF LinesRead
  <1>7. ToSet(spec.deps) = Reader!NamedIn(b)
    <2>1. ToSet(spec.deps) = NamedBefore(b, line)
      BY <1>3 DEF LinesRead
    <2>2. NamedBefore(b, line) = Reader!NamedIn(b)
      BY <1>4, SameToSet DEF NamedBefore, Reader!NamedIn
    <2> QED
      BY <2>1, <2>2
  <1>8. /\ Reader!Lines(b, "no such key") = {}
        /\ \A n \in Reader!Lines(b, "workdir") : b.lines[n].value # "-"
    <2>1. \A key : \A m \in Reader!Lines(b, key) : b.lines[m].key = key /\ ~Reader!BadLine(b.lines[m])
      BY <1>3, <1>4 DEF LinesRead, Reader!Lines
    <2> QED
      BY <2>1 DEF Reader!BadLine
  <1> QED
    BY <1>1, <1>2, <1>5, <1>6, <1>7, <1>8 DEF b, IdOf

\* A blank block is passed over.
LEMMA PassBlankStep ==
    ASSUME ReadInv, Reader!PassBlank
    PROVE  ReadInv'
  <1>0. /\ parse = "reading" /\ block \in DOMAIN file /\ file[block].blank
        /\ block' = block + 1 /\ UNCHANGED <<file, line, spec, tasks, depList, parse>>
    BY DEF Reader!PassBlank, Reader!AtBlock
  <1>1. AtStart /\ block \in Nat \ {0}
    BY <1>0 DEF ReadInv, Position
  <1>2. Past' = Past /\ \A i : IdOf(i)' = IdOf(i)
    <2>1. \A i \in Reader!Blocks(file) : i \in Nat /\ i # block
      BY <1>0, FileFacts DEF ReadInv, Reader!Blocks
    <2>2. \A i \in Reader!Blocks(file) : i < block + 1 <=> i < block
      BY <1>1, <2>1
    <2> QED
      BY <1>0, <2>2 DEF Past, IdOf
  <1>3. Position'
    <2>1. block + 1 \in DOMAIN file => LinesRead(file[block + 1], 1, Reader!NewSpec)
      BY FileFacts, NothingRead DEF ReadInv
    <2>2. block' \in DOMAIN file' => LinesRead(file'[block'], line', spec')
      BY <1>0, <1>1, <2>1 DEF AtStart
    <2> QED
      BY <1>0, <1>1, <2>2 DEF ReadInv, Position, AtStart
  <1>4. TasksRead'
    BY <1>0, <1>2 DEF ReadInv, TasksRead
  <1>5. Decided'
    BY <1>0 DEF Decided
  <1> QED
    BY <1>0, <1>3, <1>4, <1>5 DEF ReadInv

\* A block or a line that is wrong ends the call.
LEMMA RefuseSteps ==
    ASSUME ReadInv, Reader!MissSeparator \/ Reader!RefuseLine \/ Reader!RefuseBlock
    PROVE  ReadInv'
  <1>1. ASSUME NEW why, Reader!Refuse(why), why \notin {"reading", "accepted"},
               ~Reader!Acceptable(file)
        PROVE  ReadInv'
    <2>1. UNCHANGED <<file, block, line, spec, tasks, depList>> /\ parse' = why
      BY <1>1 DEF Reader!Refuse
    <2>2. Decided'
      BY <1>1, <2>1 DEF Decided
    <2> QED
      BY <2>1, <2>2, KeepRead
  <1>2. CASE Reader!MissSeparator
    <2>1. block \in DOMAIN file /\ ~file[block].blank /\ ~file[block].separator
          /\ Reader!Refuse("separator")
      BY <1>2 DEF Reader!MissSeparator, Reader!AtBlock
    <2>2. ~Reader!Acceptable(file)
      BY <2>1, BadBlock DEF Reader!WellFormed
    <2> QED
      BY <1>1, <2>1, <2>2
  <1>3. CASE Reader!RefuseLine
    <2> DEFINE b == file[block]
    <2>1. /\ block \in DOMAIN file /\ ~b.blank /\ line \in DOMAIN b.lines
          /\ Reader!BadLine(b.lines[line]) /\ Reader!Refuse("line")
      BY <1>3 DEF Reader!RefuseLine, Reader!AtLine, Reader!InBlock, Reader!AtBlock
    <2>2. ~Reader!WellFormed(b)
      BY <2>1 DEF Reader!WellFormed, Reader!BadLine, Reader!Lines
    <2> QED
      BY <1>1, <2>1, <2>2, BadBlock
  <1>4. CASE Reader!RefuseBlock
    <2> DEFINE b == file[block]
    <2>1. Reader!AtEndOfBlock /\ Reader!Verdict # "none" /\ Reader!Refuse(Reader!Verdict)
      BY <1>4 DEF Reader!RefuseBlock
    <2>2. /\ block \in DOMAIN file /\ block \in Reader!Blocks(file) /\ ~b.blank
          /\ spec.id = IdOf(block)
          /\ spec.session = Reader!LastValue(b, "session_id")
          /\ spec.mode = "resume" <=> Reader!Lines(b, "session_id") # {}
      BY <2>1, BlockRead DEF Reader!Blocks
    <2>3. Reader!Verdict \in {"id", "content", "session", "duplicate"}
      BY <2>1 DEF Reader!Verdict
    <2>4. ~Reader!Acceptable(file)
      <3>1. CASE spec.id = Empty \/ ~b.content \/ (spec.mode = "resume" /\ spec.session = Empty)
        <4>1. ~Reader!WellFormed(b)
          BY <2>2, <3>1 DEF Reader!WellFormed, IdOf
        <4> QED
          BY <2>2, <4>1, BadBlock
      <3>2. CASE Reader!Contains(tasks, spec.id)
        <4>1. tasks \in Seq(Values)
          BY DEF ReadInv, TasksRead
        <4>2. PICK k \in DOMAIN tasks : tasks[k] = spec.id
          BY <3>2, <4>1 DEF Reader!Contains
        <4>3. PICK i \in Past : Reader!Rank(Reader!Blocks(file), i) = k
          BY DEF ReadInv, TasksRead
        <4>4. IdOf(i) = IdOf(block)
          BY <2>2, <4>2, <4>3 DEF ReadInv, TasksRead
        <4>5. i \in Reader!Blocks(file) /\ i # block
          BY FileFacts DEF Past, ReadInv, Position
        <4> QED
          BY <2>2, <4>4, <4>5 DEF Reader!Acceptable, IdOf
      <3> QED
        BY <2>1, <3>1, <3>2 DEF Reader!Verdict
    <2> QED
      BY <1>1, <2>1, <2>3, <2>4
  <1> QED
    BY <1>2, <1>3, <1>4

\* What one line does to each part of the task.
LEMMA TakeFacts ==
    ASSUME ReadInv, NEW l,
           l.key = "dependencies" => l.value \in Seq(Names \cup {Empty}),
           l.key # "dependencies" => l.value \in Values
    PROVE  LET s == Reader!Take(l)
           IN  /\ s \in [id : Values, session : Values, mode : {"new", "resume"},
                         deps : Seq(Names)]
               /\ s.id = IF l.key = "id" THEN l.value ELSE spec.id
               /\ s.session = IF l.key = "session_id" THEN l.value ELSE spec.session
               /\ s.mode = IF l.key = "session_id" THEN "resume" ELSE spec.mode
               /\ s.deps = IF l.key = "dependencies" THEN spec.deps \o Reader!Named(l)
                           ELSE spec.deps
  <1> DEFINE Specs == [id : Values, session : Values, mode : {"new", "resume"},
                       deps : Seq(Names)]
  <1>1. spec \in Specs
    BY DEF ReadInv, Position
  <1>2. CASE l.key = "id"
    <2>1. Reader!Take(l) = [spec EXCEPT !.id = l.value]
      BY <1>2 DEF Reader!Take
    <2> QED
      BY <1>1, <1>2, <2>1
  <1>3. CASE l.key = "session_id"
    <2>1. Reader!Take(l) = [spec EXCEPT !.session = l.value, !.mode = "resume"]
      BY <1>3 DEF Reader!Take
    <2> QED
      BY <1>1, <1>3, <2>1
  <1>4. CASE l.key = "dependencies"
    <2>1. Reader!Take(l) = [spec EXCEPT !.deps = spec.deps \o Reader!Named(l)]
      BY <1>4 DEF Reader!Take
    <2>2. spec.deps \o Reader!Named(l) \in Seq(Names)
      BY <1>1, <1>4, NamedFacts
    <2> QED
      BY <1>1, <1>4, <2>1, <2>2
  <1>5. CASE l.key \notin {"id", "session_id", "dependencies"}
    <2>1. Reader!Take(l) = spec
      BY <1>5 DEF Reader!Take
    <2> QED
      BY <1>1, <1>5, <2>1
  <1> QED
    BY <1>2, <1>3, <1>4, <1>5

\* A line adds what it says to what the lines before have said.
LEMMA ReadLineStep ==
    ASSUME ReadInv, Reader!ReadLine
    PROVE  ReadInv'
  <1> DEFINE b == file[block]
             l == b.lines[line]
             s == Reader!Take(l)
  <1>0. /\ parse = "reading" /\ block \in DOMAIN file /\ ~b.blank /\ b.separator
        /\ line \in DOMAIN b.lines /\ ~Reader!BadLine(l)
        /\ spec' = s /\ line' = line + 1
        /\ UNCHANGED <<file, block, tasks, depList, parse>>
    BY DEF Reader!ReadLine, Reader!AtLine, Reader!InBlock, Reader!AtBlock
  <1>1. /\ b \in Reader!Block /\ line \in Nat \ {0} /\ line + 1 \in Nat \ {0}
        /\ block \in Nat \ {0} /\ DOMAIN b.lines \subseteq Nat
    BY <1>0, FileFacts, BlockFacts DEF ReadInv, Position
  <1>2. LinesRead(b, line, spec)
    BY <1>0 DEF ReadInv, Position
  <1>3. /\ l.key = "dependencies" => l.value \in Seq(Names \cup {Empty})
        /\ l.key # "dependencies" => l.value \in Values
    BY <1>0, <1>1, BlockFacts
  <1>4. /\ s \in [id : Values, session : Values, mode : {"new", "resume"}, deps : Seq(Names)]
        /\ s.id = IF l.key = "id" THEN l.value ELSE spec.id
        /\ s.session = IF l.key = "session_id" THEN l.value ELSE spec.session
        /\ s.mode = IF l.key = "session_id" THEN "resume" ELSE spec.mode
        /\ s.deps = IF l.key = "dependencies" THEN spec.deps \o Reader!Named(l)
                    ELSE spec.deps
    BY <1>3, TakeFacts
  <1>5. LinesRead(b, line + 1, s)
    <2> HIDE DEF b, s
    <2>1. LastBefore(b, "id", line + 1, s.id) /\ LastBefore(b, "session_id", line + 1, s.session)
      <3>1. LastBefore(b, "id", line, spec.id) /\ LastBefore(b, "session_id", line, spec.session)
        BY <1>2 DEF LinesRead
      <3>2. LastBefore(b, "id", line + 1, IF l.key = "id" THEN l.value ELSE spec.id)
        BY <1>0, <1>1, <3>1, NextLine
      <3>3. LastBefore(b, "session_id", line + 1,
                       IF l.key = "session_id" THEN l.value ELSE spec.session)
        BY <1>0, <1>1, <3>1, NextLine
      <3> QED
        BY <1>4, <3>2, <3>3
    <2>2. \A key : \A m \in Reader!Lines(b, key) :
              m \in Nat /\ (m < line + 1 <=> m < line \/ m = line)
      BY <1>1 DEF Reader!Lines
    <2>3. \A key : line \in Reader!Lines(b, key) <=> l.key = key
      BY <1>0 DEF Reader!Lines, b
    <2>4. s.mode = "resume" <=> \E m \in Reader!Lines(b, "session_id") : m < line + 1
      <3>1. spec.mode = "resume" <=> \E m \in Reader!Lines(b, "session_id") : m < line
        BY <1>2 DEF LinesRead
      <3> QED
        BY <1>4, <2>2, <2>3, <3>1
    <2>5. \A m \in DOMAIN b.lines : m < line + 1 => ~Reader!BadLine(b.lines[m])
      <3>1. \A m \in DOMAIN b.lines : m < line + 1 => m < line \/ m = line
        BY <1>1
      <3> QED
        BY <1>0, <1>2, <3>1 DEF LinesRead, b
    <2>6. ToSet(s.deps) = NamedBefore(b, line + 1)
      <3>1. spec.deps \in Seq(Names) /\ ToSet(spec.deps) = NamedBefore(b, line)
        BY <1>2 DEF LinesRead
      <3>2. CASE l.key = "dependencies"
        <4> DEFINE q == Reader!Named(l)
        <4>1. q \in Seq(Names)
              /\ ToSet(q) = {name \in Names : name # Empty /\ name \in ToSet(l.value)}
          BY <1>3, <3>2, NamedFacts
        <4> HIDE DEF q
        <4>2. ToSet(spec.deps \o q) = ToSet(spec.deps) \cup ToSet(q)
          <5>1. \A x : x \in ToSet(spec.deps \o q) => x \in ToSet(spec.deps) \/ x \in ToSet(q)
            BY <3>1, <4>1 DEF ToSet
          <5>2. \A x : x \in ToSet(spec.deps) => x \in ToSet(spec.deps \o q)
            BY <3>1, <4>1 DEF ToSet
          <5>3. \A x : x \in ToSet(q) => x \in ToSet(spec.deps \o q)
            <6> SUFFICES ASSUME NEW i \in DOMAIN q PROVE q[i] \in ToSet(spec.deps \o q)
              BY DEF ToSet
            <6>1. /\ Len(spec.deps) + i \in DOMAIN (spec.deps \o q)
                  /\ (spec.deps \o q)[Len(spec.deps) + i] = q[i]
              BY <3>1, <4>1
            <6> QED
              BY <6>1 DEF ToSet
          <5> QED
            BY <5>1, <5>2, <5>3
        <4>3. NamedBefore(b, line + 1) = NamedBefore(b, line) \cup ToSet(q)
          <5>1. line \in Reader!Lines(b, "dependencies") /\ b.lines[line].value = l.value
            BY <2>3, <3>2 DEF b
          <5> QED
            BY <2>2, <4>1, <5>1 DEF NamedBefore
        <4> QED
          BY <1>4, <3>1, <3>2, <4>2, <4>3 DEF q
      <3>3. CASE l.key # "dependencies"
        <4>1. NamedBefore(b, line + 1) = NamedBefore(b, line)
          BY <2>2, <2>3, <3>3 DEF NamedBefore
        <4> QED
          BY <1>4, <3>1, <3>3, <4>1
      <3> QED
        BY <3>2, <3>3
    <2> QED
      BY <1>4, <2>1, <2>4, <2>5, <2>6 DEF LinesRead
  <1>6. Position'
    <2> HIDE DEF s
    <2>1. LinesRead(file'[block'], line', spec')
      BY <1>0, <1>5
    <2> QED
      BY <1>0, <1>1, <1>4, <2>1 DEF Position
  <1>7. TasksRead'
    <2>1. Past' = Past /\ \A i : IdOf(i)' = IdOf(i)
      BY <1>0 DEF Past, IdOf
    <2> QED
      BY <1>0, <2>1 DEF ReadInv, TasksRead
  <1>8. Decided'
    BY <1>0 DEF Decided
  <1> QED
    BY <1>0, <1>6, <1>7, <1>8 DEF ReadInv

\* A block that is right adds its task, under an id no block before has.
LEMMA AddTaskStep ==
    ASSUME ReadInv, Reader!AddTask
    PROVE  ReadInv'
  <1> DEFINE b == file[block]
             B == Reader!Blocks(file)
             id == spec.id
  <1>0. /\ Reader!AtEndOfBlock /\ Reader!Verdict = "none"
        /\ tasks' = Append(tasks, id) /\ depList' = [depList EXCEPT ![id] = spec.deps]
        /\ block' = block + 1 /\ line' = 1 /\ spec' = Reader!NewSpec
        /\ UNCHANGED <<file, parse>>
    BY DEF Reader!AddTask
  <1>1. /\ parse = "reading" /\ block \in DOMAIN file /\ b \in Reader!Block
        /\ block \in B /\ b.separator /\ id = IdOf(block)
        /\ spec.session = Reader!LastValue(b, "session_id")
        /\ spec.mode = "resume" <=> Reader!Lines(b, "session_id") # {}
        /\ ToSet(spec.deps) = Reader!NamedIn(b)
        /\ Reader!Lines(b, "no such key") = {}
        /\ \A n \in Reader!Lines(b, "workdir") : b.lines[n].value # "-"
    BY <1>0, BlockRead
  <1>2. /\ id # Empty /\ b.content /\ ~(spec.mode = "resume" /\ spec.session = Empty)
        /\ ~Reader!Contains(tasks, id)
    BY <1>0 DEF Reader!Verdict
  <1>3. Reader!WellFormed(b)
    BY <1>1, <1>2 DEF Reader!WellFormed, IdOf
  <1>4. /\ tasks \in Seq(Values) /\ id \in Values /\ spec.deps \in Seq(Names)
        /\ depList \in [Task -> Seq(Names)]
        /\ block \in Nat \ {0} /\ B \in SUBSET Nat /\ IsFiniteSet(B)
    BY FileFacts DEF ReadInv, TasksRead, Position
  <1> DEFINE k == Len(tasks) + 1
  <1>5. /\ tasks' \in Seq(Values) /\ DOMAIN tasks' = 1 .. k /\ Len(tasks') = k
        /\ DOMAIN tasks = 1 .. Len(tasks) /\ Len(tasks) \in Nat
        /\ \A n \in DOMAIN tasks : tasks'[n] = tasks[n] /\ n \in DOMAIN tasks'
        /\ tasks'[k] = id /\ k \in DOMAIN tasks'
    BY <1>0, <1>4
  <1>6. Past' = Past \cup {block} /\ block \notin Past /\ Past \subseteq B
        /\ \A i : IdOf(i)' = IdOf(i)
    <2>1. \A i \in B : i < block + 1 <=> i < block \/ i = block
      BY <1>4
    <2>2. ~(block < block)
      BY <1>4
    <2> QED
      BY <1>0, <1>1, <2>1, <2>2 DEF Past, IdOf
  <1>7. Cardinality(Past') = k /\ Reader!Rank(B, block) = k
    <2>1. IsFiniteSet(Past)
      BY <1>4, <1>6, FS_Subset
    <2>2. Cardinality(Past \cup {block}) = Cardinality(Past) + 1
      BY <1>6, <2>1, FS_AddElement
    <2>3. Len(tasks) = Cardinality(Past)
      BY DEF ReadInv, TasksRead
    <2>4. {j \in B : j <= block} = Past \cup {block}
      <3>1. \A j \in B : j <= block <=> j < block \/ j = block
        BY <1>4
      <3> QED
        BY <1>1, <3>1 DEF Past
    <2>5. Reader!Rank(B, block) = Cardinality({j \in B : j <= block})
      BY SameIndices
    <2> QED
      BY <1>6, <2>2, <2>3, <2>4, <2>5
  <1>8. ASSUME NEW i \in Past PROVE IdOf(i) # id
    <2>1. Reader!Rank(B, i) \in DOMAIN tasks /\ tasks[Reader!Rank(B, i)] = IdOf(i)
      BY DEF ReadInv, TasksRead
    <2>2. \A n \in DOMAIN tasks : tasks[n] # id
      BY <1>2, <1>4, <1>5 DEF Reader!Contains
    <2> QED
      BY <2>1, <2>2
  <1>9. Position'
    <2>1. block + 1 \in DOMAIN file => LinesRead(file[block + 1], 1, Reader!NewSpec)
      BY FileFacts, NothingRead DEF ReadInv
    <2>2. Reader!NewSpec \in [id : Values, session : Values, mode : {"new", "resume"},
                              deps : Seq(Names)]
      BY DEF Reader!NewSpec, Values
    <2>3. block' \in DOMAIN file' => LinesRead(file'[block'], line', spec')
      BY <1>0, <2>1
    <2>4. AtStart'
      BY <1>0 DEF AtStart
    <2> QED
      BY <1>0, <1>4, <2>2, <2>3, <2>4 DEF Position
  <1>10. TasksRead'
    <2>1. depList' \in [Task -> Seq(Names)]
      BY <1>0, <1>4
    <2>2. \A n \in DOMAIN tasks' : \E i \in Past' : Reader!Rank(B, i) = n
      <3>1. \A n \in DOMAIN tasks : \E i \in Past : Reader!Rank(B, i) = n
        BY DEF ReadInv, TasksRead
      <3>2. \A n \in DOMAIN tasks' : n \in DOMAIN tasks \/ n = k
        BY <1>5
      <3> QED
        BY <1>6, <1>7, <3>1, <3>2
    <2>3. ASSUME NEW i \in Past'
          PROVE  /\ Reader!WellFormed(file[i])
                 /\ Reader!Rank(B, i) \in DOMAIN tasks'
                 /\ tasks'[Reader!Rank(B, i)] = IdOf(i)
                 /\ IdOf(i) \in Task => ToSet(depList'[IdOf(i)]) = Reader!NamedIn(file[i])
      <3>1. CASE i \in Past
        <4>1. /\ Reader!WellFormed(file[i])
              /\ Reader!Rank(B, i) \in DOMAIN tasks
              /\ tasks[Reader!Rank(B, i)] = IdOf(i)
              /\ IdOf(i) \in Task => ToSet(depList[IdOf(i)]) = Reader!NamedIn(file[i])
          BY <3>1 DEF ReadInv, TasksRead
        <4>2. IdOf(i) \in Task => depList'[IdOf(i)] = depList[IdOf(i)]
          BY <1>0, <1>4, <1>8, <3>1
        <4> QED
          BY <1>5, <4>1, <4>2
      <3>2. CASE i = block
        <4>1. IdOf(i) \in Task => depList'[IdOf(i)] = spec.deps
          BY <1>0, <1>1, <1>4, <3>2
        <4> QED
          BY <1>1, <1>3, <1>5, <1>7, <3>2, <4>1
      <3> QED
        BY <1>6, <3>1, <3>2
    <2>4. \A i, j \in Past' : IdOf(i) = IdOf(j) => i = j
      <3>1. \A i, j \in Past : IdOf(i) = IdOf(j) => i = j
        BY DEF ReadInv, TasksRead
      <3> QED
        BY <1>1, <1>6, <1>8, <3>1
    <2>5. Len(tasks') = Cardinality(Past')
      BY <1>5, <1>7
    <2> QED
      BY <1>0, <1>5, <1>6, <2>1, <2>2, <2>3, <2>4, <2>5 DEF TasksRead
  <1>11. Decided'
    BY <1>0, <1>1 DEF Decided
  <1> QED
    BY <1>0, <1>9, <1>10, <1>11 DEF ReadInv

\* The end of the file: it is accepted if it has a task.
LEMMA EndOfFileStep ==
    ASSUME ReadInv, Reader!EndOfFile
    PROVE  ReadInv'
  <1>0. /\ block > Len(file) /\ parse' = IF tasks = <<>> THEN "no tasks" ELSE "accepted"
        /\ UNCHANGED <<file, block, line, spec, tasks, depList>>
    BY DEF Reader!EndOfFile
  <1>1. CASE tasks # <<>>
    BY <1>0, <1>1, KeepRead DEF Decided
  <1>2. CASE tasks = <<>>
    <2>1. Past = {}
      BY <1>2 DEF ReadInv, TasksRead
    <2>2. \A i \in Reader!Blocks(file) : i < block
      <3>1. block \in Nat
        BY DEF ReadInv, Position
      <3> DEFINE n == Len(file)
      <3>2. /\ Reader!Blocks(file) \subseteq DOMAIN file
            /\ DOMAIN file = 1 .. n /\ n \in Nat
        BY FileFacts DEF ReadInv
      <3>3. block > n
        BY <1>0
      <3> HIDE DEF n
      <3> QED
        BY <3>1, <3>2, <3>3
    <2>3. Reader!Blocks(file) = {}
      BY <2>1, <2>2 DEF Past
    <2>4. ~Reader!Acceptable(file)
      BY <2>3 DEF Reader!Acceptable
    <2> QED
      BY <1>0, <1>2, <2>4, KeepRead DEF Decided
  <1> QED
    BY <1>1, <1>2

\* Every step of the parser keeps its invariant.
LEMMA ReadStep ==
    ASSUME ReadInv, Reader!Read \/ UNCHANGED readVars
    PROVE  ReadInv'
  <1>1. CASE UNCHANGED readVars
    BY <1>1, KeepRead DEF readVars, ReadInv, Decided
  <1> QED
    BY <1>1, PassBlankStep, RefuseSteps, ReadLineStep, AddTaskStep, EndOfFileStep
       DEF Reader!Read

\* An accepted file has been read to its end, so what holds of the blocks read so far
\* holds of all.
LEMMA Accepted ==
    ASSUME ReadInv, parse = "accepted"
    PROVE  /\ Past = Reader!Blocks(file)
           /\ Reader!Acceptable(file)
           /\ {IdOf(i) : i \in Past} = Task
  <1>1. Past = Reader!Blocks(file)
    BY FileFacts DEF ReadInv, Position, Decided, Past
  <1>2. tasks \in Seq(Values) /\ tasks # <<>>
    BY DEF ReadInv, TasksRead, Decided
  <1>3. Past # {}
    <2>1. 1 \in DOMAIN tasks
      BY <1>2
    <2> QED
      BY <2>1 DEF ReadInv, TasksRead
  <1>4. Reader!Acceptable(file)
    BY <1>1, <1>3 DEF ReadInv, TasksRead, Reader!Acceptable, IdOf
  <1> QED
    BY <1>1, <1>4, FilesAssumption DEF ReadInv, IdOf

\* The invariant says that the parser's answer is right.
LEMMA FileRight ==
    ASSUME ReadInv
    PROVE  FileReadRight
  <1>1. CASE parse = "accepted"
    <2>1. \A i \in Past :
              /\ tasks[Reader!Rank(Reader!Blocks(file), i)] = IdOf(i)
              /\ IdOf(i) \in Task => ToSet(depList[IdOf(i)]) = Reader!NamedIn(file[i])
      BY DEF ReadInv, TasksRead
    <2>2. Len(tasks) = Reader!Cardinality(Reader!Blocks(file))
      BY <1>1, Accepted, SameCardinality DEF ReadInv, TasksRead
    <2>3. \A i \in Past : IdOf(i) \in Task
      BY <1>1, Accepted
    <2>4. \A i \in Past : Reader!ToSet(depList[IdOf(i)]) = Reader!NamedIn(file[i])
      BY <2>1, <2>3, SameToSet
    <2> QED
      BY <1>1, <2>1, <2>2, <2>4, Accepted DEF FileReadRight, Reader!FileReadRight, IdOf
  <1>2. CASE parse # "accepted"
    BY <1>2 DEF FileReadRight, Reader!FileReadRight, ReadInv, Decided
  <1> QED
    BY <1>1, <1>2

\* What the sorter is handed is what it is proved for: every task once, in the order
\* of the blocks.
LEMMA HandOver ==
    ASSUME ReadInv, parse = "accepted"
    PROVE  SortThm!Input
  <1> DEFINE B == Reader!Blocks(file)
  <1>1. /\ Past = B /\ {IdOf(i) : i \in Past} = Task
        /\ B \in SUBSET Nat /\ IsFiniteSet(B)
    BY Accepted, FileFacts DEF ReadInv
  <1>2. /\ tasks \in Seq(Values) /\ depList \in [Task -> Seq(Names)]
        /\ \A k \in DOMAIN tasks : \E i \in Past : Reader!Rank(B, i) = k
        /\ \A i \in Past : /\ Reader!Rank(B, i) \in DOMAIN tasks
                           /\ tasks[Reader!Rank(B, i)] = IdOf(i)
        /\ \A i, j \in Past : IdOf(i) = IdOf(j) => i = j
    BY DEF ReadInv, TasksRead
  <1> HIDE DEF B
  <1>3. ASSUME NEW k \in DOMAIN tasks PROVE tasks[k] \in Task
    <2>1. PICK i \in Past : Reader!Rank(B, i) = k
      BY <1>2
    <2>2. tasks[k] = IdOf(i)
      BY <1>2, <2>1
    <2> QED
      BY <1>1, <2>2
  <1>4. tasks \in Seq(Task)
    BY <1>2, <1>3
  <1>5. \A k, m \in DOMAIN tasks : tasks[k] = tasks[m] => k = m
    BY <1>2
  <1>6. \A t \in Task : \E k \in DOMAIN tasks : tasks[k] = t
    BY <1>1, <1>2
  <1>7. SortThm!IsInjective(tasks)
    BY <1>5 DEF SortThm!IsInjective
  <1>8. SortThm!ToSet(tasks) = Task
    BY <1>3, <1>6 DEF SortThm!ToSet
  <1>9. SortThm!IsFiniteSet(Task)
    BY SameFiniteness, NamesAssumption
  <1> QED
    BY <1>2, <1>4, <1>7, <1>8, <1>9 DEF SortThm!Input

-----------------------------------------------------------------------------
(* The sorter and the executor the run is made of are those the theorems are *)
(* about.                                                                    *)

LEMMA SameSort ==
    /\ Sort!Init = SortThm!Init
    /\ Sort!SortStep => SortThm!SortStep
    /\ SortThm!VerdictRight => Sort!VerdictRight
    /\ Sort!EarliestLayer = SortThm!EarliestLayer
  <1>1. \A S : Sort!InOrder(S) = SortThm!InOrder(S)
    <2>1. \A I, i : Sort!Rank(I, i) = SortThm!Rank(I, i)
      BY SameCardinality DEF Sort!Rank, SortThm!Rank
    <2>2. ASSUME NEW s, NEW I PROVE Sort!AtIndices(s, I) = SortThm!AtIndices(s, I)
      <3>1. Sort!Cardinality(I) = SortThm!Cardinality(I)
        BY SameCardinality
      <3> QED
        BY <2>1, <3>1 DEF Sort!AtIndices, SortThm!AtIndices
    <2> QED
      BY <2>2 DEF Sort!InOrder, SortThm!InOrder
  <1>2. \A t, d : Cardinality(Sort!Occurrences(t, d)) = Cardinality(SortThm!Occurrences(t, d))
    BY DEF Sort!Occurrences, SortThm!Occurrences
  <1>3. Sort!Init = SortThm!Init
    BY DEF Sort!Init, SortThm!Init
  <1>4. Sort!Current = SortThm!Current
    BY DEF Sort!Current, SortThm!Current, Sort!Last, SortThm!Last
  <1>5. Sort!MissingDependency => SortThm!MissingDependency
    BY SameToSet DEF Sort!MissingDependency, SortThm!MissingDependency
  <1>6. Sort!CountDependencies => SortThm!CountDependencies
    BY SameToSet, <1>1 DEF Sort!CountDependencies, SortThm!CountDependencies
  <1>7. Sort!TakeLayer => SortThm!TakeLayer
    BY <1>4 DEF Sort!TakeLayer, SortThm!TakeLayer
  <1>8. Sort!Relax => SortThm!Relax
    BY <1>1, <1>2, <1>4, SameCardinality DEF Sort!Relax, SortThm!Relax,
           Sort!Occurrences, SortThm!Occurrences
  <1>9. Sort!Finish => SortThm!Finish
    BY <1>4 DEF Sort!Finish, SortThm!Finish
  <1>10. Sort!SortStep => SortThm!SortStep
    BY <1>5, <1>6, <1>7, <1>8, <1>9 DEF Sort!SortStep, SortThm!SortStep
  <1>11. \A t : Sort!DependsOn(t) = SortThm!DependsOn(t)
    BY SameToSet DEF Sort!DependsOn, SortThm!DependsOn
  <1>12. SortThm!VerdictRight => Sort!VerdictRight
    BY <1>11 DEF Sort!VerdictRight, SortThm!VerdictRight, Sort!Cyclic, SortThm!Cyclic
  <1>13. Sort!EarliestLayer = SortThm!EarliestLayer
    BY <1>11, SameToSet DEF Sort!EarliestLayer, SortThm!EarliestLayer
  <1> QED
    BY <1>3, <1>10, <1>12, <1>13

LEMMA SameExec ==
    /\ Exec!IdleInit = ExecThm!IdleInit
    /\ \A ds, ls : Exec!Layered(ds, ls) = ExecThm!Layered(ds, ls)
    /\ Exec!Main => ExecThm!Main
    /\ \A t \in Task : Exec!Worker(t) => ExecThm!Worker(t)
  <1>1. Exec!IdleInit = ExecThm!IdleInit
    BY DEF Exec!IdleInit, ExecThm!IdleInit
  <1>2. \A ds, ls : Exec!Layered(ds, ls) = ExecThm!Layered(ds, ls)
    BY DEF Exec!Layered, ExecThm!Layered
  <1>3. Exec!Main => ExecThm!Main
    BY DEF Exec!Main, ExecThm!Main, Exec!SkipTask, ExecThm!SkipTask, Exec!CancelTask, ExecThm!CancelTask,
           Exec!SpawnTask, ExecThm!SpawnTask, Exec!LayerSpawned,
           ExecThm!LayerSpawned, Exec!WaitReturns, ExecThm!WaitReturns,
           Exec!CollectResult, ExecThm!CollectResult, Exec!NextLayer,
           ExecThm!NextLayer, Exec!Return, ExecThm!Return, Exec!AtTask,
           ExecThm!AtTask, Exec!Blocked, ExecThm!Blocked, Exec!Record,
           ExecThm!Record, Exec!Result, ExecThm!Result, Exec!CancelCode,
           ExecThm!CancelCode, Exec!planVars, ExecThm!planVars, Exec!mainVars,
           ExecThm!mainVars, Exec!workerVars, ExecThm!workerVars
  <1>4. ASSUME NEW t \in Task, Exec!Worker(t) PROVE ExecThm!Worker(t)
    <2>1. Exec!Capacity = ExecThm!Capacity
      BY SameCardinality DEF Exec!Capacity, ExecThm!Capacity
    <2> QED
      BY <1>4, <2>1 DEF Exec!Worker, ExecThm!Worker,
           Exec!AcquireSlot, ExecThm!AcquireSlot, Exec!AcquireCancelled,
           ExecThm!AcquireCancelled, Exec!StartWork, ExecThm!StartWork,
           Exec!RunReturns, ExecThm!RunReturns, Exec!RunPanics, ExecThm!RunPanics,
           Exec!SendResult, ExecThm!SendResult, Exec!CloseLog, ExecThm!CloseLog,
           Exec!Retire, ExecThm!Retire, Exec!ReleaseSlot, ExecThm!ReleaseSlot,
           Exec!Recover, ExecThm!Recover, Exec!WgDone, ExecThm!WgDone, Exec!Send,
           ExecThm!Send, Exec!Goto, ExecThm!Goto, Exec!Result, ExecThm!Result,
           Exec!CancelCode, ExecThm!CancelCode,
           Exec!WorkerLimit, ExecThm!WorkerLimit, Exec!planVars, ExecThm!planVars,
           Exec!mainVars, ExecThm!mainVars, Exec!workerVars, ExecThm!workerVars
  <1> QED
    BY <1>1, <1>2, <1>3, <1>4

\* The executor is called with arguments of the kind its theorems ask for.
LEMMA ExecArguments ==
    /\ ExecThm!TaskAssumption /\ ExecThm!CodesAssumption
    /\ ExecThm!WorkersAssumption /\ ExecThm!PlansAssumption
  <1>1. ExecThm!TaskAssumption
    BY NamesAssumption, SameFiniteness DEF ExecThm!TaskAssumption
  <1>2. ExecThm!CodesAssumption
    BY RunCodesAssumption DEF ExecThm!CodesAssumption
  <1>3. ExecThm!WorkersAssumption
    BY SettingAssumption DEF ExecThm!WorkersAssumption, ResolvedWorkers, MaxParallelWorkersLimit
  <1>4. ExecThm!PlansAssumption
    BY DEF ExecThm!PlansAssumption
  <1> QED
    BY <1>1, <1>2, <1>3, <1>4

\* The plan the sorter returns is one the executor's theorems are about.
LEMMA PlanGiven ==
    ASSUME SortThm!IInv, phase = "done"
    PROVE  /\ \A t \in Task : ToSet(depList[t]) \subseteq Task
           /\ ExecThm!Layered([t \in Task |-> ToSet(depList[t]) \cap Task], layers)
           /\ SortThm!EarliestLayer
  <1>1. /\ layers \in Seq(Seq(Task))
        /\ \A t \in Task : SortThm!DependsOn(t) \subseteq Task
        /\ \A t \in Task : \E n \in DOMAIN layers : \E i \in DOMAIN layers[n] : layers[n][i] = t
        /\ SortThm!Once /\ SortThm!Behind /\ SortThm!EarliestLayer
    BY SortThm!PlanRight
  <1>2. \A t : SortThm!DependsOn(t) = ToSet(depList[t])
    BY SameToSet DEF SortThm!DependsOn
  <1>3. \A m, n \in DOMAIN layers : \A i \in DOMAIN layers[m], j \in DOMAIN layers[n] :
            layers[m][i] = layers[n][j] => m = n /\ i = j
    BY <1>1 DEF SortThm!Once
  <1>4. \A n \in DOMAIN layers : \A i \in DOMAIN layers[n] : layers[n][i] \in Task
    BY <1>1
  <1>5. \A n \in DOMAIN layers : \A i \in DOMAIN layers[n] : \A d \in ToSet(depList[layers[n][i]]) :
            \E m \in 1 .. (n - 1) : \E j \in DOMAIN layers[m] : layers[m][j] = d
    BY <1>1, <1>2 DEF SortThm!Behind
  <1> DEFINE ds == [t \in Task |-> ToSet(depList[t]) \cap Task]
  <1>6. ExecThm!Layered(ds, layers)
    <2>1. ds \in [Task -> SUBSET Task]
      OBVIOUS
    <2>2. \A t \in Task : ds[t] \subseteq ToSet(depList[t])
      OBVIOUS
    <2> HIDE DEF ds
    <2>3. ASSUME NEW n \in DOMAIN layers, NEW i \in DOMAIN layers[n], NEW d \in ds[layers[n][i]]
          PROVE  \E m \in 1 .. (n - 1) : \E j \in DOMAIN layers[m] : layers[m][j] = d
      <3>1. d \in ToSet(depList[layers[n][i]])
        BY <1>4, <2>2
      <3> QED
        BY <1>5, <3>1
    <2> QED
      BY <1>1, <1>3, <2>1, <2>3 DEF ExecThm!Layered
  <1> QED
    BY <1>1, <1>2, <1>6

-----------------------------------------------------------------------------
(* The run *)

\* What leaves the variables of a stage alone keeps its invariant.
LEMMA KeepStage ==
    ASSUME UNCHANGED <<parse, tasks, depList, sortVars, execVars>>
    PROVE  /\ Unsorted => Unsorted'
           /\ Sorting => Sorting'
           /\ Executing => Executing'
  <1>1. SortThm!IInv => SortThm!IInv'
    <2>1. UNCHANGED SortThm!sortVars
      BY DEF SortThm!sortVars, sortVars
    <2> QED
      BY <2>1, SortThm!StepInv
  <1>2. ExecThm!IInv => ExecThm!IInv'
    <2>1. UNCHANGED ExecThm!vars
      BY DEF ExecThm!vars, ExecThm!planVars, ExecThm!mainVars, ExecThm!workerVars, sortVars,
             execVars
    <2> QED
      BY <2>1, ExecThm!StepInv, ExecArguments
  <1>3. Exec!IdleInit => Exec!IdleInit'
    BY DEF Exec!IdleInit, execVars
  <1>4. SortThm!Init => SortThm!Init'
    BY DEF SortThm!Init, sortVars
  <1> QED
    BY <1>1, <1>2, <1>3, <1>4 DEF Unsorted, Sorting, Executing, sortVars

LEMMA KeepUnsorted ==
    ASSUME UNCHANGED <<sortVars, execVars>>, Unsorted
    PROVE  Unsorted'
  BY DEF Unsorted, SortThm!Init, sortVars, Exec!IdleInit, execVars

\* The run starts with the invariant.
LEMMA RunInit == Init => IInv
  <1> SUFFICES ASSUME Init PROVE IInv
    OBVIOUS
  <1>1. ReadInv
    BY ReadInit DEF Init
  <1>2. Stages
    BY SameSort DEF Init, Stages, Unsorted
  <1>3. Runs
    <2>1. NotCalled \in RunStates
      BY DEF NotCalled, RunStates, Ctx
    <2>2. outcome = [t \in Task |-> NoOutcome] /\ NoOutcome # 0
      BY RunCodesAssumption DEF Init, Exec!IdleInit
    <2> QED
      BY <2>1, <2>2 DEF Init, Runs, NotCalled
  <1>4. Exited /\ KilledLeavesNoBackend
    BY DEF Init, Exited, KilledLeavesNoBackend
  <1> QED
    BY <1>1, <1>2, <1>3, <1>4 DEF IInv

\* The file is not looked at again after the parser's call.
LEMMA ReadInvStep ==
    ASSUME ReadInv, [Next]_vars
    PROVE  ReadInv'
  <1>1. CASE ReadFile
    BY <1>1, ReadStep DEF ReadFile
  <1>2. CASE ~ReadFile
    <2>1. UNCHANGED readVars
      BY <1>2 DEF Next, MainStep, TaskStep, RejectInput, RejectFile, RejectGraph, Reject, StartSort,
             SortTasks, StartExecution, ExecuteMain, ReportAndExit, ExecuteTask, CallRun,
             RunStep, Signal, Done, vars, readVars,
             Sort!SortStep, Sort!MissingDependency, Sort!CountDependencies, Sort!TakeLayer,
             Sort!Relax, Sort!Finish
    <2> QED
      BY <2>1, ReadStep
  <1> QED
    BY <1>1, <1>2

\* Each step of the sorter and of the executor is one their theorems are about.
LEMMA StagesStep ==
    ASSUME IInv, [Next]_vars
    PROVE  Stages'
  <1>0. Stages /\ ReadInv
    BY DEF IInv
  <1>1. ASSUME UNCHANGED <<parse, tasks, depList, sortVars, execVars>>,
               stage' \in {stage, "exited", "killed"}
        PROVE  Stages'
    <2>1. stage' \in {"parse", "sort", "execute", "exited", "killed"}
      BY <1>0, <1>1 DEF Stages
    <2> QED
      BY <1>0, <1>1, <2>1, KeepStage DEF Stages
  <1>2. CASE \/ RejectInput \/ RejectFile \/ RejectGraph \/ ReportAndExit \/ Signal \/ Done
             \/ UNCHANGED vars \/ \E t \in Task : CallRun(t) \/ RunStep(t)
    BY <1>1, <1>2 DEF RejectInput, RejectFile, RejectGraph, Reject, ReportAndExit, Signal, Done,
           vars, readVars, CallRun, RunStep
  <1>3. CASE ReadFile
    <2>1. Unsorted' /\ stage' = "parse"
      BY <1>0, <1>3, KeepUnsorted DEF ReadFile, Stages
    <2> QED
      BY <2>1 DEF Stages
  <1>4. CASE StartSort
    <2>1. /\ stage = "parse" /\ parse = "accepted" /\ stage' = "sort" /\ Unsorted
          /\ UNCHANGED <<parse, tasks, depList, sortVars, execVars>>
      BY <1>0, <1>4 DEF StartSort, Stages, readVars
    <2>2. SortThm!IInv
      BY <1>0, <2>1, HandOver, SortThm!InitInv DEF Unsorted
    <2>3. Sorting
      BY <2>1, <2>2 DEF Sorting, Unsorted
    <2> QED
      BY <2>1, <2>3, KeepStage DEF Stages
  <1>5. CASE SortTasks
    <2>1. /\ stage = "sort" /\ stage' = "sort" /\ Sorting /\ Sort!SortStep
          /\ UNCHANGED <<parse, execVars>>
      BY <1>0, <1>5 DEF SortTasks, Stages
    <2>2. SortThm!IInv'
      BY <2>1, SameSort, SortThm!StepInv DEF Sorting
    <2>3. Exec!IdleInit'
      BY <2>1 DEF Sorting, Exec!IdleInit, execVars
    <2>4. Sorting'
      BY <2>1, <2>2, <2>3 DEF Sorting
    <2> QED
      BY <2>1, <2>4 DEF Stages
  <1>6. CASE StartExecution
    <2>1. /\ stage = "sort" /\ phase = "done" /\ stage' = "execute" /\ Sorting
          /\ UNCHANGED <<parse, tasks, depList, sortVars, execVars>>
      BY <1>0, <1>6 DEF StartExecution, Stages, readVars
    <2>2. ExecThm!Planned
      BY <2>1, PlanGiven DEF Sorting, ExecThm!Planned
    <2>3. ExecThm!IInv
      BY <2>1, <2>2, SameExec, ExecArguments, ExecThm!CalledInv DEF Sorting
    <2>4. Executing
      BY <2>1, <2>3 DEF Sorting, Executing
    <2> QED
      BY <2>1, <2>4, KeepStage DEF Stages
  <1>7. CASE ExecuteMain \/ \E t \in Task : ExecuteTask(t)
    <2>1. /\ stage = "execute" /\ stage' = "execute" /\ Executing
          /\ UNCHANGED <<parse, tasks, depList, sortVars>>
          /\ Exec!Main \/ \E t \in Task : Exec!Worker(t)
      BY <1>0, <1>7 DEF ExecuteMain, ExecuteTask, Stages, readVars
    <2>2. ExecThm!Next
      BY <2>1, SameExec DEF ExecThm!Next
    <2>3. ExecThm!IInv'
      BY <2>1, <2>2, ExecArguments, ExecThm!StepInv DEF Executing
    <2>4. UNCHANGED SortThm!sortVars
      BY <2>1 DEF SortThm!sortVars, sortVars
    <2>5. SortThm!IInv'
      BY <2>1, <2>4, SortThm!StepInv DEF Executing
    <2>6. Executing'
      BY <2>1, <2>3, <2>5 DEF Executing, sortVars
    <2> QED
      BY <2>1, <2>6 DEF Stages
  <1> QED
    BY <1>2, <1>3, <1>4, <1>5, <1>6, <1>7 DEF Next, MainStep, TaskStep

\* What one step of a backend's run may do.
LEMMA TaskRunStep ==
    ASSUME NEW t \in Task, NEW r \in RunStates, r.phase = "idle" => r.ctx = "live",
           r.code = 0 => r.phase = "returned", NEW next \in Run(t)!Steps(r)
    PROVE  /\ r.phase \in {"open", "backend", "ended"}
           /\ next \in RunStates /\ next.phase # "idle"
           /\ next.code = 0 => next.phase = "returned" /\ next.ctx = "live"
  <1>0. /\ r.phase \in {"idle", "open", "backend", "ended", "returned"} /\ r.ctx \in Ctx
        /\ r.code \in RunCodes \cup {NoOutcome}
        /\ r = [phase |-> r.phase, ctx |-> r.ctx, code |-> r.code]
    BY DEF RunStates
  <1>1. CASE next \in Run(t)!BackendStarts(r) \/ next \in Run(t)!BackendEnds(r)
    BY <1>0, <1>1 DEF Run!BackendStarts, Run!BackendEnds, RunStates
  <1>2. CASE next \in Run(t)!Returns(r)
    <2>1. PICK code \in Run(t)!Codes(r) : next = [phase |-> "returned", ctx |-> r.ctx, code |-> code]
      BY <1>2 DEF Run!Returns
    <2>2. /\ r.phase \in {"open", "ended"} /\ code \in RunCodes
          /\ code = 0 => r.phase = "ended" /\ r.ctx = "live"
      BY <1>0, <2>1, RunCodesAssumption DEF Run!Codes, Ctx
    <2> QED
      BY <1>0, <2>1, <2>2 DEF RunStates
  <1>3. CASE \E how \in {"timeout", "cancelled"} : next \in Run(t)!ContextEnds(r, how)
    BY <1>0, <1>3 DEF Run!ContextEnds, Run!Listens, RunStates, Ctx
  <1> QED
    BY <1>1, <1>2, <1>3 DEF Run!Steps

\* The goroutine of a task sets no outcome of 0 but what its run has returned.
LEMMA OutcomeStep ==
    ASSUME IInv, NEW t \in Task, ExecuteTask(t)
    PROVE  /\ \A u \in Task : u # t => outcome'[u] = outcome[u]
           /\ outcome'[t] = 0 => outcome[t] = 0 \/ run[t].code = 0
  <1>1. /\ outcome \in [Task -> ExecThm!Codes \cup {NoOutcome}]
        /\ pc \in [Task -> ExecThm!Places]
    BY DEF IInv, Stages, ExecuteTask, Executing, ExecThm!IInv, ExecThm!TypeOK
  <1>2. /\ pc[t] = "run" =>
               \/ pc'[t] = "send" /\ outcome'[t] = run[t].code
               \/ pc'[t] = "close"
        /\ Exec!Worker(t)
    BY DEF ExecuteTask
  <1>3. CASE Exec!RunReturns(t)
    <2>1. pc[t] = "run" /\ pc'[t] = "send"
          /\ \E code \in RunCodes : outcome' = [outcome EXCEPT ![t] = code]
      BY <1>1, <1>3 DEF Exec!RunReturns, Exec!Goto
    <2> QED
      BY <1>1, <1>2, <2>1
  <1>4. CASE Exec!RunPanics(t) \/ Exec!AcquireCancelled(t)
    <2>1. PICK code \in {1, 124, 130} : outcome' = [outcome EXCEPT ![t] = code]
      BY <1>4 DEF Exec!RunPanics, Exec!AcquireCancelled, Exec!CancelCode
    <2> QED
      BY <1>1, <2>1
  <1>5. CASE UNCHANGED outcome
    BY <1>5
  <1>6. \/ Exec!RunReturns(t) \/ Exec!RunPanics(t) \/ Exec!AcquireCancelled(t)
        \/ UNCHANGED outcome
    BY <1>2 DEF Exec!Worker, Exec!AcquireSlot, Exec!StartWork, Exec!SendResult, Exec!CloseLog,
           Exec!Retire, Exec!ReleaseSlot, Exec!Recover, Exec!WgDone
  <1> QED
    BY <1>3, <1>4, <1>5, <1>6

\* A run's code of 0 is that of one that has returned under a live context, and no
\* task has succeeded without one.
LEMMA RunsStep ==
    ASSUME IInv, [Next]_vars
    PROVE  Runs'
  <1>0. Runs
    BY DEF IInv
  <1>1. CASE UNCHANGED <<run, outcome>>
    BY <1>0, <1>1 DEF Runs
  <1>2. CASE ExecuteMain
    BY <1>1, <1>2 DEF ExecuteMain, taskVars, Exec!Main, Exec!SkipTask, Exec!CancelTask,
           Exec!Record, Exec!SpawnTask, Exec!LayerSpawned, Exec!WaitReturns,
           Exec!CollectResult, Exec!NextLayer, Exec!Return, Exec!workerVars
  <1>3. ASSUME NEW t \in Task, ExecuteTask(t)
        PROVE  Runs'
    <2>1. UNCHANGED run
      BY <1>3 DEF ExecuteTask, taskVars
    <2>2. \A u \in Task : outcome'[u] = 0 => run[u].code = 0
      BY <1>0, <1>3, OutcomeStep DEF Runs
    <2> QED
      BY <1>0, <2>1, <2>2 DEF Runs
  <1>4. ASSUME NEW t \in Task, NEW next \in RunStates, run' = [run EXCEPT ![t] = next],
               UNCHANGED outcome, run[t].phase # "returned", next.phase # "idle",
               next.code = 0 => next.phase = "returned" /\ next.ctx = "live"
        PROVE  Runs'
    <2>1. run' \in [Task -> RunStates] /\ run'[t] = next
          /\ \A u \in Task : u # t => run'[u] = run[u]
      BY <1>0, <1>4 DEF Runs
    <2>2. outcome[t] # 0
      BY <1>0, <1>4 DEF Runs
    <2> QED
      BY <1>0, <1>4, <2>1, <2>2 DEF Runs
  <1>5. ASSUME NEW t \in Task, CallRun(t)
        PROVE  Runs'
    <2>1. PICK called \in {Run(t)!Called, [NotCalled EXCEPT !.phase = "returned", !.code = 1]} :
              run' = [run EXCEPT ![t] = called]
      BY <1>5 DEF CallRun
    <2>2. called = [phase |-> "open", ctx |-> "live", code |-> NoOutcome]
          \/ called = [phase |-> "returned", ctx |-> "live", code |-> 1]
      BY <2>1 DEF Run!Called, NotCalled
    <2>3. called \in RunStates /\ called.phase # "idle" /\ called.code # 0
      BY <2>2, RunCodesAssumption DEF RunStates, Ctx
    <2>4. run[t].phase = "idle" /\ UNCHANGED outcome
      BY <1>5 DEF CallRun, execVars
    <2> QED
      BY <1>4, <2>1, <2>3, <2>4
  <1>6. ASSUME NEW t \in Task, RunStep(t)
        PROVE  Runs'
    <2>1. PICK next \in Run(t)!Steps(run[t]) : run' = [run EXCEPT ![t] = next]
      BY <1>6 DEF RunStep
    <2>2. /\ run[t] \in RunStates
          /\ run[t].phase = "idle" => run[t].ctx = "live"
          /\ run[t].code = 0 => run[t].phase = "returned"
      BY <1>0 DEF Runs
    <2>3. /\ run[t].phase \in {"open", "backend", "ended"}
          /\ next \in RunStates /\ next.phase # "idle"
          /\ next.code = 0 => next.phase = "returned" /\ next.ctx = "live"
      BY <2>2, TaskRunStep
    <2>4. UNCHANGED outcome
      BY <1>6 DEF RunStep, execVars
    <2> QED
      BY <1>4, <2>1, <2>3, <2>4
  <1> QED
    BY <1>1, <1>2, <1>3, <1>5, <1>6 DEF Next, MainStep, TaskStep, RejectInput, RejectFile,
           RejectGraph, Reject, ReadFile, StartSort, SortTasks, StartExecution,
           ReportAndExit, Signal, Done, vars, taskVars, execVars

\* The process says how it has ended once, and nothing changes after.
LEMMA ExitedStep ==
    ASSUME IInv, [Next]_vars
    PROVE  Exited'
  <1>0. Stages /\ Exited
    BY DEF IInv
  <1>1. CASE Reject /\ stage \in {"parse", "sort"} /\ ~(phase = "done" /\ main = "done")
    <2>1. Unsorted \/ Sorting
      BY <1>0, <1>1 DEF Stages
    <2>2. (Unsorted \/ Sorting)'
      BY <1>1, <2>1, KeepStage DEF Reject, readVars
    <2> QED
      BY <1>1, <2>2 DEF Reject, Exited, sortVars, execVars
  <1>2. CASE RejectInput \/ RejectFile \/ RejectGraph
    <2>1. stage \in {"parse", "sort"} /\ Reject
      BY <1>2 DEF RejectInput, RejectFile, RejectGraph
    <2>2. Unsorted \/ Sorting
      BY <1>0, <2>1 DEF Stages
    <2>3. main = "spawn"
      BY <2>2 DEF Unsorted, Sorting, Exec!IdleInit
    <2> QED
      BY <1>1, <2>1, <2>3
  <1>3. CASE ReportAndExit
    <2>1. /\ Executing /\ main = "done" /\ stage' = "exited"
          /\ report' = Count(results) /\ exitCode' = Status(ParallelExitCode(results))
          /\ UNCHANGED <<parse, tasks, depList, sortVars, execVars>>
      BY <1>0, <1>3 DEF ReportAndExit, Stages, readVars
    <2>2. Executing' /\ UNCHANGED <<main, results>>
      BY <2>1, KeepStage DEF execVars
    <2> QED
      BY <2>1, <2>2 DEF Exited, Count, Status, ParallelExitCode
  <1>4. CASE UNCHANGED vars
    <2>1. /\ UNCHANGED <<parse, tasks, depList, sortVars, execVars>>
          /\ UNCHANGED <<stage, exitCode, report, phase, main, results>>
      BY <1>4 DEF vars, endVars, readVars, sortVars, execVars
    <2> QED
      BY <1>0, <2>1, KeepStage DEF Exited, Count, Status, ParallelExitCode
  <1>5. CASE stage' # "exited"
    BY <1>5 DEF Exited
  <1>6. \/ RejectInput \/ RejectFile \/ RejectGraph \/ ReportAndExit \/ UNCHANGED vars
        \/ stage' # "exited"
    BY DEF Next, MainStep, TaskStep, ReadFile, StartSort, SortTasks, StartExecution, ExecuteMain,
           ExecuteTask, CallRun, RunStep, Signal, Done
  <1> QED
    BY <1>2, <1>3, <1>4, <1>5, <1>6

\* A signal ends the dispatcher only when no run listens, so when no backend is alive.
LEMMA KilledStep ==
    ASSUME KilledLeavesNoBackend, [Next]_vars
    PROVE  KilledLeavesNoBackend'
  <1>1. CASE Signal
    <2>1. stage' = "killed" => Listening = {} \/ stage = "killed"
      BY <1>1 DEF Signal
    <2>2. UNCHANGED run
      BY <1>1 DEF Signal
    <2>3. Listening = {} => \A t \in Task : run[t].phase # "backend"
      BY DEF Listening, Run!Listens
    <2> QED
      BY <2>1, <2>2, <2>3 DEF KilledLeavesNoBackend
  <1>2. CASE UNCHANGED vars
    BY <1>2 DEF vars, taskVars, KilledLeavesNoBackend
  <1>3. CASE stage' # "killed"
    BY <1>3 DEF KilledLeavesNoBackend
  <1>4. Signal \/ UNCHANGED vars \/ stage' # "killed"
    BY DEF Next, MainStep, TaskStep, RejectInput, RejectFile, RejectGraph, Reject, ReadFile,
           StartSort, SortTasks, StartExecution, ExecuteMain, ReportAndExit, ExecuteTask,
           CallRun, RunStep, Done
  <1> QED
    BY <1>1, <1>2, <1>3, <1>4

-----------------------------------------------------------------------------
(* The theorems *)

\* Every step keeps the invariant.
THEOREM StepInv == IInv /\ [Next]_vars => IInv'
  BY ReadInvStep, StagesStep, RunsStep, ExitedStep, KilledStep DEF IInv

\* The invariant holds in every reachable state.
THEOREM Invariance == Spec => []IInv
  BY RunInit, StepInv, PTL DEF Spec

\* A task file is accepted exactly when it should be, and then the task slice has its
\* ids in their order and every name of its dependencies lines: parseParallelConfig.
THEOREM FileIsReadRight == Spec => []FileReadRight
  <1>1. IInv => FileReadRight
    BY FileRight DEF IInv
  <1> QED
    BY <1>1, Invariance, PTL

\* topologicalSort returns a plan only when the tasks of the file have one, reports a
\* cycle only when there is one, and a missing dependency exactly when there is one.
THEOREM SorterIsRight == Spec => []VerdictRight
  <1>1. ASSUME IInv PROVE VerdictRight
    <2>1. CASE Unsorted
      BY <2>1 DEF Unsorted, SortThm!Init, VerdictRight, Sort!VerdictRight
    <2>2. CASE Sorting \/ Executing
      BY <2>2, SortThm!AnswerRight, SameSort DEF Sorting, Executing, VerdictRight
    <2> QED
      BY <1>1, <2>1, <2>2 DEF IInv, Stages
  <1> QED
    BY <1>1, Invariance, PTL

\* The plan the executor is given has every task once, behind what it needs and in the
\* earliest layer there can be.
THEOREM PlanGivenIsLayered == Spec => []PlanIsLayered
  <1>1. ASSUME IInv, stage = "execute"
        PROVE  /\ Exec!Layered([t \in Task |-> ToSet(depList[t])], layers)
               /\ Sort!EarliestLayer
    <2>1. SortThm!IInv /\ phase = "done"
      BY <1>1 DEF IInv, Stages, Executing
    <2>2. /\ \A t \in Task : ToSet(depList[t]) \subseteq Task
          /\ ExecThm!Layered([t \in Task |-> ToSet(depList[t]) \cap Task], layers)
          /\ SortThm!EarliestLayer
      BY <2>1, PlanGiven
    <2>3. [t \in Task |-> ToSet(depList[t]) \cap Task] = [t \in Task |-> ToSet(depList[t])]
      BY <2>2
    <2> QED
      BY <2>2, <2>3, SameSort, SameExec
  <1>2. IInv => PlanIsLayered
    BY <1>1 DEF PlanIsLayered
  <1> QED
    BY <1>2, Invariance, PTL

\* In the whole run, from the text of the file to the goroutines, a task starts only
\* after every task its block names has succeeded.
THEOREM DependenciesFirst == Spec => []StartsAfterNamedTasks
  <1>1. ASSUME IInv, NEW t \in Task, Started(t), NEW d \in ToSet(depList[t])
        PROVE  d \in Task /\ outcome[d] = 0
    <2>1. Executing
      BY <1>1 DEF IInv, Stages, Unsorted, Sorting, Exec!IdleInit, Started
    <2>2. ToSet(depList[t]) \subseteq Task
      BY <2>1, PlanGiven DEF Executing
    <2>3. ExecThm!Succeeded(d)
      BY <1>1, <2>1, <2>2 DEF Executing, ExecThm!IInv, ExecThm!DependenciesSucceeded, Started
    <2>4. PICK i \in DOMAIN results : results[i].task = d /\ results[i].code = 0
      BY <2>3 DEF ExecThm!Succeeded, ExecThm!Result
    <2> QED
      BY <1>1, <2>1, <2>2, <2>4, ExecArguments, ExecThm!CollectedOutcome DEF Executing
  <1>2. IInv => StartsAfterNamedTasks
    BY <1>1 DEF StartsAfterNamedTasks
  <1> QED
    BY <1>2, Invariance, PTL

\* An exit code of 0 and a report without failures both say that every task of the
\* file ran and succeeded: parallelExitCode, over the results in any order.
THEOREM ExitCodeIsRight == Spec => []ExitCodeAgreesWithReport
  <1>1. ASSUME IInv, stage = "exited", exitCode = 1, Unsorted \/ Sorting,
               ~(phase = "done" /\ main = "done")
        PROVE  ExitCodeAgreesWithReport
    <2>1. \A t \in Task : outcome[t] = NoOutcome
      BY <1>1 DEF Unsorted, Sorting, Exec!IdleInit
    <2>2. ~(\A t \in Task : outcome[t] = 0)
      BY <2>1, NamesAssumption, RunCodesAssumption
    <2> QED
      BY <1>1, <2>2 DEF ExitCodeAgreesWithReport, Executed
  <1>2. ASSUME IInv, Executing, main = "done", report = Count(results),
               exitCode = Status(ParallelExitCode(results))
        PROVE  ExitCodeAgreesWithReport
    <2> DEFINE n == Len(results)
               good == {i \in DOMAIN results : results[i].code = 0}
               bad == {i \in DOMAIN results : results[i].code # 0}
    <2>1. /\ Len(results) = ExecThm!Cardinality(Task)
          /\ ExecThm!Cardinality(good) = ExecThm!Cardinality({t \in Task : outcome[t] = 0})
          /\ (\A t \in Task : outcome[t] = 0) <=> (\A i \in DOMAIN results : results[i].code = 0)
          /\ \A i \in DOMAIN results : results[i].code \in ExecThm!Codes
      BY <1>2, ExecArguments, ExecThm!ReportComplete, ExecThm!CollectedOutcome DEF Executing
    <2>2. /\ n = Cardinality(Task) /\ n \in Nat /\ DOMAIN results = 1 .. n
          /\ Cardinality(good) = Cardinality({t \in Task : outcome[t] = 0})
      <3>1. results \in Seq(ExecThm!ResultSet)
        BY <1>2 DEF Executing, ExecThm!IInv, ExecThm!TypeOK
      <3> QED
        BY <2>1, <3>1, SameCardinality
    <2>3. exitCode = 0 <=> bad = {}
      <3>1. CASE bad = {}
        BY <1>2, <3>1 DEF ParallelExitCode, Status
      <3>2. CASE bad # {}
        <4>1. PICK i \in bad : \A j \in bad : j <= i
          <5> DEFINE T == {n - j : j \in bad}
          <5>1. bad \subseteq 1 .. n /\ T \in SUBSET Nat /\ T # {}
            BY <2>2, <3>2
          <5> HIDE DEF T, bad
          <5>2. PICK m \in T : \A k \in T : m <= k
            BY <5>1, SortThm!Least
          <5>3. PICK i \in bad : m = n - i
            BY DEF T
          <5>4. \A j \in bad : n - i <= n - j
            BY <5>2, <5>3 DEF T
          <5>5. \A j \in bad : j <= i
            <6> HIDE DEF n
            <6> QED
              BY <2>2, <5>1, <5>4
          <5> QED
            BY <5>5
        <4>2. \E j \in bad : ParallelExitCode(results) = results[j].code
          BY <3>2, <4>1 DEF ParallelExitCode
        <4>3. \A code \in ExecThm!Codes : code # 0 => code % 256 # 0
          <5>1. ExecThm!Codes \subseteq -1 .. 255
            BY RunCodesAssumption DEF ExecThm!Codes
          <5>2. \A code \in -1 .. 255 : code # 0 => code % 256 # 0
            OBVIOUS
          <5> QED
            BY <5>1, <5>2
        <4> QED
          BY <1>2, <2>1, <3>2, <4>2, <4>3 DEF Status
      <3> QED
        BY <3>1, <3>2
    <2>4. exitCode = 0 <=> \A t \in Task : outcome[t] = 0
      BY <2>1, <2>3
    <2>5. exitCode = 0 => \A t \in Task : run[t].ctx = "live" /\ run[t].phase = "returned"
      BY <1>2, <2>4 DEF IInv, Runs
    <2>6. /\ report.total = n /\ report.passed = Cardinality(good)
          /\ report.failed = n - Cardinality(good)
      BY <1>2 DEF Count
    <2>7. exitCode = 0 <=> report.failed = 0
      <3>1. n \in Nat /\ good \in SUBSET (1 .. n) /\ (bad = {} <=> good = 1 .. n)
        BY <2>2
      <3> HIDE DEF n, good, bad
      <3>2. IsFiniteSet(1 .. n) /\ Cardinality(1 .. n) = n
        BY <3>1, FS_Interval
      <3>3. IsFiniteSet(good) /\ Cardinality(good) \in Nat
        BY <3>1, <3>2, FS_Subset, FS_CardinalityType
      <3>4. Cardinality(good) = n <=> good = 1 .. n
        BY <3>1, <3>2, FS_Subset
      <3> QED
        BY <2>2, <2>3, <2>6, <3>1, <3>3, <3>4
    <2> QED
      BY <2>2, <2>4, <2>5, <2>6, <2>7 DEF ExitCodeAgreesWithReport
  <1>3. IInv => ExitCodeAgreesWithReport
    BY <1>1, <1>2 DEF IInv, Exited, ExitCodeAgreesWithReport
  <1> QED
    BY <1>3, Invariance, PTL

\* A signal that ends the dispatcher itself leaves no backend behind: as long as one
\* is alive, its run listens.
THEOREM NoBackendOutlives == Spec => []KilledLeavesNoBackend
  <1>1. IInv => KilledLeavesNoBackend
    BY DEF IInv
  <1> QED
    BY <1>1, Invariance, PTL

-----------------------------------------------------------------------------
(* The run as a DAG scheduler *)

\* Once the file is accepted the executor's dependencies are those its blocks name.
LEMMA NamedRight ==
    ASSUME ReadInv, parse = "accepted"
    PROVE  NamedTasks = [t \in Task |-> ToSet(depList[t]) \cap Task]
  <1>1. Past = Reader!Blocks(file) /\ {IdOf(i) : i \in Past} = Task
    BY Accepted
  <1>2. /\ \A i \in Past : IdOf(i) \in Task => ToSet(depList[IdOf(i)]) = Reader!NamedIn(file[i])
        /\ \A i, j \in Past : IdOf(i) = IdOf(j) => i = j
    BY DEF ReadInv, TasksRead
  <1>3. ASSUME NEW t \in Task
        PROVE  {d \in Task : \E i \in Past : IdOf(i) = t /\ d \in Reader!NamedIn(file[i])}
                   = ToSet(depList[t]) \cap Task
    <2>1. PICK i \in Past : IdOf(i) = t
      BY <1>1
    <2>2. ToSet(depList[t]) = Reader!NamedIn(file[i])
      BY <1>2, <2>1
    <2>3. \A j \in Past : IdOf(j) = t => j = i
      BY <1>2, <2>1
    <2> QED
      BY <2>1, <2>2, <2>3
  <1> QED
    BY <1>1, <1>3 DEF NamedTasks, IdOf

\* At first every task is pending.
LEMMA DagInit == Init => Dag!Init
  <1> SUFFICES ASSUME Init PROVE Dag!Init
    OBVIOUS
  <1>1. NamedTasks \in [Task -> SUBSET Task]
    BY DEF NamedTasks
  <1>2. \A t \in Task : Exec!StatusOf(t) = "pending"
    BY RunCodesAssumption DEF Init, Exec!IdleInit, Exec!StatusOf
  <1>3. (ctx # "live") = FALSE
    BY DEF Init, Exec!IdleInit
  <1> QED
    BY <1>1, <1>2, <1>3 DEF Dag!Init

\* A step of the executor is one of the scheduler, any other leaves what it looks at.
LEMMA DagStep == IInv /\ [Next]_vars => [Dag!Next]_(Dag!dagVars)
  <1> SUFFICES ASSUME IInv, [Next]_vars
               PROVE  [Dag!Next]_(Dag!dagVars)
    OBVIOUS
  <1>1. UNCHANGED file
    BY DEF Next, MainStep, TaskStep, RejectInput, ReadFile, RejectFile, RejectGraph, Reject,
           StartSort, SortTasks, StartExecution, ExecuteMain, ReportAndExit, ExecuteTask,
           CallRun, RunStep, Signal, Done, vars, readVars, Reader!Read, Reader!PassBlank,
           Reader!MissSeparator, Reader!RefuseLine, Reader!ReadLine, Reader!RefuseBlock,
           Reader!AddTask, Reader!EndOfFile, Reader!Refuse
  <1>2. NamedTasks' = NamedTasks
    BY <1>1 DEF NamedTasks
  <1>3. CASE ExecuteMain \/ \E t \in Task : ExecuteTask(t)
    <2>1. stage = "execute" /\ UNCHANGED <<parse, depList>>
      BY <1>3 DEF ExecuteMain, ExecuteTask, readVars
    <2>2. parse = "accepted" /\ ExecThm!IInv
      BY <2>1 DEF IInv, Stages, Executing
    <2>3. NamedTasks = [t \in Task |-> ToSet(depList[t]) \cap Task]
      BY <2>2, NamedRight DEF IInv
    <2>4. ExecThm!Next
      BY <1>3, SameExec DEF ExecuteMain, ExecuteTask, ExecThm!Next
    <2>5. [ExecThm!Dag!Next]_(ExecThm!Dag!dagVars)
      BY <2>2, <2>4, ExecThm!DagStep, ExecArguments
    <2>6. \A t : /\ ExecThm!StatusOf(t) = Exec!StatusOf(t)
                 /\ ExecThm!StatusOf(t)' = Exec!StatusOf(t)'
      BY DEF ExecThm!StatusOf, Exec!StatusOf
    <2> QED
      BY <1>2, <2>1, <2>3, <2>5, <2>6
         DEF Dag!Next, Dag!dagVars, Dag!Start, Dag!Finish, Dag!Drop, Dag!Stop,
             ExecThm!Dag!Next, ExecThm!Dag!dagVars, ExecThm!Dag!Start, ExecThm!Dag!Finish,
             ExecThm!Dag!Drop, ExecThm!Dag!Stop
  <1>4. CASE UNCHANGED execVars
    <2>1. \A t : Exec!StatusOf(t)' = Exec!StatusOf(t)
      BY <1>4 DEF Exec!StatusOf, execVars
    <2>2. UNCHANGED ctx
      BY <1>4 DEF execVars
    <2> QED
      BY <1>2, <2>1, <2>2 DEF Dag!dagVars
  <1> QED
    BY <1>3, <1>4 DEF Next, MainStep, TaskStep, RejectInput, ReadFile, RejectFile, RejectGraph,
           Reject, StartSort, SortTasks, StartExecution, ReportAndExit,
           CallRun, RunStep, Signal, Done, vars

\* From the text of the task file to the last verdict the run is a DAG scheduler: what the
\* file names runs in its order, and a task is skipped only for a named one that failed
\* (runParallelInvocation, with all it calls).
THEOREM Refinement == Spec => ImplementsDag
  BY DagInit, DagStep, Invariance, PTL DEF Spec, Dag!Spec, ImplementsDag

=============================================================================
