-------------------------- MODULE LogCleanup_proofs --------------------------
(* Theorems about LogCleanup, for every set of dispatchers and of PIDs, every *)
(* choice of logs left behind and every length of time: which logs a cleanup  *)
(* never removes, and which it never misses.                                  *)
EXTENDS LogCleanup, FiniteSetTheorems, TLAPS

\* A log is open only under the PID of a process that runs.
Owners ==
    \A d \in Dispatcher : \A path \in opened[d] : Running(d) /\ PidOf(path) = pidOf[d]

\* What a scan has in hand, it has while it scans, and it takes up a path at the
\* first of its checks.
Scans ==
    \A d \in Dispatcher :
        /\ file[d] # {} \/ settled[d] # {} => pc[d] = "scanning"
        /\ file[d] = {} => stage[d] = "running"
        /\ file[d] = {} \/ \E path \in Path : file[d] = {path}

\* A path that came past the first check had a process, and still has it or the
\* scan counts it among those whose PID changed hands.
FoundRunning ==
    \A d \in Dispatcher : \A path \in file[d] :
        stage[d] = "reused" => holder[PidOf(path)] # Free \/ PidOf(path) \in changed[d]

\* A path that is about to be removed is an orphan or dormant, last written to before
\* the process of its PID began or beyond the age limit, unless the evidence was
\* overtaken.
JudgedRightly ==
    \A d \in Dispatcher : \A path \in file[d] :
        stage[d] = "remove" /\ PidOf(path) \notin changed[d] =>
            holder[PidOf(path)] = Free \/ mtime[path] = Absent \/ Dormant(path)

\* TypeOK without the size of file[d], which Scans says without counting.
Typed ==
    /\ now \in 0 .. MaxTime
    /\ startTimesKnown \in StartTimes
    /\ others \in 0 .. MaxOthers
    /\ holder \in [Pid -> Dispatcher \cup {Free, Other}]
    /\ started \in [Pid -> 0 .. MaxTime]
    /\ mtime \in [Path -> {Absent} \cup 0 .. MaxTime]
    /\ linked \subseteq Path
    /\ pc \in [Dispatcher -> {"new", "listing", "scanning", "working", "exited", "crashed"}]
    /\ pidOf \in [Dispatcher -> Pid \cup {Absent}]
    /\ cleaners \subseteq Dispatcher
    /\ opened \in [Dispatcher -> SUBSET Path]
    /\ todo \in [Dispatcher -> SUBSET Path]
    /\ settled \in [Dispatcher -> SUBSET Path]
    /\ file \in [Dispatcher -> SUBSET Path]
    /\ stage \in [Dispatcher -> {"running", "reused", "remove"}]
    /\ changed \in [Dispatcher -> SUBSET Pid]
    /\ stolen \subseteq {"raced", "aged", "inherited", "plain"}

\* A dispatcher runs exactly while it has the PID it was given.
Holds ==
    \A d \in Dispatcher : Running(d) <=> pidOf[d] # Absent /\ holder[pidOf[d]] = d

IInv ==
    /\ Typed /\ Holds /\ Owners /\ Scans
    /\ FoundRunning /\ JudgedRightly /\ LiveLogKept /\ OrphansRemoved

-----------------------------------------------------------------------------
(* Helpers *)

\* What the constants are.
LEMMA Constants ==
    /\ Absent = -1 /\ Absent \notin Pid
    /\ Free # Other /\ Free \notin Dispatcher /\ Other \notin Dispatcher
    /\ Old \in Nat /\ MaxTime \in Nat /\ MaxOthers \in Nat /\ StartTimes \subseteq BOOLEAN
  BY CleanupAssumption DEF Absent

\* A path is a PID and the kind of the log.
LEMMA Paths ==
    /\ \A path \in Path : PidOf(path) \in Pid
    /\ \A p \in Pid : <<p, "main">> \in Path /\ <<p, "task">> \in Path
    /\ \A p : PidOf(<<p, "main">>) = p /\ PidOf(<<p, "task">>) = p
  BY DEF Path, PidOf

\* The type invariant says more than a machine needs to count.
LEMMA TypesAreRight ==
    ASSUME Typed, Holds, Scans
    PROVE  TypeOK
PROOF
  <1>1. \A d \in Dispatcher : Cardinality(file[d]) <= 1
    <2>1. TAKE d \in Dispatcher
    <2>2. CASE file[d] = {}
      BY <2>2, FS_EmptySet
    <2>3. CASE \E path \in Path : file[d] = {path}
      <3>1. PICK path \in Path : file[d] = {path}
        BY <2>3
      <3> QED
        BY <3>1, FS_Singleton
    <2> QED
      BY <2>2, <2>3 DEF Scans
  <1>2. {todo, settled, file} \subseteq [Dispatcher -> SUBSET Path]
    BY DEF Typed
  <1> QED
    BY <1>1, <1>2 DEF Typed, Holds, TypeOK

\* The scans under way take note of a PID under which something changes.
LEMMA ChangesRight ==
    ASSUME Typed, NEW p \in Pid, Changes(p)
    PROVE  /\ changed' \in [Dispatcher -> SUBSET Pid]
           /\ \A d \in Dispatcher : pc[d] = "scanning" => changed'[d] = changed[d] \cup {p}
  BY DEF Typed, Changes

\* What a log is taken for depends on the processes, the logs and the clock only.
LEMMA StandingKept ==
    ASSUME UNCHANGED <<now, fixed, systemVars, mtime, opened>>
    PROVE  /\ UNCHANGED <<startTimesKnown, linked, holder, started>>
           /\ \A path : (Dormant(path)' <=> Dormant(path)) /\ (Orphan(path)' <=> Orphan(path))
  BY DEF fixed, systemVars, Dormant, Orphan

\* A step that touches the processes and the logs of one PID and tells the scans so,
\* and that leaves a scan as it is or ends it, disturbs nothing that a scan relies on.
LEMMA ScansNoticeChanges ==
    ASSUME IInv, NEW p \in Pid, Changes(p),
           \A q \in Pid \ {p} : holder'[q] = holder[q] /\ started'[q] = started[q],
           \A path \in Path : PidOf(path) # p => mtime'[path] = mtime[path],
           \A v \in Dispatcher : \A path \in opened[v] :
               PidOf(path) # p => path \in opened'[v],
           UNCHANGED <<now, startTimesKnown, linked>>,
           \A d \in Dispatcher :
               \/ file'[d] = file[d] /\ stage'[d] = stage[d] /\ settled'[d] = settled[d]
               \/ file'[d] = {} /\ settled'[d] = {}
    PROVE  FoundRunning' /\ JudgedRightly' /\ OrphansRemoved'
PROOF
  <1> USE DEF IInv
  <1>1. \A d \in Dispatcher : \A path \in file'[d] \cup settled'[d] :
            /\ path \in Path /\ PidOf(path) \in Pid
            /\ file'[d] = file[d] /\ stage'[d] = stage[d] /\ settled'[d] = settled[d]
            /\ changed'[d] = changed[d] \cup {p}
    BY ChangesRight, Paths DEF Typed, Scans
  <1>2. FoundRunning'
    BY <1>1 DEF FoundRunning
  <1>3. JudgedRightly'
    <2> SUFFICES ASSUME NEW d \in Dispatcher, NEW path \in file'[d],
                        stage'[d] = "remove", PidOf(path) \notin changed'[d]
                 PROVE  \/ holder'[PidOf(path)] = Free \/ mtime'[path] = Absent
                        \/ Dormant(path)'
      BY DEF JudgedRightly
    <2>1. /\ PidOf(path) \in Pid \ {p} /\ path \in Path /\ path \in file[d]
          /\ stage[d] = "remove" /\ PidOf(path) \notin changed[d]
      BY <1>1
    <2>2. /\ holder'[PidOf(path)] = holder[PidOf(path)]
          /\ started'[PidOf(path)] = started[PidOf(path)]
          /\ mtime'[path] = mtime[path]
      BY <2>1
    <2> QED
      BY <2>1, <2>2 DEF JudgedRightly, Dormant
  <1>4. OrphansRemoved'
    <2> SUFFICES ASSUME NEW d \in Dispatcher, NEW path \in settled'[d] \ linked,
                        PidOf(path) \notin changed'[d], Orphan(path)'
                 PROVE  FALSE
      BY DEF OrphansRemoved
    <2>1. /\ PidOf(path) \in Pid \ {p} /\ path \in Path /\ path \in settled[d] \ linked
          /\ PidOf(path) \notin changed[d]
      BY <1>1
    <2>2. /\ holder'[PidOf(path)] = holder[PidOf(path)]
          /\ started'[PidOf(path)] = started[PidOf(path)]
          /\ mtime'[path] = mtime[path]
      BY <2>1
    <2>3. \A v \in Dispatcher : path \notin opened[v]
      BY <2>1 DEF Orphan
    <2>4. Orphan(path)
      BY <2>2, <2>3 DEF Orphan
    <2> QED
      BY <2>1, <2>4 DEF OrphansRemoved
  <1> QED
    BY <1>2, <1>3, <1>4

-----------------------------------------------------------------------------
(* The initial states *)

LEMMA InitInv == Init => IInv
PROOF
  <1> SUFFICES ASSUME Init PROVE IInv
    OBVIOUS
  <1>1. Typed
    BY Constants DEF Init, Typed
  <1>2. Holds /\ Owners /\ Scans
    BY Constants DEF Init, Holds, Owners, Scans, Running
  <1>3. FoundRunning /\ JudgedRightly /\ LiveLogKept /\ OrphansRemoved
    BY DEF Init, FoundRunning, JudgedRightly, LiveLogKept, OrphansRemoved
  <1> QED
    BY <1>1, <1>2, <1>3 DEF IInv

-----------------------------------------------------------------------------
(* Processes come and go *)

LEMMA StartDispatcherStep ==
    ASSUME IInv, NEW d \in Dispatcher, StartDispatcher(d)
    PROVE  IInv'
PROOF
  <1>1. PICK p \in Pid : /\ TakePid(p, d)
                         /\ pidOf' = [pidOf EXCEPT ![d] = p]
                         /\ Open(d, <<p, "main">>)
    BY DEF StartDispatcher
  <1> DEFINE main == <<p, "main">>
  <1>2. /\ main \in Path /\ PidOf(main) = p
        /\ now \in 0 .. MaxTime
    BY Paths DEF IInv, Typed
  <1>3. Typed'
    <2>1. /\ holder' \in [Pid -> Dispatcher \cup {Free, Other}]
          /\ started' \in [Pid -> 0 .. MaxTime]
          /\ mtime' \in [Path -> {Absent} \cup 0 .. MaxTime]
      BY <1>1, <1>2 DEF IInv, Typed, TakePid, Open
    <2>2. /\ pidOf' \in [Dispatcher -> Pid \cup {Absent}]
          /\ opened' \in [Dispatcher -> SUBSET Path]
          /\ pc' \in [Dispatcher ->
                 {"new", "listing", "scanning", "working", "exited", "crashed"}]
          /\ changed' \in [Dispatcher -> SUBSET Pid]
      BY <1>1, <1>2, ChangesRight DEF IInv, Typed, TakePid, Open, StartDispatcher
    <2> QED
      BY <2>1, <2>2 DEF IInv, Typed, StartDispatcher, fixed, scanVars
  <1>4. Holds'
    BY <1>1, Constants DEF IInv, StartDispatcher, Typed, Holds, TakePid, Running
  <1>5. Owners'
    BY <1>1, <1>2, Constants
    DEF IInv, StartDispatcher, Typed, Holds, Owners, TakePid, Open, Running
  <1>6. Scans'
    BY <1>1 DEF IInv, StartDispatcher, Typed, Scans, scanVars
  <1>7. FoundRunning' /\ JudgedRightly' /\ OrphansRemoved'
    <2>1. /\ Changes(p)
          /\ \A q \in Pid \ {p} : holder'[q] = holder[q] /\ started'[q] = started[q]
          /\ \A path \in Path : PidOf(path) # p => mtime'[path] = mtime[path]
      BY <1>1, <1>2 DEF IInv, Typed, TakePid, Open
    <2>2. UNCHANGED <<now, startTimesKnown, linked, file, stage, settled>>
      BY DEF StartDispatcher, fixed, scanVars
    <2>3. \A v \in Dispatcher : \A path \in opened[v] : path \in opened'[v]
      BY <1>1 DEF IInv, Typed, Open
    <2> QED
      BY <2>1, <2>2, <2>3, ScansNoticeChanges
  <1>8. LiveLogKept'
    BY DEF IInv, StartDispatcher, LiveLogKept
  <1> QED
    BY <1>3, <1>4, <1>5, <1>6, <1>7, <1>8 DEF IInv

\* A cleanup run opens no log of its own.
LEMMA StartCleanupStep ==
    ASSUME IInv, NEW d \in Dispatcher, StartCleanup(d)
    PROVE  IInv'
PROOF
  <1>1. PICK p \in Pid : TakePid(p, d) /\ pidOf' = [pidOf EXCEPT ![d] = p]
    BY DEF StartCleanup
  <1>2. Typed'
    <2>1. /\ holder' \in [Pid -> Dispatcher \cup {Free, Other}]
          /\ started' \in [Pid -> 0 .. MaxTime]
      BY <1>1 DEF IInv, Typed, TakePid
    <2>2. /\ pidOf' \in [Dispatcher -> Pid \cup {Absent}]
          /\ cleaners' \subseteq Dispatcher
          /\ pc' \in [Dispatcher ->
                 {"new", "listing", "scanning", "working", "exited", "crashed"}]
          /\ changed' \in [Dispatcher -> SUBSET Pid]
      BY <1>1, ChangesRight DEF IInv, Typed, TakePid, StartCleanup
    <2> QED
      BY <2>1, <2>2 DEF IInv, Typed, StartCleanup, fixed, scanVars
  <1>3. Holds'
    BY <1>1, Constants DEF IInv, StartCleanup, Typed, Holds, TakePid, Running
  <1>4. Owners'
    BY <1>1, Constants DEF IInv, StartCleanup, Typed, Holds, Owners, TakePid, Running
  <1>5. Scans'
    BY <1>1 DEF IInv, StartCleanup, Typed, Scans, scanVars
  <1>6. FoundRunning' /\ JudgedRightly' /\ OrphansRemoved'
    <2>1. /\ Changes(p)
          /\ \A q \in Pid \ {p} : holder'[q] = holder[q] /\ started'[q] = started[q]
      BY <1>1 DEF IInv, Typed, TakePid
    <2>2. UNCHANGED <<now, startTimesKnown, linked, mtime, opened, file, stage, settled>>
      BY DEF StartCleanup, fixed, scanVars
    <2> QED
      BY <2>1, <2>2, ScansNoticeChanges
  <1>7. LiveLogKept'
    BY DEF IInv, StartCleanup, LiveLogKept
  <1> QED
    BY <1>2, <1>3, <1>4, <1>5, <1>6, <1>7 DEF IInv

\* Only a dispatcher that runs has a PID to open the log of a task under.
LEMMA OpenTaskLogStep ==
    ASSUME IInv, NEW d \in Dispatcher, OpenTaskLog(d)
    PROVE  IInv'
PROOF
  <1> DEFINE p    == pidOf[d]
             path == <<p, "task">>
  <1>1. /\ p \in Pid /\ path \in Path /\ PidOf(path) = p
        /\ Running(d) /\ now \in 0 .. MaxTime
        /\ Open(d, path) /\ Changes(p)
    <2>1. Running(d) /\ p \in Pid
      BY DEF IInv, Typed, Holds, OpenTaskLog, Running
    <2>2. Open(d, path) /\ Changes(p)
      BY DEF OpenTaskLog
    <2> QED
      BY <2>1, <2>2, Paths DEF IInv, Typed
  <1> HIDE DEF p, path
  <1>2. Typed'
    <2>1. /\ mtime' \in [Path -> {Absent} \cup 0 .. MaxTime]
          /\ opened' \in [Dispatcher -> SUBSET Path]
      BY <1>1 DEF IInv, Typed, Open
    <2>2. changed' \in [Dispatcher -> SUBSET Pid]
      BY <1>1, ChangesRight DEF IInv
    <2> QED
      BY <2>1, <2>2 DEF IInv, Typed, OpenTaskLog, fixed, scanVars, systemVars
  <1>3. Holds'
    BY DEF IInv, OpenTaskLog, Holds, Running, systemVars
  <1>4. Owners'
    BY <1>1 DEF IInv, Typed, OpenTaskLog, Owners, Open, Running, systemVars, p
  <1>5. Scans'
    BY DEF IInv, OpenTaskLog, Scans, scanVars
  <1>6. FoundRunning' /\ JudgedRightly' /\ OrphansRemoved'
    <2>1. \A q \in Path : PidOf(q) # p => mtime'[q] = mtime[q]
      BY <1>1 DEF IInv, Typed, Open
    <2>2. UNCHANGED <<now, startTimesKnown, linked, holder, started, file, stage, settled>>
      BY DEF OpenTaskLog, fixed, systemVars, scanVars
    <2>3. \A v \in Dispatcher : \A q \in opened[v] : q \in opened'[v]
      BY <1>1 DEF IInv, Typed, Open
    <2> QED
      BY <1>1, <2>1, <2>2, <2>3, ScansNoticeChanges
  <1>7. LiveLogKept'
    BY DEF IInv, OpenTaskLog, LiveLogKept
  <1> QED
    BY <1>2, <1>3, <1>4, <1>5, <1>6, <1>7 DEF IInv

\* A process that gives up its PID takes what it had open with it.
LEMMA ExitStep ==
    ASSUME IInv, NEW d \in Dispatcher, Exit(d)
    PROVE  IInv'
PROOF
  <1> DEFINE p    == pidOf[d]
             main == <<p, "main">>
  <1>1. p \in Pid /\ Running(d) /\ LeavePid(p) /\ Changes(p)
    <2>1. Running(d) /\ p \in Pid
      BY DEF IInv, Typed, Holds, Exit, Running
    <2>2. LeavePid(p) /\ Changes(p)
      BY DEF Exit, LeavePid
    <2> QED
      BY <2>1, <2>2
  <1>2. main \in Path /\ PidOf(main) = p
    BY <1>1, Paths
  <1>3. mtime' = mtime \/ mtime' = [mtime EXCEPT ![main] = Absent]
    BY DEF Exit
  <1> HIDE DEF p, main
  <1>4. Typed'
    <2>1. /\ mtime' \in [Path -> {Absent} \cup 0 .. MaxTime]
          /\ holder' \in [Pid -> Dispatcher \cup {Free, Other}]
          /\ started' \in [Pid -> 0 .. MaxTime]
      BY <1>1, <1>2, <1>3, Constants DEF IInv, Typed, LeavePid
    <2>2. /\ pidOf' \in [Dispatcher -> Pid \cup {Absent}]
          /\ opened' \in [Dispatcher -> SUBSET Path]
          /\ pc' \in [Dispatcher ->
                 {"new", "listing", "scanning", "working", "exited", "crashed"}]
          /\ changed' \in [Dispatcher -> SUBSET Pid]
      BY <1>1, ChangesRight DEF IInv, Typed, Exit
    <2> QED
      BY <2>1, <2>2 DEF IInv, Typed, Exit, fixed, scanVars
  <1>5. Holds'
    BY <1>1, Constants DEF IInv, Exit, Typed, Holds, LeavePid, Running, p
  <1>6. Owners'
    BY <1>1 DEF IInv, Typed, Exit, Owners, Running
  <1>7. Scans'
    BY DEF IInv, Typed, Exit, Scans, scanVars
  <1>8. FoundRunning' /\ JudgedRightly' /\ OrphansRemoved'
    <2>1. /\ \A q \in Pid \ {p} : holder'[q] = holder[q] /\ started'[q] = started[q]
          /\ \A path \in Path : PidOf(path) # p => mtime'[path] = mtime[path]
      BY <1>1, <1>2, <1>3 DEF IInv, Typed, LeavePid
    <2>2. UNCHANGED <<now, startTimesKnown, linked, file, stage, settled>>
      BY DEF Exit, fixed, scanVars
    <2>3. \A v \in Dispatcher : \A path \in opened[v] : PidOf(path) # p => path \in opened'[v]
      BY DEF IInv, Typed, Owners, Exit, p
    <2> QED
      BY <1>1, <2>1, <2>2, <2>3, ScansNoticeChanges
  <1>9. LiveLogKept'
    BY DEF IInv, Exit, LiveLogKept
  <1> QED
    BY <1>4, <1>5, <1>6, <1>7, <1>8, <1>9 DEF IInv

LEMMA CrashStep ==
    ASSUME IInv, NEW d \in Dispatcher, Crash(d)
    PROVE  IInv'
PROOF
  <1> DEFINE p == pidOf[d]
  <1>1. p \in Pid /\ Running(d) /\ LeavePid(p) /\ Changes(p)
    <2>1. Running(d) /\ p \in Pid
      BY DEF IInv, Typed, Holds, Crash
    <2>2. LeavePid(p) /\ Changes(p)
      BY DEF Crash, LeavePid
    <2> QED
      BY <2>1, <2>2
  <1> HIDE DEF p
  <1>2. Typed'
    <2>1. /\ holder' \in [Pid -> Dispatcher \cup {Free, Other}]
          /\ started' \in [Pid -> 0 .. MaxTime]
      BY <1>1, Constants DEF IInv, Typed, LeavePid
    <2>2. /\ pidOf' \in [Dispatcher -> Pid \cup {Absent}]
          /\ opened' \in [Dispatcher -> SUBSET Path]
          /\ pc' \in [Dispatcher ->
                 {"new", "listing", "scanning", "working", "exited", "crashed"}]
          /\ changed' \in [Dispatcher -> SUBSET Pid]
      BY <1>1, ChangesRight DEF IInv, Typed, Crash
    <2>3. /\ todo' \in [Dispatcher -> SUBSET Path]
          /\ settled' \in [Dispatcher -> SUBSET Path]
          /\ file' \in [Dispatcher -> SUBSET Path]
          /\ stage' \in [Dispatcher -> {"running", "reused", "remove"}]
      BY DEF IInv, Typed, Crash
    <2> QED
      BY <2>1, <2>2, <2>3 DEF IInv, Typed, Crash, fixed
  <1>3. Holds'
    BY <1>1, Constants DEF IInv, Crash, Typed, Holds, LeavePid, Running, p
  <1>4. Owners'
    BY <1>1 DEF IInv, Typed, Crash, Owners, Running
  <1>5. Scans'
    BY DEF IInv, Typed, Crash, Scans
  <1>6. FoundRunning' /\ JudgedRightly' /\ OrphansRemoved'
    <2>1. \A q \in Pid \ {p} : holder'[q] = holder[q] /\ started'[q] = started[q]
      BY <1>1 DEF IInv, Typed, LeavePid
    <2>2. UNCHANGED <<now, startTimesKnown, linked, mtime>>
      BY DEF Crash, fixed
    <2>3. \A e \in Dispatcher :
              \/ file'[e] = file[e] /\ stage'[e] = stage[e] /\ settled'[e] = settled[e]
              \/ file'[e] = {} /\ settled'[e] = {}
      BY DEF Crash, IInv, Typed
    <2>4. \A v \in Dispatcher : \A path \in opened[v] : PidOf(path) # p => path \in opened'[v]
      BY DEF IInv, Typed, Owners, Crash, p
    <2> QED
      BY <1>1, <2>1, <2>2, <2>3, <2>4, ScansNoticeChanges
  <1>7. LiveLogKept'
    BY DEF IInv, Crash, LiveLogKept
  <1> QED
    BY <1>2, <1>3, <1>4, <1>5, <1>6, <1>7 DEF IInv

\* A process that is no dispatcher takes a PID or gives it up.
LEMMA OtherStep ==
    ASSUME IInv, OtherStarts \/ OtherExits
    PROVE  IInv'
PROOF
  <1> DEFINE unchanged == <<now, fixed, pidOf, cleaners, mtime, pc, opened, scanVars, stolen>>
  <1>1. PICK p \in Pid : TakePid(p, Other) \/ (holder[p] = Other /\ LeavePid(p))
    BY DEF OtherStarts, OtherExits
  <1>2. UNCHANGED unchanged /\ others' \in 0 .. MaxOthers
    BY Constants DEF OtherStarts, OtherExits, IInv, Typed
  <1>3. /\ Changes(p)
        /\ \A q \in Pid \ {p} : holder'[q] = holder[q] /\ started'[q] = started[q]
    BY <1>1 DEF IInv, Typed, TakePid, LeavePid
  <1>4. Typed'
    <2>1. /\ holder' \in [Pid -> Dispatcher \cup {Free, Other}]
          /\ started' \in [Pid -> 0 .. MaxTime]
      BY <1>1, Constants DEF IInv, Typed, TakePid, LeavePid
    <2>2. changed' \in [Dispatcher -> SUBSET Pid]
      BY <1>3, ChangesRight DEF IInv
    <2> QED
      BY <1>2, <2>1, <2>2 DEF IInv, Typed, fixed, scanVars
  <1>5. Holds'
    BY <1>1, <1>2, Constants DEF IInv, Typed, Holds, TakePid, LeavePid, Running
  <1>6. Owners' /\ Scans' /\ LiveLogKept'
    BY <1>2 DEF IInv, Owners, Scans, LiveLogKept, Running, scanVars
  <1>7. FoundRunning' /\ JudgedRightly' /\ OrphansRemoved'
    BY <1>2, <1>3, ScansNoticeChanges DEF fixed, scanVars
  <1> QED
    BY <1>4, <1>5, <1>6, <1>7 DEF IInv

-----------------------------------------------------------------------------
(* Logs are written, and time passes *)

\* What a process that runs writes to was not judged to be an orphan's, and what was
\* judged to be older than that process is written to for the first time.
LEMMA WriteStep ==
    ASSUME IInv, NEW d \in Dispatcher, Write(d)
    PROVE  IInv'
PROOF
  <1>1. PICK path \in opened[d] :
            /\ mtime[path] # Absent
            /\ mtime' = [mtime EXCEPT ![path] = now]
            /\ IF Dormant(path) THEN Changes(PidOf(path)) ELSE UNCHANGED changed
    BY DEF Write
  <1> DEFINE p == PidOf(path)
  <1>2. path \in Path /\ p \in Pid /\ holder[p] # Free
    BY Constants, Paths DEF IInv, Typed, Owners, Holds
  <1>3. UNCHANGED <<now, fixed, systemVars, pc, opened, scanVars, stolen>>
    BY DEF Write
  <1>4. \A q \in Path \ {path} : mtime'[q] = mtime[q]
    BY <1>1 DEF IInv, Typed
  <1> HIDE DEF p
  <1>5. Typed'
    <2>1. mtime' \in [Path -> {Absent} \cup 0 .. MaxTime]
      BY <1>1 DEF IInv, Typed
    <2>2. changed' \in [Dispatcher -> SUBSET Pid]
      BY <1>1, <1>2, ChangesRight DEF IInv, Typed, p
    <2> QED
      BY <1>3, <2>1, <2>2 DEF IInv, Typed, fixed, systemVars, scanVars
  <1>6. Holds' /\ Owners' /\ Scans' /\ LiveLogKept'
    BY <1>3 DEF IInv, Holds, Owners, Scans, LiveLogKept, Running, systemVars, scanVars
  <1>7. FoundRunning' /\ JudgedRightly' /\ OrphansRemoved'
    <2>1. CASE Changes(p)
      <3>1. \A q \in Path : PidOf(q) # p => mtime'[q] = mtime[q]
        BY <1>4 DEF p
      <3> QED
        BY <1>2, <1>3, <2>1, <3>1, ScansNoticeChanges DEF fixed, systemVars, scanVars
    <2>2. CASE ~Dormant(path) /\ UNCHANGED changed
      <3>1. FoundRunning'
        BY <1>3, <2>2 DEF IInv, FoundRunning, systemVars, scanVars
      <3>2. JudgedRightly'
        <4> SUFFICES ASSUME NEW e \in Dispatcher, NEW q \in file[e],
                            stage[e] = "remove", PidOf(q) \notin changed[e]
                     PROVE  \/ holder[PidOf(q)] = Free \/ mtime'[q] = Absent
                            \/ Dormant(q)'
          BY <1>3, <2>2 DEF JudgedRightly, systemVars, scanVars
        <4>1. holder[PidOf(q)] = Free \/ mtime[q] = Absent \/ Dormant(q)
          BY DEF IInv, JudgedRightly
        <4>2. CASE q = path
          BY <1>1, <1>2, <2>2, <4>1, <4>2 DEF p
        <4>3. CASE q # path
          <5>1. q \in Path /\ mtime'[q] = mtime[q]
            BY <1>4, <4>3 DEF IInv, Typed
          <5>2. UNCHANGED <<now, startTimesKnown, started>>
            BY <1>3 DEF fixed, systemVars
          <5> QED
            BY <4>1, <5>1, <5>2 DEF Dormant
        <4> QED
          BY <4>2, <4>3
      <3>3. OrphansRemoved'
        <4> SUFFICES ASSUME NEW e \in Dispatcher, NEW q \in settled[e] \ linked,
                            PidOf(q) \notin changed[e]
                     PROVE  ~Orphan(q)'
          BY <1>3, <2>2 DEF OrphansRemoved, scanVars, fixed
        <4>1. UNCHANGED <<startTimesKnown, holder, started, opened>> /\ q \in Path
          BY <1>3 DEF fixed, systemVars, IInv, Typed
        <4>2. CASE q = path
          BY <4>1, <4>2 DEF Orphan
        <4>3. CASE q # path
          <5>1. ~Orphan(q)
            BY DEF IInv, OrphansRemoved
          <5>2. mtime'[q] = mtime[q]
            BY <1>4, <4>1, <4>3
          <5> QED
            BY <4>1, <5>1, <5>2 DEF Orphan
        <4> QED
          BY <4>2, <4>3
      <3> QED
        BY <3>1, <3>2, <3>3
    <2> QED
      BY <1>1, <2>1, <2>2 DEF p
  <1> QED
    BY <1>5, <1>6, <1>7 DEF IInv

LEMMA TickStep ==
    ASSUME IInv, Tick
    PROVE  IInv'
PROOF
  <1>1. now' \in 0 .. MaxTime
    BY Constants DEF IInv, Typed, Tick
  <1>2. Typed'
    BY <1>1 DEF IInv, Typed, Tick, fixed, systemVars, scanVars
  <1>3. Holds' /\ Owners' /\ Scans' /\ LiveLogKept'
    BY DEF IInv, Tick, Holds, Owners, Scans, LiveLogKept, Running, systemVars, scanVars
  <1>4. UNCHANGED <<startTimesKnown, linked, holder, started, mtime, opened, file, stage,
                    settled, changed>>
    BY DEF Tick, fixed, systemVars, scanVars
  <1>5. FoundRunning'
    BY <1>4 DEF IInv, FoundRunning
  <1>6. JudgedRightly'
    <2>1. ASSUME NEW path \in Path, Dormant(path)
          PROVE  Dormant(path)'
      <3>1. now \in Int /\ now' = now + 1 /\ mtime[path] \in Int /\ Old \in Int
        BY Constants DEF IInv, Typed, Tick
      <3> QED
        BY <1>4, <2>1, <3>1 DEF Dormant
    <2>2. \A d \in Dispatcher : file[d] \subseteq Path
      BY DEF IInv, Typed
    <2> QED
      BY <1>4, <2>1, <2>2 DEF IInv, JudgedRightly
  <1>7. OrphansRemoved'
    <2>1. \A path : Orphan(path)' <=> Orphan(path)
      BY <1>4 DEF Orphan
    <2> QED
      BY <1>4, <2>1 DEF IInv, OrphansRemoved
  <1> QED
    BY <1>2, <1>3, <1>5, <1>6, <1>7 DEF IInv

-----------------------------------------------------------------------------
(* cleanupOldLogs *)

\* A scan starts with nothing in hand, and ends that way.
LEMMA ListStep ==
    ASSUME IInv, NEW d \in Dispatcher, List(d)
    PROVE  IInv'
PROOF
  <1>1. file[d] = {} /\ settled[d] = {}
    BY DEF IInv, Scans, List
  <1>2. UNCHANGED <<now, fixed, systemVars, mtime, opened, file, stage, settled, stolen>>
    BY DEF List
  <1>3. \A e \in Dispatcher \ {d} : pc'[e] = pc[e] /\ changed'[e] = changed[e]
    BY DEF IInv, Typed, List
  <1>4. Running(d) /\ Running(d)'
    BY DEF IInv, Typed, List, Running
  <1>5. Typed'
    BY <1>2 DEF IInv, Typed, List, fixed, systemVars
  <1>6. Holds' /\ Owners'
    BY <1>2, <1>3, <1>4 DEF IInv, Holds, Owners, Running, systemVars
  <1>7. Scans' /\ LiveLogKept'
    BY <1>1, <1>2, <1>3 DEF IInv, Scans, LiveLogKept
  <1>8. FoundRunning' /\ JudgedRightly' /\ OrphansRemoved'
    BY <1>1, <1>2, <1>3, StandingKept DEF IInv, FoundRunning, JudgedRightly, OrphansRemoved
  <1> QED
    BY <1>5, <1>6, <1>7, <1>8 DEF IInv

LEMMA EndScanStep ==
    ASSUME IInv, NEW d \in Dispatcher, EndScan(d)
    PROVE  IInv'
PROOF
  <1>1. UNCHANGED <<now, fixed, systemVars, mtime, opened, todo, file, stage, changed, stolen>>
    BY DEF EndScan
  <1>2. /\ \A e \in Dispatcher \ {d} : pc'[e] = pc[e] /\ settled'[e] = settled[e]
        /\ file[d] = {} /\ settled'[d] = {}
    BY DEF IInv, Typed, EndScan
  <1>3. Running(d) /\ Running(d)'
    BY DEF IInv, Typed, EndScan, Running
  <1>4. Typed'
    BY <1>1 DEF IInv, Typed, EndScan, fixed, systemVars
  <1>5. Holds' /\ Owners'
    BY <1>1, <1>2, <1>3 DEF IInv, Holds, Owners, Running, systemVars
  <1>6. Scans' /\ LiveLogKept'
    BY <1>1, <1>2 DEF IInv, Scans, LiveLogKept
  <1>7. FoundRunning' /\ JudgedRightly' /\ OrphansRemoved'
    BY <1>1, <1>2, StandingKept DEF IInv, FoundRunning, JudgedRightly, OrphansRemoved
  <1> QED
    BY <1>4, <1>5, <1>6, <1>7 DEF IInv

\* What the checks of a path share: they read the processes and the logs only.
LEMMA CheckFrame ==
    ASSUME IInv,
           UNCHANGED <<now, fixed, systemVars, mtime, pc, opened, changed, stolen>>,
           todo' \in [Dispatcher -> SUBSET Path],
           settled' \in [Dispatcher -> SUBSET Path],
           file' \in [Dispatcher -> SUBSET Path],
           stage' \in [Dispatcher -> {"running", "reused", "remove"}]
    PROVE  Typed' /\ Holds' /\ Owners' /\ LiveLogKept'
PROOF
  <1>1. Typed'
    BY DEF IInv, Typed, fixed, systemVars
  <1>2. Holds' /\ Owners' /\ LiveLogKept'
    BY DEF IInv, Holds, Owners, Running, LiveLogKept, systemVars
  <1> QED
    BY <1>1, <1>2

\* A path is passed over only when there is nothing to remove.
LEMMA CheckSafeStep ==
    ASSUME IInv, NEW d \in Dispatcher, NEW path \in Path, CheckSafe(d, path)
    PROVE  IInv'
PROOF
  <1>1. /\ UNCHANGED <<now, fixed, systemVars, mtime, pc, opened, changed, stolen>>
        /\ pc[d] = "scanning" /\ file[d] = {} /\ stage[d] = "running"
    BY DEF IInv, Scans, CheckSafe
  <1>2. /\ \A e \in Dispatcher \ {d} :
               file'[e] = file[e] /\ stage'[e] = stage[e] /\ settled'[e] = settled[e]
        /\ stage'[d] = "running"
        /\ \/ /\ file'[d] = {} /\ settled'[d] = settled[d] \cup {path}
              /\ mtime[path] = Absent \/ path \in linked
           \/ file'[d] = {path} /\ settled'[d] = settled[d]
    BY <1>1 DEF IInv, Typed, CheckSafe, NextFile
  <1>3. /\ todo' \in [Dispatcher -> SUBSET Path]
        /\ settled' \in [Dispatcher -> SUBSET Path]
        /\ file' \in [Dispatcher -> SUBSET Path]
        /\ stage' \in [Dispatcher -> {"running", "reused", "remove"}]
    BY DEF IInv, Typed, CheckSafe, NextFile
  <1>4. Scans'
    BY <1>1, <1>2 DEF IInv, Scans
  <1>5. FoundRunning' /\ JudgedRightly'
    BY <1>1, <1>2, StandingKept DEF IInv, FoundRunning, JudgedRightly
  <1>6. OrphansRemoved'
    <2>1. ~Orphan(path) \/ path \in linked \/ settled'[d] = settled[d]
      BY <1>2 DEF Orphan
    <2> QED
      BY <1>1, <1>2, <2>1, StandingKept DEF IInv, OrphansRemoved
  <1> QED
    BY <1>1, <1>3, <1>4, <1>5, <1>6, CheckFrame DEF IInv

LEMMA CheckRunningStep ==
    ASSUME IInv, NEW d \in Dispatcher, NEW path \in Path, CheckRunning(d, path)
    PROVE  IInv'
PROOF
  <1>1. /\ UNCHANGED <<now, fixed, systemVars, mtime, pc, opened, todo, changed, stolen>>
        /\ UNCHANGED <<file, settled>>
        /\ file[d] = {path}
    BY DEF CheckRunning, Examine, Proceed
  <1>2. /\ \A e \in Dispatcher \ {d} : stage'[e] = stage[e]
        /\ stage'[d] = IF holder[PidOf(path)] = Free THEN "remove" ELSE "reused"
        /\ stage' \in [Dispatcher -> {"running", "reused", "remove"}]
    BY DEF IInv, Typed, CheckRunning, Proceed
  <1>3. Scans'
    BY <1>1, <1>2 DEF IInv, Scans
  <1>4. FoundRunning' /\ JudgedRightly'
    BY <1>1, <1>2, StandingKept DEF IInv, FoundRunning, JudgedRightly
  <1>5. OrphansRemoved'
    BY <1>1, StandingKept DEF IInv, OrphansRemoved
  <1>6. Typed' /\ Holds' /\ Owners' /\ LiveLogKept'
    BY <1>1, <1>2, CheckFrame DEF IInv, Typed
  <1> QED
    BY <1>3, <1>4, <1>5, <1>6 DEF IInv

\* A log of a process with a known start time counts as an earlier one's only if it
\* was last written to before.
LEMMA CheckReusedStep ==
    ASSUME IInv, NEW d \in Dispatcher, NEW path \in Path, CheckReused(d, path)
    PROVE  IInv'
PROOF
  <1>1. /\ UNCHANGED <<now, fixed, systemVars, mtime, pc, opened, todo, changed, stolen>>
        /\ file[d] = {path} /\ stage[d] = "reused"
        /\ pc[d] = "scanning"
        /\ holder[PidOf(path)] # Free \/ PidOf(path) \in changed[d]
    BY DEF CheckReused, Examine, IInv, FoundRunning
  <1>2. CASE Reused(path)
    <2>1. /\ \A e \in Dispatcher \ {d} : stage'[e] = stage[e]
          /\ stage'[d] = "remove" /\ UNCHANGED <<file, settled>>
          /\ stage' \in [Dispatcher -> {"running", "reused", "remove"}]
      BY <1>2 DEF IInv, Typed, CheckReused, Proceed
    <2>2. holder[PidOf(path)] = Free \/ Dormant(path)
      <3>1. PidOf(path) \in Pid
        BY Paths
      <3>2. mtime[path] \in Int /\ started[PidOf(path)] \in Int
        BY <3>1, Constants DEF IInv, Typed
      <3> QED
        BY <1>2, <3>2 DEF Reused, Dormant
    <2>3. Scans'
      BY <1>1, <2>1 DEF IInv, Scans
    <2>4. FoundRunning'
      BY <1>1, <2>1 DEF IInv, FoundRunning, systemVars
    <2>5. JudgedRightly'
      BY <1>1, <2>1, <2>2, StandingKept DEF IInv, JudgedRightly
    <2>6. OrphansRemoved'
      BY <1>1, <2>1, StandingKept DEF IInv, OrphansRemoved
    <2>7. Typed' /\ Holds' /\ Owners' /\ LiveLogKept'
      BY <1>1, <2>1, CheckFrame DEF IInv, Typed
    <2> QED
      BY <2>3, <2>4, <2>5, <2>6, <2>7 DEF IInv
  <1>3. CASE ~Reused(path)
    <2>1. /\ \A e \in Dispatcher \ {d} :
                 file'[e] = file[e] /\ stage'[e] = stage[e] /\ settled'[e] = settled[e]
          /\ file'[d] = {} /\ stage'[d] = "running" /\ settled'[d] = settled[d] \cup {path}
          /\ settled' \in [Dispatcher -> SUBSET Path]
          /\ file' \in [Dispatcher -> SUBSET Path]
          /\ stage' \in [Dispatcher -> {"running", "reused", "remove"}]
      BY <1>3 DEF IInv, Typed, CheckReused, NextFile
    <2>2. Scans'
      BY <1>1, <2>1 DEF IInv, Scans
    <2>3. FoundRunning' /\ JudgedRightly'
      BY <1>1, <2>1, StandingKept DEF IInv, FoundRunning, JudgedRightly
    <2>4. OrphansRemoved'
      <3>1. PidOf(path) \notin changed[d] => ~Orphan(path)
        BY <1>1, <1>3 DEF Reused, Orphan
      <3> QED
        BY <1>1, <2>1, <3>1, StandingKept DEF IInv, OrphansRemoved
    <2>5. Typed' /\ Holds' /\ Owners' /\ LiveLogKept'
      BY <1>1, <2>1, CheckFrame DEF IInv, Typed
    <2> QED
      BY <2>2, <2>3, <2>4, <2>5 DEF IInv
  <1> QED
    BY <1>2, <1>3

\* The log of a process that runs is never among those a scan may remove on the
\* evidence of an undisturbed start time.
LEMMA RemoveStep ==
    ASSUME IInv, NEW d \in Dispatcher, NEW path \in Path, Remove(d, path)
    PROVE  IInv'
PROOF
  <1>1. /\ UNCHANGED <<now, fixed, systemVars, pc, opened, todo, changed>>
        /\ file[d] = {path} /\ stage[d] = "remove" /\ pc[d] = "scanning"
    BY DEF Remove, Examine
  <1>2. /\ \A e \in Dispatcher \ {d} :
               file'[e] = file[e] /\ stage'[e] = stage[e] /\ settled'[e] = settled[e]
        /\ file'[d] = {} /\ stage'[d] = "running"
        /\ settled'[d] = settled[d] \/ settled'[d] = settled[d] \cup {path}
        /\ settled' \in [Dispatcher -> SUBSET Path]
        /\ file' \in [Dispatcher -> SUBSET Path]
        /\ stage' \in [Dispatcher -> {"running", "reused", "remove"}]
    BY DEF IInv, Typed, Remove, NextFile
  <1>3. /\ \A q \in Path \ {path} : mtime'[q] = mtime[q]
        /\ mtime'[path] = mtime[path] \/ mtime'[path] = Absent
        /\ settled'[d] = settled[d] \/ mtime'[path] = Absent
        /\ mtime' \in [Path -> {Absent} \cup 0 .. MaxTime]
    BY DEF IInv, Typed, Remove, NextFile
  <1>4. /\ stolen' \subseteq {"raced", "aged", "inherited", "plain"}
        /\ "plain" \notin stolen'
    <2>1. CASE UNCHANGED stolen
      BY <2>1 DEF IInv, Typed, LiveLogKept
    <2>2. CASE mtime[path] # Absent /\ stolen' = stolen \cup Theft(d, path)
      <3>1. \/ PidOf(path) \in changed[d] \/ Dormant(path)
            \/ holder[PidOf(path)] = Free
        BY <1>1, <2>2 DEF IInv, JudgedRightly
      <3>2. CASE PidOf(path) \in changed[d]
        BY <2>2, <3>2 DEF Theft, IInv, Typed, LiveLogKept
      <3>3. CASE PidOf(path) \notin changed[d] /\ Dormant(path)
        BY <2>2, <3>3 DEF Theft, IInv, Typed, LiveLogKept
      <3>4. CASE holder[PidOf(path)] = Free
        <4>1. \A v \in Dispatcher : path \notin opened[v]
          BY <3>4, Constants DEF IInv, Owners, Holds
        <4>2. Theft(d, path) = {}
          BY <4>1 DEF Theft
        <4> QED
          BY <2>2, <4>2 DEF IInv, Typed, LiveLogKept
      <3> QED
        BY <3>1, <3>2, <3>3, <3>4
    <2> QED
      BY <2>1, <2>2 DEF Remove
  <1>5. Typed'
    BY <1>1, <1>2, <1>3, <1>4 DEF IInv, Typed, fixed, systemVars
  <1>6. Holds' /\ Owners' /\ LiveLogKept'
    BY <1>1, <1>4 DEF IInv, Holds, Owners, Running, LiveLogKept, systemVars
  <1>7. Scans'
    BY <1>1, <1>2 DEF IInv, Scans
  <1>8. FoundRunning'
    BY <1>1, <1>2 DEF IInv, FoundRunning, systemVars
  <1>9. UNCHANGED <<now, startTimesKnown, linked, holder, started, opened, changed>>
    BY <1>1 DEF fixed, systemVars
  <1>10. JudgedRightly'
    <2> SUFFICES ASSUME NEW e \in Dispatcher, NEW q \in file'[e], stage'[e] = "remove",
                        PidOf(q) \notin changed[e]
                 PROVE  \/ holder[PidOf(q)] = Free \/ mtime'[q] = Absent \/ Dormant(q)'
      BY <1>9 DEF JudgedRightly
    <2>1. q \in file[e] /\ stage[e] = "remove" /\ q \in Path
      BY <1>2 DEF IInv, Typed
    <2>2. holder[PidOf(q)] = Free \/ mtime[q] = Absent \/ Dormant(q)
      BY <2>1 DEF IInv, JudgedRightly
    <2>3. mtime'[q] = mtime[q] \/ mtime'[q] = Absent
      BY <1>3, <2>1
    <2> QED
      BY <1>9, <2>2, <2>3 DEF Dormant
  <1>11. OrphansRemoved'
    <2> SUFFICES ASSUME NEW e \in Dispatcher, NEW q \in settled'[e] \ linked,
                        PidOf(q) \notin changed[e]
                 PROVE  ~Orphan(q)'
      BY <1>9 DEF OrphansRemoved
    <2>1. q \in Path /\ (q \in settled[e] \/ mtime'[q] = Absent)
      BY <1>2, <1>3 DEF IInv, Typed
    <2>2. mtime'[q] = mtime[q] \/ mtime'[q] = Absent
      BY <1>3, <2>1
    <2>3. q \in settled[e] => ~Orphan(q)
      BY DEF IInv, OrphansRemoved
    <2> QED
      BY <1>9, <2>1, <2>2, <2>3 DEF Orphan
  <1> QED
    BY <1>5, <1>6, <1>7, <1>8, <1>10, <1>11 DEF IInv

-----------------------------------------------------------------------------
(* The theorems *)

\* Every step of every dispatcher, of another process or of the clock keeps what the
\* scans rely on.
THEOREM StepInv == IInv /\ [Next]_vars => IInv'
PROOF
  <1> SUFFICES ASSUME IInv, [Next]_vars PROVE IInv'
    OBVIOUS
  <1>1. ASSUME NEW d \in Dispatcher, StartDispatcher(d) PROVE IInv'
    BY <1>1, StartDispatcherStep
  <1>2. ASSUME NEW d \in Dispatcher, StartCleanup(d) PROVE IInv'
    BY <1>2, StartCleanupStep
  <1>3. ASSUME NEW d \in Dispatcher, OpenTaskLog(d) PROVE IInv'
    BY <1>3, OpenTaskLogStep
  <1>4. ASSUME NEW d \in Dispatcher, Write(d) PROVE IInv'
    BY <1>4, WriteStep
  <1>5. ASSUME NEW d \in Dispatcher, Exit(d) PROVE IInv'
    BY <1>5, ExitStep
  <1>6. ASSUME NEW d \in Dispatcher, Crash(d) PROVE IInv'
    BY <1>6, CrashStep
  <1>7. ASSUME NEW d \in Dispatcher, Scan(d) PROVE IInv'
    BY <1>7, ListStep, EndScanStep, CheckSafeStep, CheckRunningStep, CheckReusedStep, RemoveStep
    DEF Scan
  <1>8. CASE OtherStarts \/ OtherExits
    BY <1>8, OtherStep
  <1>9. CASE Tick
    BY <1>9, TickStep
  <1>10. CASE UNCHANGED vars
    <2>1. Typed' /\ Holds' /\ Owners' /\ Scans'
      BY <1>10 DEF IInv, Typed, Holds, Owners, Scans, Running, vars
    <2>2. UNCHANGED <<now, fixed, systemVars, mtime, opened, file, stage, settled, changed, stolen>>
      BY <1>10 DEF vars, fixed, systemVars
    <2>3. FoundRunning' /\ JudgedRightly' /\ LiveLogKept' /\ OrphansRemoved'
      BY <2>2, StandingKept DEF IInv, FoundRunning, JudgedRightly, LiveLogKept, OrphansRemoved
    <2> QED
      BY <2>1, <2>3 DEF IInv
  <1> QED
    BY <1>1, <1>2, <1>3, <1>4, <1>5, <1>6, <1>7, <1>8, <1>9, <1>10 DEF Next

\* The inductive invariant holds throughout.
THEOREM Invariance == Spec => []IInv
  BY InitInv, StepInv, PTL DEF Spec

\* Every state is one of the machine's: a dispatcher runs exactly while it has its PID,
\* and a scan examines at most one log at a time.
THEOREM TypeCorrect == Spec => []TypeOK
PROOF
  <1>1. IInv => TypeOK
    BY TypesAreRight DEF IInv
  <1> QED
    BY <1>1, Invariance, PTL

\* However dispatchers start, write, clean up, end and crash while PIDs are handed out
\* anew, no cleanup removes a log that a running dispatcher has open and has written
\* to, unless its evidence changed during the scan or, where start times are unknown,
\* the log has been silent beyond the age limit when it is removed.
THEOREM LiveLogIsKept == Spec => []LiveLogKept
PROOF
  <1>1. IInv => LiveLogKept
    BY DEF IInv
  <1> QED
    BY <1>1, Invariance, PTL

\* A scan is never through with a log that nobody has open, whose PID is free or was
\* handed out anew more than a second after the log was last written, a symlink, a
\* failed removal and a PID under which something changed meanwhile excepted.
THEOREM OrphansAreRemoved == Spec => []OrphansRemoved
PROOF
  <1>1. IInv => OrphansRemoved
    BY DEF IInv
  <1> QED
    BY <1>1, Invariance, PTL
=============================================================================
