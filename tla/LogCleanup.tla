----------------------------- MODULE LogCleanup -----------------------------
(***************************************************************************)
(* The log files that dispatchers share in the temp directory: a log is     *)
(* named after its owner's PID, opened for append, removed by its owner on   *)
(* an orderly exit (the logs of tasks are not) and left behind by a crash.   *)
(* Every dispatcher starts with cleanupOldLogs (logger.go): it lists the     *)
(* logs and removes, one by one and each in several steps, those whose PID   *)
(* is not running or was reused, while other dispatchers start, write, clean *)
(* up and end, and the system hands PIDs out anew.                           *)
(***************************************************************************)
EXTENDS Integers, FiniteSets

CONSTANTS
    Dispatcher,   \* the runs of the program; each happens once
    Pid,
    Free,         \* no process has the PID
    Other,        \* a process that is no dispatcher has it
    Old,          \* seconds after which a log of unknown standing is old (7 days)
    StartTimes,   \* are process start times known: a subset of BOOLEAN
    Leftovers,    \* bound: the sets of logs that earlier runs may have left behind
    MaxTime,      \* bound of the clock, in seconds
    MaxOthers     \* bound: how often a process that is no dispatcher takes a PID

Absent == -1   \* no time, and no PID: parsePIDFromLog takes positive ones only

ASSUME CleanupAssumption ==
    /\ Absent \notin Pid
    /\ {Free, Other} \cap Dispatcher = {}
    /\ Free # Other
    /\ Old \in Nat /\ MaxTime \in Nat /\ MaxOthers \in Nat
    /\ StartTimes \subseteq BOOLEAN
    /\ Leftovers \subseteq SUBSET (Pid \X {"main", "task"})

Path == Pid \X {"main", "task"}
PidOf(path) == path[1]     \* parsePIDFromLog

VARIABLES
    now,
    startTimesKnown,
    others,     \* how often another process has taken a PID
    holder,     \* PID -> the process that has it
    started,    \* PID -> the start time of that process, 0 if there is none
    mtime,      \* path -> last modification, or Absent
    linked,     \* the paths that are symlinks
    pc,         \* dispatcher -> new, listing, scanning, working, exited, crashed
    pidOf,      \* dispatcher -> its PID while it runs
    cleaners,   \* the dispatchers called with --cleanup
    opened,     \* dispatcher -> the logs it has opened and not removed
    todo,       \* dispatcher -> paths of its scan not examined yet
    file,       \* dispatcher -> the path it examines: a set of at most one
    stage,      \* dispatcher -> the next check of that path
    changed,    \* history: PIDs that changed hands, or under which a log was opened or a
                \* dormant one written to, since the scan of a dispatcher began
    settled,    \* history: the paths the scan is through with, but for failed removals
    stolen      \* history: why logs that a running dispatcher had open were removed

vars == <<now, startTimesKnown, others, holder, started, mtime, linked, pc, pidOf, cleaners, opened,
          todo, file, stage, changed, settled, stolen>>

systemVars == <<holder, started, pidOf, cleaners, others>>
scanVars == <<todo, file, stage, settled>>
fixed == <<startTimesKnown, linked>>

Running(d) == pc[d] \in {"listing", "scanning", "working"}

TypeOK ==
    /\ now \in 0 .. MaxTime
    /\ startTimesKnown \in StartTimes
    /\ others \in 0 .. MaxOthers
    /\ holder \in [Pid -> Dispatcher \cup {Free, Other}]
    /\ started \in [Pid -> 0 .. MaxTime]
    /\ mtime \in [Path -> {Absent} \cup 0 .. MaxTime]
    /\ linked \subseteq Path
    /\ pc \in [Dispatcher -> {"new", "listing", "scanning", "working", "exited", "crashed"}]
    /\ pidOf \in [Dispatcher -> Pid \cup {Absent}]
    /\ \A d \in Dispatcher : Running(d) <=> pidOf[d] # Absent /\ holder[pidOf[d]] = d
    /\ cleaners \subseteq Dispatcher
    /\ opened \in [Dispatcher -> SUBSET Path]
    /\ {todo, settled, file} \subseteq [Dispatcher -> SUBSET Path]
    /\ \A d \in Dispatcher : Cardinality(file[d]) <= 1
    /\ stage \in [Dispatcher -> {"running", "reused", "remove"}]
    /\ changed \in [Dispatcher -> SUBSET Pid]
    /\ stolen \subseteq {"raced", "aged", "inherited", "plain"}

\* Earlier runs have left logs behind, one of the names may be a symlink.
Init ==
    /\ now = 0
    /\ startTimesKnown \in StartTimes
    /\ others = 0
    /\ holder = [p \in Pid |-> Free]
    /\ started = [p \in Pid |-> 0]
    /\ \E left \in Leftovers : mtime = [path \in Path |-> IF path \in left THEN 0 ELSE Absent]
    /\ linked \in {{}} \cup { {path} : path \in {q \in Path : mtime[q] = 0} }
    /\ pc = [d \in Dispatcher |-> "new"]
    /\ pidOf = [d \in Dispatcher |-> Absent]
    /\ cleaners = {}
    /\ opened = [d \in Dispatcher |-> {}]
    /\ todo = [d \in Dispatcher |-> {}]
    /\ file = [d \in Dispatcher |-> {}]
    /\ stage = [d \in Dispatcher |-> "running"]
    /\ changed = [d \in Dispatcher |-> {}]
    /\ settled = [d \in Dispatcher |-> {}]
    /\ stolen = {}

-----------------------------------------------------------------------------
(* Processes *)

\* A scan under way cannot know that something changes under the PID.
Changes(p) ==
    changed' = [d \in Dispatcher |-> IF pc[d] = "scanning" THEN changed[d] \cup {p} ELSE {}]

TakePid(p, who) ==
    /\ holder[p] = Free
    /\ holder' = [holder EXCEPT ![p] = who]
    /\ started' = [started EXCEPT ![p] = now]
    /\ Changes(p)

LeavePid(p) ==
    /\ holder' = [holder EXCEPT ![p] = Free]
    /\ started' = [started EXCEPT ![p] = 0]
    /\ Changes(p)

\* The log was last written before the process that has its PID started or, where start
\* times are unknown, longer ago than the age limit.
Dormant(path) ==
    /\ mtime[path] # Absent
    /\ IF startTimesKnown THEN mtime[path] < started[PidOf(path)] ELSE now - mtime[path] > Old

\* A log that exists, of an earlier process with the same PID, is opened for append:
\* until something is written its modification time stays what it was.
Open(d, path) ==
    /\ opened' = [opened EXCEPT ![d] = @ \cup {path}]
    /\ mtime' = [mtime EXCEPT ![path] = IF @ = Absent THEN now ELSE @]

\* run: NewLogger before anything else, then runStartupCleanup.
StartDispatcher(d) ==
    /\ pc[d] = "new"
    /\ \E p \in Pid :
           /\ TakePid(p, d)
           /\ pidOf' = [pidOf EXCEPT ![d] = p]
           /\ Open(d, <<p, "main">>)
    /\ pc' = [pc EXCEPT ![d] = "listing"]
    /\ UNCHANGED <<now, fixed, others, cleaners, scanVars, stolen>>

\* runCleanupMode: the scan is all it does, and it has no log of its own.
StartCleanup(d) ==
    /\ pc[d] = "new"
    /\ \E p \in Pid : TakePid(p, d) /\ pidOf' = [pidOf EXCEPT ![d] = p]
    /\ cleaners' = cleaners \cup {d}
    /\ pc' = [pc EXCEPT ![d] = "listing"]
    /\ UNCHANGED <<now, fixed, others, mtime, opened, scanVars, stolen>>

\* newTaskLoggerHandle opens a log of its own for a task of a parallel run.
OpenTaskLog(d) ==
    /\ pc[d] = "working"
    /\ d \notin cleaners
    /\ Open(d, <<pidOf[d], "task">>)
    /\ Changes(pidOf[d])
    /\ UNCHANGED <<now, fixed, systemVars, pc, scanVars, stolen>>

\* The worker writes out its buffer; a scan logs its warnings too. A log that was
\* removed meanwhile is written to without a name.
Write(d) ==
    /\ pc[d] \in {"scanning", "working"}
    /\ \E path \in opened[d] :
           /\ mtime[path] # Absent
           /\ mtime' = [mtime EXCEPT ![path] = now]
           /\ IF Dormant(path) THEN Changes(PidOf(path)) ELSE UNCHANGED changed
    /\ UNCHANGED <<now, fixed, systemVars, pc, opened, scanVars, stolen>>

\* RemoveLogFile takes the main log away; a task's log stays.
Exit(d) ==
    /\ pc[d] = "working"
    /\ mtime' = IF d \in cleaners THEN mtime ELSE [mtime EXCEPT ![<<pidOf[d], "main">>] = Absent]
    /\ opened' = [opened EXCEPT ![d] = {}]
    /\ LeavePid(pidOf[d])
    /\ pidOf' = [pidOf EXCEPT ![d] = Absent]
    /\ pc' = [pc EXCEPT ![d] = "exited"]
    /\ UNCHANGED <<now, fixed, others, cleaners, scanVars, stolen>>

Crash(d) ==
    /\ Running(d)
    /\ opened' = [opened EXCEPT ![d] = {}]
    /\ LeavePid(pidOf[d])
    /\ pidOf' = [pidOf EXCEPT ![d] = Absent]
    /\ pc' = [pc EXCEPT ![d] = "crashed"]
    /\ todo' = [todo EXCEPT ![d] = {}]
    /\ file' = [file EXCEPT ![d] = {}]
    /\ settled' = [settled EXCEPT ![d] = {}]
    /\ stage' = [stage EXCEPT ![d] = "running"]
    /\ UNCHANGED <<now, fixed, others, cleaners, mtime, stolen>>

OtherStarts ==
    /\ others < MaxOthers
    /\ others' = others + 1
    /\ \E p \in Pid : TakePid(p, Other)
    /\ UNCHANGED <<now, fixed, pidOf, cleaners, mtime, pc, opened, scanVars, stolen>>

OtherExits ==
    /\ \E p \in Pid : holder[p] = Other /\ LeavePid(p)
    /\ UNCHANGED <<now, fixed, others, pidOf, cleaners, mtime, pc, opened, scanVars, stolen>>

Tick ==
    /\ now < MaxTime
    /\ now' = now + 1
    /\ UNCHANGED <<fixed, systemVars, mtime, pc, opened, scanVars, changed, stolen>>

-----------------------------------------------------------------------------
(* cleanupOldLogs *)

List(d) ==
    /\ pc[d] = "listing"
    /\ todo' = [todo EXCEPT ![d] = {path \in Path : mtime[path] # Absent}]
    /\ changed' = [changed EXCEPT ![d] = {}]
    /\ pc' = [pc EXCEPT ![d] = "scanning"]
    /\ UNCHANGED <<now, fixed, systemVars, mtime, opened, file, stage, settled, stolen>>

\* The next check of a path, or the next path.
Proceed(d, next) ==
    /\ stage' = [stage EXCEPT ![d] = next]
    /\ UNCHANGED <<file, settled>>

NextFile(d, path) ==
    /\ file' = [file EXCEPT ![d] = {}]
    /\ stage' = [stage EXCEPT ![d] = "running"]
    /\ settled' = [settled EXCEPT ![d] = @ \cup {path}]

Examine(d, path, at) ==
    /\ pc[d] = "scanning"
    /\ file[d] = {path}
    /\ stage[d] = at

\* isUnsafeFile: a file that is gone, or a symlink, is left alone.
CheckSafe(d, path) ==
    /\ pc[d] = "scanning"
    /\ file[d] = {}
    /\ path \in todo[d]
    /\ todo' = [todo EXCEPT ![d] = @ \ {path}]
    /\ IF mtime[path] = Absent \/ path \in linked
       THEN NextFile(d, path)
       ELSE file' = [file EXCEPT ![d] = {path}] /\ UNCHANGED <<stage, settled>>
    /\ UNCHANGED <<now, fixed, systemVars, mtime, pc, opened, changed, stolen>>

\* isProcessRunning
CheckRunning(d, path) ==
    /\ Examine(d, path, "running")
    /\ Proceed(d, IF holder[PidOf(path)] = Free THEN "remove" ELSE "reused")
    /\ UNCHANGED <<now, fixed, systemVars, mtime, pc, opened, todo, changed, stolen>>

\* Mutant: the comparison of the two times is the wrong way round.
ReusedIfLater(path) ==
    /\ mtime[path] # Absent
    /\ IF startTimesKnown /\ holder[PidOf(path)] # Free
       THEN mtime[path] > started[PidOf(path)]
       ELSE now - mtime[path] > Old

\* Mutant: where the start time is unknown the age is not looked at.
ReusedAtAnyAge(path) ==
    /\ mtime[path] # Absent
    /\ IF startTimesKnown /\ holder[PidOf(path)] # Free
       THEN mtime[path] + 1 < started[PidOf(path)]
       ELSE TRUE

\* isPIDReused: written more than a second before the process started, or, when
\* the start time is unknown, old.
Reused(path) ==
    /\ mtime[path] # Absent
    /\ IF startTimesKnown /\ holder[PidOf(path)] # Free
       THEN mtime[path] + 1 < started[PidOf(path)]
       ELSE now - mtime[path] > Old

CheckReused(d, path) ==
    /\ Examine(d, path, "reused")
    /\ IF Reused(path) THEN Proceed(d, "remove") ELSE NextFile(d, path)
    /\ UNCHANGED <<now, fixed, systemVars, mtime, pc, opened, todo, changed, stolen>>

\* A removal that hits a running dispatcher's log: did something change under the PID
\* during this scan, or was the log dormant, so that its owner found it and has not
\* written to it, or not for longer than the age limit where age is all there is?
Theft(d, path) ==
    { CASE PidOf(path) \in changed[d]                      -> "raced"
        [] PidOf(path) \notin changed[d] /\ ~Dormant(path) -> "plain"
        [] PidOf(path) \notin changed[d] /\ Dormant(path)  ->
               IF startTimesKnown THEN "inherited" ELSE "aged" :
      victim \in {v \in Dispatcher : path \in opened[v]} }

\* A file that is gone by now counts as kept; a removal may fail.
Remove(d, path) ==
    /\ Examine(d, path, "remove")
    /\ \/ /\ mtime[path] # Absent
          /\ mtime' = [mtime EXCEPT ![path] = Absent]
          /\ stolen' = stolen \cup Theft(d, path)
          /\ NextFile(d, path)
       \/ /\ mtime[path] # Absent
          /\ file' = [file EXCEPT ![d] = {}]
          /\ stage' = [stage EXCEPT ![d] = "running"]
          /\ UNCHANGED <<mtime, settled, stolen>>
       \/ /\ mtime[path] = Absent
          /\ NextFile(d, path)
          /\ UNCHANGED <<mtime, stolen>>
    /\ UNCHANGED <<now, fixed, systemVars, pc, opened, todo, changed>>

\* Errors are logged and the run goes on (runStartupCleanup).
EndScan(d) ==
    /\ pc[d] = "scanning"
    /\ file[d] = {}
    /\ todo[d] = {}
    /\ pc' = [pc EXCEPT ![d] = "working"]
    /\ settled' = [settled EXCEPT ![d] = {}]
    /\ UNCHANGED <<now, fixed, systemVars, mtime, opened, todo, file, stage, changed, stolen>>

Scan(d) ==
    \/ List(d) \/ EndScan(d)
    \/ \E path \in Path :
           CheckSafe(d, path) \/ CheckRunning(d, path) \/ CheckReused(d, path)
               \/ Remove(d, path)

Next ==
    \/ \E d \in Dispatcher :
           \/ StartDispatcher(d) \/ StartCleanup(d) \/ OpenTaskLog(d) \/ Write(d)
           \/ Exit(d) \/ Crash(d) \/ Scan(d)
    \/ OtherStarts \/ OtherExits \/ Tick

Spec == Init /\ [][Next]_vars

-----------------------------------------------------------------------------
(* Properties *)

\* A cleanup removes no log that a running dispatcher has open and has written to,
\* the scanner's own included, unless during the scan the PID changed hands or the
\* log was opened or written to after a long silence, or start times are unknown and,
\* as it is removed, the log has been silent beyond the age limit.
LiveLogKept == "plain" \notin stolen

\* A log that no dispatcher has open, of a PID that nobody has or that was handed out
\* anew more than a second after the log was last written.
Orphan(path) ==
    /\ mtime[path] # Absent
    /\ \A d \in Dispatcher : path \notin opened[d]
    /\ \/ holder[PidOf(path)] = Free
       \/ startTimesKnown /\ mtime[path] + 1 < started[PidOf(path)]

\* The scan misses no orphan: none of the logs it is through with is one, unless it is
\* a symlink or something changed under its PID since the scan began.
OrphansRemoved ==
    \A d \in Dispatcher : \A path \in settled[d] \ linked :
        PidOf(path) \notin changed[d] => ~Orphan(path)

-----------------------------------------------------------------------------
(* What the repository states and the code does not keep *)

\* "Logs for active dispatcher processes are kept" (skills/code-dispatcher/SKILL.md),
\* also when the log's name was left behind by an earlier process with the PID.
InheritedLogKept == "inherited" \notin stolen
=============================================================================
