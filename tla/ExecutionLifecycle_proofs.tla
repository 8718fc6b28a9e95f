---------------------- MODULE ExecutionLifecycle_proofs ----------------------
(* Theorems about ExecutionLifecycle, for every set of scripts, every set of *)
(* exit statuses and every way a context may end: the safety properties of   *)
(* one run, and that the run implements TaskRun.                             *)
EXTENDS ExecutionLifecycle, TLAPS

\* How many events the backend has written.
Count == Len(backend.script) - Len(backend.todo)

\* What is yet to write is the rest of the script.
Progress ==
    /\ Len(backend.todo) <= Len(backend.script)
    /\ \A i \in 1 .. Len(backend.todo) : backend.todo[i] = backend.script[Count + i]

\* The parser hears what the backend has written, and nothing else.
Heard ==
    /\ \A i \in 1 .. Len(pipe) : \E k \in 1 .. Count : pipe[i] = backend.script[k]
    /\ parser.message # NoMessage =>
           \E k \in 1 .. Count : backend.script[k].message = parser.message

Completed == \E k \in 1 .. Count : backend.script[k].complete

\* The backend has given cause to stop it.
Cause == Completed \/ parser.state \notin {"none", "reading"}

\* Each stage on the way to a kill is reached for cause only.
Causes ==
    /\ completeSeen \/ messageTimer # "none" \/ flags["forcedAfterComplete"] => Cause
    /\ flags["ctxCancelled"] => ctx # "live"
    /\ flags["terminated"] <=> flags["ctxCancelled"] \/ flags["forcedAfterComplete"]
    /\ killTimer \in {"armed", "running"} \/ pc \in {"ctx", "forced"} => flags["terminated"]
    /\ killed => ctx # "live" \/ Cause

AfterWait == {"timers", "collect", "parse", "stderr", "stderrClosed", "result"}

\* Where the main goroutine is says what the others, the process and the timers
\* can still do.
Goroutines ==
    /\ waiter.state = "none" <=> backend.state = "none"
    /\ waiter.state = "none" <=> copier = "none"
    /\ waiter.state \in {"sent", "received"} <=> backend.state = "reaped"
    /\ pc = "pipes" => parser.state = "none"
    /\ pc \in {"pipes", "start"} => waiter.state = "none"
    /\ pc \in {"wait", "ctx", "forced"} => waiter.state \in {"waiting", "sent"}
    /\ pc \in AfterWait => waiter.state = "received"
    /\ pc = "returned" => waiter.state \in {"none", "received"}
    /\ pc \in AfterWait \ {"timers"} \/ Ran =>
           killTimer \notin {"armed", "running"} /\ messageTimer \notin {"armed", "fired"}
    /\ pc \in {"stderr", "stderrClosed", "result"} \/ Ran =>
           parser.state = "received" /\ ~stdoutOpen
    /\ pc = "stderrClosed" => ~stderrOpen
    /\ pc = "result" \/ Ran => copier = "received" /\ ~stderrOpen

\* What a result says of the run that has returned it.
Verdict ==
    Ran => IF result.code = 0
           THEN /\ ctx = "live"
                /\ result.message = parser.message /\ parser.message # NoMessage
                /\ waiter.err = 0 \/ flags["terminated"]
           ELSE \/ ctx # "live" \/ parser.message = NoMessage
                \/ waiter.err # 0 /\ ~flags["terminated"]

IInv == TypeOK /\ Progress /\ Heard /\ Causes /\ Goroutines /\ Verdict

-----------------------------------------------------------------------------
(* Helpers *)

\* An event has a message of the set, or none, and says whether it completes.
LEMMA ScriptsTyped ==
    ASSUME NEW script \in Scripts
    PROVE  script \in Seq(Event)
  BY LifecycleAssumption

LEMMA NoMessageTyped == NoMessage \in AllMessages
  BY Zenon DEF AllMessages

\* A step that is not a stutter, as one of the main goroutine's or of the others'.
LEMMA Steps ==
    ASSUME Next
    PROVE  \/ PipeFails \/ CreatePipes \/ StartFails \/ Start
           \/ WaitDone \/ CtxDone \/ MessageTimerFired \/ CompleteSeen \/ MessageSeen
           \/ ForceKill \/ StopTimers \/ CloseThenParse \/ Parsed
           \/ StderrDone \/ StderrTimeout \/ Return
           \/ ParseEvent \/ ParserEnds \/ ParserSends \/ CopierEnds \/ WaitReturns
           \/ MessageTimerFires \/ KillTimerFires \/ KillTimerKills
           \/ \E how \in CtxEnds : ContextEnds(how)
           \/ ExecKills \/ BackendWrites \/ BackendExits \/ GrandchildExits
           \/ UNCHANGED vars
  BY DEF Next, Main, Parser, KillTimer, Environment, Terminated

\* Closing a read end leaves a prefix of the pipe.
LEMMA Closed ==
    ASSUME TypeOK, CloseStdout
    PROVE  /\ stdoutOpen' = FALSE
           /\ pipe' \in Seq(Event)
           /\ Len(pipe') <= Len(pipe)
           /\ \A i \in 1 .. Len(pipe') : pipe'[i] = pipe[i]
  <1>1. CASE stdoutOpen
    <2> PICK n \in 0 .. Len(pipe) : pipe' = SubSeq(pipe, 1, n)
      BY <1>1 DEF CloseStdout
    <2> QED
      BY DEF CloseStdout, TypeOK
  <1>2. CASE ~stdoutOpen
    BY <1>2 DEF CloseStdout, TypeOK
  <1> QED
    BY <1>1, <1>2

\* A kill of the group stops the backend, if it runs, and nothing else of it.
LEMMA Killed ==
    ASSUME TypeOK, KillGroup
    PROVE  /\ backend' \in Process
           /\ backend'.script = backend.script /\ backend'.todo = backend.todo
           /\ backend.state # "running" => backend' = backend /\ killed' = killed
           /\ backend.state = "running" => backend'.state = "exited"
           /\ holder' \in BOOLEAN /\ killed' \in BOOLEAN
  BY DEF TypeOK, Process, KillGroup

\* What TypeOK says of the truth values, and of all the rest.
Truths ==
    /\ holder \in BOOLEAN /\ killed \in BOOLEAN
    /\ stdoutOpen \in BOOLEAN /\ stderrOpen \in BOOLEAN
    /\ messageSeen \in BOOLEAN /\ completeSeen \in BOOLEAN
    /\ flags \in [Flags -> BOOLEAN]

Data ==
    /\ ctx \in {"live", "timeout", "cancelled"}
    /\ backend \in Process
    /\ pipe \in Seq(Event)
    /\ parser \in Reader
    /\ copier \in {"none", "copying", "sent", "received"}
    /\ waiter \in Waiter
    /\ messageTimer \in {"none", "armed", "fired", "stopped"}
    /\ killTimer \in {"none", "armed", "running", "done", "stopped"}
    /\ pc \in {"pipes", "start", "wait", "ctx", "forced", "timers", "collect",
               "parse", "stderr", "stderrClosed", "result", "returned"}
    /\ result \in Outcomes

LEMMA TypeParts == TypeOK <=> Truths /\ Data
  BY DEF TypeOK, Truths, Data

-----------------------------------------------------------------------------
(* The invariant *)

THEOREM InitInv == Init => IInv
  <1> SUFFICES ASSUME Init PROVE IInv
    OBVIOUS
  <1>1. PICK script \in Scripts :
            backend = [state |-> "none", script |-> script, todo |-> script, status |-> 0]
    BY DEF Init
  <1>2. script \in Seq(Event) /\ Len(script) \in Nat
    BY ScriptsTyped
  <1>3. TypeOK
    <2>1. Truths
      BY Zenon DEF Init, Truths
    <2>2. Data
      BY <1>1, <1>2, NoMessageTyped DEF Init, Data, Process, Reader, Waiter, Outcomes, NoResult
    <2> QED
      BY <2>1, <2>2, TypeParts
  <1>4. Progress
    BY <1>1, <1>2 DEF Progress, Count
  <1>5. Heard /\ Causes /\ Goroutines /\ Verdict
    BY <1>1 DEF Init, Heard, Causes, Goroutines, Verdict, Ran, AfterWait, Flags
  <1> QED
    BY <1>3, <1>4, <1>5 DEF IInv

\* A step leaves a truth value a truth value.
LEMMA TruthsStep ==
    ASSUME Truths, [Next]_vars
    PROVE  Truths'
  <1> USE DEF Truths, backendVars, streamVars, seenVars, timerVars
  <1>1. CASE PipeFails
    BY <1>1, Zenon DEF PipeFails, Give
  <1>2. CASE CreatePipes
    BY <1>2, Zenon DEF CreatePipes
  <1>3. CASE StartFails
    BY <1>3, Zenon DEF StartFails, CloseStdout, Give
  <1>4. CASE Start
    BY <1>4, Zenon DEF Start
  <1>5. CASE WaitDone
    BY <1>5, Zenon DEF WaitDone
  <1>6. CASE CtxDone
    BY <1>6, Zenon DEF CtxDone, TerminateCommand
  <1>7. CASE MessageTimerFired
    BY <1>7, Zenon DEF MessageTimerFired, CloseStdout, TerminateCommand
  <1>8. CASE CompleteSeen
    BY <1>8, Zenon DEF CompleteSeen, Observe
  <1>9. CASE MessageSeen
    BY <1>9, Zenon DEF MessageSeen, Observe
  <1>10. CASE ForceKill
    BY <1>10, Zenon DEF ForceKill, KillGroup
  <1>11. CASE StopTimers
    BY <1>11, Zenon DEF StopTimers
  <1>12. CASE CloseThenParse
    BY <1>12, Zenon DEF CloseThenParse, CloseStdout, Observe
  <1>13. CASE Parsed
    BY <1>13, Zenon DEF Parsed, CloseStdout
  <1>14. CASE StderrDone
    BY <1>14, Zenon DEF StderrDone
  <1>15. CASE StderrTimeout
    BY <1>15, Zenon DEF StderrTimeout
  <1>16. CASE Return
    BY <1>16, Zenon DEF Return, Give
  <1>17. CASE ParseEvent
    BY <1>17, Zenon DEF ParseEvent
  <1>18. CASE ParserEnds
    BY <1>18, Zenon DEF ParserEnds
  <1>19. CASE ParserSends
    BY <1>19, Zenon DEF ParserSends
  <1>20. CASE CopierEnds
    BY <1>20, Zenon DEF CopierEnds
  <1>21. CASE WaitReturns
    BY <1>21, Zenon DEF WaitReturns
  <1>22. CASE MessageTimerFires
    BY <1>22, Zenon DEF MessageTimerFires
  <1>23. CASE KillTimerFires
    BY <1>23, Zenon DEF KillTimerFires
  <1>24. CASE KillTimerKills
    BY <1>24, Zenon DEF KillTimerKills, KillGroup
  <1>25. CASE \E how \in CtxEnds : ContextEnds(how)
    BY <1>25, Zenon DEF ContextEnds
  <1>26. CASE ExecKills
    BY <1>26, Zenon DEF ExecKills
  <1>27. CASE BackendWrites
    BY <1>27, Zenon DEF BackendWrites
  <1>28. CASE BackendExits
    BY <1>28, Zenon DEF BackendExits
  <1>29. CASE GrandchildExits
    BY <1>29, Zenon DEF GrandchildExits
  <1>30. CASE UNCHANGED vars
    BY <1>30, Zenon DEF vars
  <1> QED
    BY <1>1, <1>2, <1>3, <1>4, <1>5, <1>6, <1>7, <1>8, <1>9, <1>10, <1>11, <1>12, <1>13, <1>14, <1>15, <1>16, <1>17, <1>18, <1>19, <1>20, <1>21, <1>22, <1>23, <1>24, <1>25, <1>26, <1>27, <1>28, <1>29, <1>30, Steps

LEMMA DataStep ==
    ASSUME TypeOK, [Next]_vars
    PROVE  Data'
  <1> USE DEF Data, Process, Reader, Waiter, Outcomes, backendVars, streamVars, seenVars, timerVars
  <1>0. Data
    BY TypeParts
  <1>1. CASE PipeFails
    BY <1>0, <1>1, NoMessageTyped DEF PipeFails, Give, NoResult
  <1>2. CASE CreatePipes
    BY <1>0, <1>2 DEF CreatePipes
  <1>3. CASE StartFails
    BY <1>0, <1>3, Closed, NoMessageTyped DEF StartFails, Give
  <1>4. CASE Start
    BY <1>0, <1>4 DEF Start
  <1>5. CASE WaitDone
    BY <1>0, <1>5 DEF WaitDone
  <1>6. CASE CtxDone
    BY <1>0, <1>6 DEF CtxDone, TerminateCommand
  <1>7. CASE MessageTimerFired
    BY <1>0, <1>7, Closed DEF MessageTimerFired, TerminateCommand
  <1>8. CASE CompleteSeen
    BY <1>0, <1>8 DEF CompleteSeen
  <1>9. CASE MessageSeen
    BY <1>0, <1>9 DEF MessageSeen
  <1>10. CASE ForceKill
    BY <1>0, <1>10, Killed DEF ForceKill
  <1>11. CASE StopTimers
    BY <1>0, <1>11 DEF StopTimers
  <1>12. CASE CloseThenParse
    BY <1>0, <1>12, Closed DEF CloseThenParse
  <1>13. CASE Parsed
    BY <1>0, <1>13, Closed DEF Parsed
  <1>14. CASE StderrDone
    BY <1>0, <1>14 DEF StderrDone
  <1>15. CASE StderrTimeout
    BY <1>0, <1>15 DEF StderrTimeout
  <1>16. CASE Return
    BY <1>0, <1>16, NoMessageTyped DEF Return, Give, Outcome, OutcomeIf, WaitCode, WaitBroken, KilledStatus
  <1>17. CASE ParseEvent
    <2>1. Head(pipe) \in Event /\ pipe' \in Seq(Event)
      BY <1>0, <1>17 DEF ParseEvent
    <2>2. Head(pipe).message \in AllMessages
      BY <2>1 DEF Event
    <2>3. parser' \in Reader
      BY <1>0, <1>17, <2>2 DEF ParseEvent
    <2> QED
      BY <1>0, <1>17, <2>1, <2>3 DEF ParseEvent
  <1>18. CASE ParserEnds
    BY <1>0, <1>18 DEF ParserEnds
  <1>19. CASE ParserSends
    BY <1>0, <1>19 DEF ParserSends
  <1>20. CASE CopierEnds
    BY <1>0, <1>20 DEF CopierEnds
  <1>21. CASE WaitReturns
    <2>1. backend' \in Process
      BY <1>0, <1>21 DEF WaitReturns
    <2>2. backend.status \in ExitCodes \cup {0, KilledStatus}
      BY <1>0 DEF Data
    <2>3. waiter' \in Waiter
      BY <2>2, <1>21 DEF WaitReturns
    <2> QED
      BY <1>0, <1>21, <2>1, <2>3 DEF WaitReturns
  <1>22. CASE MessageTimerFires
    BY <1>0, <1>22 DEF MessageTimerFires
  <1>23. CASE KillTimerFires
    BY <1>0, <1>23 DEF KillTimerFires
  <1>24. CASE KillTimerKills
    BY <1>0, <1>24, Killed DEF KillTimerKills
  <1>25. CASE \E how \in CtxEnds : ContextEnds(how)
    BY <1>0, <1>25, LifecycleAssumption DEF ContextEnds
  <1>26. CASE ExecKills
    <2>1. backend' \in Process
      BY <1>0, <1>26 DEF ExecKills
    <2> QED
      BY <1>0, <1>26, <2>1 DEF ExecKills
  <1>27. CASE BackendWrites
    <2>1. backend' \in Process
      <3>1. backend.todo \in Seq(Event) /\ backend.todo # <<>>
        BY <1>0, <1>27 DEF BackendWrites
      <3>2. Tail(backend.todo) \in Seq(Event)
        BY <3>1
      <3>3. backend' = [backend EXCEPT !.todo = Tail(backend.todo)]
        BY <1>27 DEF BackendWrites
      <3> QED
        BY <1>0, <3>2, <3>3
    <2>2. pipe' \in Seq(Event)
      BY <1>0, <1>27 DEF BackendWrites
    <2> QED
      BY <1>0, <1>27, <2>1, <2>2 DEF BackendWrites
  <1>28. CASE BackendExits
    <2>1. backend' \in Process
      <3> PICK status \in ExitCodes \cup {KilledStatus} :
              backend' = [backend EXCEPT !.state = "exited", !.status = status]
        BY <1>28 DEF BackendExits
      <3> QED
        BY <1>0 DEF Data
    <2> QED
      BY <1>0, <1>28, <2>1 DEF BackendExits
  <1>29. CASE GrandchildExits
    BY <1>0, <1>29 DEF GrandchildExits
  <1>30. CASE UNCHANGED vars
    BY <1>0, <1>30 DEF vars
  <1> QED
    BY <1>1, <1>2, <1>3, <1>4, <1>5, <1>6, <1>7, <1>8, <1>9, <1>10, <1>11, <1>12, <1>13,
       <1>14, <1>15, <1>16, <1>17, <1>18, <1>19, <1>20, <1>21, <1>22, <1>23, <1>24, <1>25,
       <1>26, <1>27, <1>28, <1>29, <1>30, Steps

LEMMA TypeStep ==
    ASSUME TypeOK, [Next]_vars
    PROVE  TypeOK'
  BY TypeParts, TruthsStep, DataStep DEF TypeOK, Truths, Data

\* The script never changes, and only a write shortens what is yet to write.
LEMMA ScriptStep ==
    ASSUME TypeOK, [Next]_vars
    PROVE  /\ backend'.script = backend.script
           /\ backend'.todo = backend.todo \/ BackendWrites
  <1> USE DEF backendVars
  <1>0. backend \in Process
    BY DEF TypeOK
  <1>1. CASE Start
    BY <1>0, <1>1 DEF Start, Process
  <1>2. CASE ForceKill
    BY <1>2, Killed DEF ForceKill
  <1>3. CASE KillTimerKills
    BY <1>3, Killed DEF KillTimerKills
  <1>4. CASE WaitReturns
    BY <1>0, <1>4 DEF WaitReturns, Process
  <1>5. CASE ExecKills
    BY <1>0, <1>5 DEF ExecKills, Process
  <1>6. CASE BackendExits
    <2> PICK status \in ExitCodes \cup {KilledStatus} :
            backend' = [backend EXCEPT !.state = "exited", !.status = status]
      BY <1>6 DEF BackendExits
    <2> QED
      BY <1>0 DEF Process
  <1>7. CASE BackendWrites
    BY <1>0, <1>7 DEF BackendWrites, Process
  <1>8. CASE backend' = backend
    BY <1>8
  <1> QED
    BY <1>1, <1>2, <1>3, <1>4, <1>5, <1>6, <1>7, <1>8, Steps
       DEF PipeFails, CreatePipes, StartFails, WaitDone, CtxDone, MessageTimerFired,
           CompleteSeen, MessageSeen, StopTimers, CloseThenParse, Parsed, StderrDone,
           StderrTimeout, Return, ParseEvent, ParserEnds, ParserSends, CopierEnds,
           MessageTimerFires, KillTimerFires, ContextEnds, GrandchildExits, vars

\* A write appends the next event of the script to what has been written.
LEMMA WriteStep ==
    ASSUME TypeOK, Progress, BackendWrites
    PROVE  /\ backend'.script = backend.script
           /\ Count \in Nat /\ Count' = Count + 1
           /\ Head(backend.todo) = backend.script[Count + 1]
           /\ backend'.todo = Tail(backend.todo)
  <1>1. backend \in Process /\ backend.todo \in Seq(Event) /\ backend.todo # <<>>
    BY DEF TypeOK, Process, BackendWrites
  <1>2. backend.script \in Seq(Event)
    BY <1>1, ScriptsTyped DEF Process
  <1>3. backend' = [backend EXCEPT !.todo = Tail(backend.todo)]
    BY DEF BackendWrites
  <1>4. backend'.script = backend.script /\ backend'.todo = Tail(backend.todo)
    BY <1>1, <1>3 DEF Process
  <1>5. Len(backend.todo) \in Nat \ {0} /\ Len(backend.script) \in Nat
    BY <1>1, <1>2
  <1>6. Len(Tail(backend.todo)) = Len(backend.todo) - 1
    BY <1>1
  <1>7. backend.todo[1] = backend.script[Count + 1]
    BY <1>5 DEF Progress
  <1>8. Head(backend.todo) = backend.todo[1]
    BY <1>1
  <1>9. Count \in Nat
    BY <1>5 DEF Count, Progress
  <1>10. Count' = Len(backend.script) - (Len(backend.todo) - 1)
    BY <1>4, <1>6 DEF Count
  <1>11. Len(backend.script) - (Len(backend.todo) - 1) = Count + 1
    BY <1>5 DEF Count
  <1> QED
    BY <1>4, <1>7, <1>8, <1>9, <1>10, <1>11

\* What has been written stays written.
LEMMA CountStep ==
    ASSUME TypeOK, Progress, [Next]_vars
    PROVE  Count \in Nat /\ Count' \in Nat /\ Count <= Count'
  <1>1. CASE BackendWrites
    BY <1>1, WriteStep
  <1>2. CASE backend'.todo = backend.todo
    <2>1. Len(backend.todo) \in Nat /\ Len(backend.script) \in Nat
      BY ScriptsTyped DEF TypeOK, Process
    <2> QED
      BY <1>2, <2>1, ScriptStep DEF Count, Progress
  <1> QED
    BY <1>1, <1>2, ScriptStep

LEMMA ProgressStep ==
    ASSUME TypeOK, Progress, [Next]_vars
    PROVE  Progress'
  <1>1. Len(backend.todo) \in Nat /\ Len(backend.script) \in Nat /\ backend.todo \in Seq(Event)
    BY ScriptsTyped DEF TypeOK, Process
  <1>2. CASE BackendWrites
    <2>1. backend.todo # <<>>
      BY <1>2 DEF BackendWrites
    <2>2. Len(Tail(backend.todo)) = Len(backend.todo) - 1
      BY <1>1, <2>1
    <2>3. ASSUME NEW i \in 1 .. Len(backend.todo) - 1
          PROVE  Tail(backend.todo)[i] = backend.script[Count + 1 + i]
      <3>1. Tail(backend.todo)[i] = backend.todo[i + 1]
        BY <1>1, <2>1
      <3>2. backend.todo[i + 1] = backend.script[Count + (i + 1)]
        BY <1>1 DEF Progress
      <3>3. Count + (i + 1) = Count + 1 + i
        BY CountStep
      <3> QED
        BY <3>1, <3>2, <3>3
    <2>4. Len(backend'.todo) <= Len(backend'.script)
      <3>1. backend'.script = backend.script /\ Len(backend'.todo) = Len(backend.todo) - 1
        BY <1>2, <2>2, WriteStep
      <3> QED
        BY <1>1, <3>1 DEF Progress
    <2>5. \A i \in 1 .. Len(backend'.todo) : backend'.todo[i] = backend'.script[Count' + i]
      BY <1>2, <2>2, <2>3, WriteStep
    <2> QED
      BY <2>4, <2>5 DEF Progress
  <1>3. CASE backend'.todo = backend.todo
    BY <1>3, ScriptStep DEF Progress, Count
  <1> QED
    BY <1>2, <1>3, ScriptStep

LEMMA HeardStep ==
    ASSUME TypeOK, Progress, Heard, [Next]_vars
    PROVE  Heard'
  <1> DEFINE Said(e, n) == \E k \in 1 .. n : e = backend.script[k]
             Spoken(m, n) == \E k \in 1 .. n : backend.script[k].message = m
  <1>1. Count \in Nat /\ Count' \in Nat /\ Count <= Count'
    BY CountStep
  <1>2. backend'.script = backend.script
    BY ScriptStep
  <1>3. pipe \in Seq(Event)
    BY DEF TypeOK
  <1>4. SUFFICES /\ \A i \in 1 .. Len(pipe') : Said(pipe'[i], Count')
                 /\ parser'.message # NoMessage => Spoken(parser'.message, Count')
    BY <1>2 DEF Heard
  <1>5. \A i \in 1 .. Len(pipe) : Said(pipe[i], Count')
    BY <1>1 DEF Heard
  <1>6. parser.message # NoMessage => Spoken(parser.message, Count')
    BY <1>1 DEF Heard
  <1>7. CASE ParseEvent
    <2>1. pipe # <<>> /\ pipe' = Tail(pipe)
      BY <1>7 DEF ParseEvent
    <2>2. \A i \in 1 .. Len(pipe') : Said(pipe'[i], Count')
      BY <1>3, <1>5, <2>1
    <2>3. parser'.message \in {parser.message, Head(pipe).message}
      BY <1>7 DEF ParseEvent, TypeOK, Reader
    <2>4. Said(Head(pipe), Count')
      BY <1>3, <1>5, <2>1
    <2>5. Spoken(Head(pipe).message, Count')
      BY <2>4
    <2> QED
      BY <1>6, <2>2, <2>3, <2>5
  <1>8. CASE BackendWrites
    <2>1. Said(Head(backend.todo), Count')
      BY <1>1, <1>8, WriteStep
    <2>2. pipe' \in {pipe, Append(pipe, Head(backend.todo))} /\ parser' = parser
      BY <1>8 DEF BackendWrites
    <2>3. \A i \in 1 .. Len(pipe') : Said(pipe'[i], Count')
      BY <1>3, <1>5, <2>1, <2>2
    <2> QED
      BY <1>6, <2>2, <2>3
  <1>9. CASE StartFails \/ MessageTimerFired \/ CloseThenParse \/ Parsed
    <2>1. CloseStdout
      BY <1>9 DEF StartFails, MessageTimerFired, CloseThenParse, Parsed
    <2>2. parser'.message = parser.message
      BY <1>9 DEF StartFails, MessageTimerFired, CloseThenParse, Parsed, TypeOK, Reader
    <2>3. /\ Len(pipe') \in Nat /\ Len(pipe) \in Nat /\ Len(pipe') <= Len(pipe)
          /\ \A i \in 1 .. Len(pipe') : pipe'[i] = pipe[i]
      BY <1>3, <2>1, Closed
    <2>4. \A i \in 1 .. Len(pipe') : Said(pipe'[i], Count')
      BY <1>5, <2>3
    <2> QED
      BY <1>6, <2>2, <2>4
  <1>10. CASE pipe' = pipe /\ parser'.message = parser.message
    BY <1>5, <1>6, <1>10
  <1>11. CASE CreatePipes \/ ParserEnds \/ ParserSends
    BY <1>10, <1>11 DEF CreatePipes, ParserEnds, ParserSends, streamVars, TypeOK, Reader
  <1> QED
    BY <1>7, <1>8, <1>9, <1>10, <1>11, Steps
       DEF PipeFails, Start, WaitDone, CtxDone, CompleteSeen, MessageSeen, ForceKill,
           StopTimers, StderrDone, StderrTimeout, Return, CopierEnds, WaitReturns,
           MessageTimerFires, KillTimerFires, KillTimerKills, ContextEnds, ExecKills,
           BackendExits, GrandchildExits, streamVars, vars

\* A backend that has given cause to stop it has given it for good.
LEMMA CauseStep ==
    ASSUME TypeOK, Progress, Goroutines, Cause, [Next]_vars
    PROVE  Cause'
  <1>1. CASE Completed
    <2>1. Completed'
      BY <1>1, CountStep, ScriptStep DEF Completed
    <2> QED
      BY <2>1 DEF Cause
  <1>2. CASE parser.state \notin {"none", "reading"}
    <2>1. CASE Parsed
      BY <2>1 DEF Parsed, Cause, TypeOK, Reader
    <2>2. CASE ParserEnds
      BY <2>2 DEF ParserEnds, Cause, TypeOK, Reader
    <2>3. CASE ParserSends
      BY <2>3 DEF ParserSends, Cause, TypeOK, Reader
    <2>4. CASE ParseEvent
      BY <1>2, <2>4 DEF ParseEvent
    <2>5. CASE CreatePipes
      BY <1>2, <2>5 DEF CreatePipes, Goroutines
    <2>6. CASE parser' = parser
      BY <1>2, <2>6 DEF Cause
    <2> QED
      BY <1>2, <2>1, <2>2, <2>3, <2>4, <2>5, <2>6, Steps
         DEF PipeFails, StartFails, Start, WaitDone, CtxDone, MessageTimerFired,
             CompleteSeen, MessageSeen, ForceKill, StopTimers, CloseThenParse, StderrDone,
             StderrTimeout, Return, CopierEnds, WaitReturns, MessageTimerFires,
             KillTimerFires, KillTimerKills, ContextEnds, ExecKills, BackendWrites,
             BackendExits, GrandchildExits, vars
  <1> QED
    BY <1>1, <1>2 DEF Cause

\* Only the end of the context and the message timer change a flag that lasts.
LEMMA FlagsStep ==
    ASSUME TypeOK, [Next]_vars
    PROVE  \/ CtxDone \/ MessageTimerFired
           \/ /\ flags'["ctxCancelled"] = flags["ctxCancelled"]
              /\ flags'["forcedAfterComplete"] = flags["forcedAfterComplete"]
              /\ flags'["terminated"] = flags["terminated"]
  <1>1. flags \in [Flags -> BOOLEAN]
    BY DEF TypeOK
  <1>2. CASE Observe
    BY <1>1, <1>2, Zenon DEF Observe, Flags
  <1>3. CASE flags' = flags
    BY <1>3
  <1> QED
    BY <1>2, <1>3, Steps
       DEF PipeFails, CreatePipes, StartFails, Start, WaitDone, CompleteSeen, MessageSeen,
           ForceKill, StopTimers, CloseThenParse, Parsed, StderrDone, StderrTimeout, Return,
           ParseEvent, ParserEnds, ParserSends, CopierEnds, WaitReturns, MessageTimerFires,
           KillTimerFires, KillTimerKills, ContextEnds, ExecKills, BackendWrites,
           BackendExits, GrandchildExits, vars

\* What the two reasons to stop the backend leave in the flags.
LEMMA ReasonStep ==
    ASSUME TypeOK
    PROVE  /\ CtxDone => /\ flags'["ctxCancelled"] /\ flags'["terminated"]
                         /\ flags'["forcedAfterComplete"] = flags["forcedAfterComplete"]
           /\ MessageTimerFired => /\ flags'["forcedAfterComplete"] /\ flags'["terminated"]
                                   /\ flags'["ctxCancelled"] = flags["ctxCancelled"]
  <1>1. flags \in [Flags -> BOOLEAN]
    BY DEF TypeOK
  <1>2. TerminateCommand("ctxCancelled") =>
            /\ flags'["ctxCancelled"] /\ flags'["terminated"]
            /\ flags'["forcedAfterComplete"] = flags["forcedAfterComplete"]
    BY <1>1, Zenon DEF TerminateCommand, Flags
  <1>3. TerminateCommand("forcedAfterComplete") =>
            /\ flags'["forcedAfterComplete"] /\ flags'["terminated"]
            /\ flags'["ctxCancelled"] = flags["ctxCancelled"]
    BY <1>1, Zenon DEF TerminateCommand, Flags
  <1> QED
    BY <1>2, <1>3, Zenon DEF CtxDone, MessageTimerFired

LEMMA GoroutinesStep ==
    ASSUME TypeOK, Goroutines, [Next]_vars
    PROVE  Goroutines'
  <1> USE DEF Goroutines, Ran, AfterWait, backendVars, streamVars, seenVars, timerVars
  <1>0. parser \in Reader /\ waiter \in Waiter /\ backend \in Process
    BY DEF TypeOK
  <1>1. CASE PipeFails
    BY <1>0, <1>1 DEF PipeFails, Give, Reader, Waiter, Process
  <1>2. CASE CreatePipes
    BY <1>0, <1>2 DEF CreatePipes, Reader, Waiter, Process
  <1>3. CASE StartFails
    BY <1>0, <1>3 DEF StartFails, CloseStdout, Give, Reader, Waiter, Process
  <1>4. CASE Start
    BY <1>0, <1>4 DEF Start, Reader, Waiter, Process
  <1>5. CASE WaitDone
    BY <1>0, <1>5 DEF WaitDone, Reader, Waiter, Process
  <1>6. CASE CtxDone
    BY <1>0, <1>6 DEF CtxDone, TerminateCommand, Reader, Waiter, Process
  <1>7. CASE MessageTimerFired
    BY <1>0, <1>7 DEF MessageTimerFired, TerminateCommand, CloseStdout, Reader, Waiter, Process
  <1>8. CASE CompleteSeen
    BY <1>0, <1>8 DEF CompleteSeen, Reader, Waiter, Process
  <1>9. CASE MessageSeen
    BY <1>0, <1>9 DEF MessageSeen, Reader, Waiter, Process
  <1>10. CASE ForceKill
    BY <1>0, <1>10, Killed DEF ForceKill, Reader, Waiter, Process
  <1>11. CASE StopTimers
    BY <1>0, <1>11 DEF StopTimers, Reader, Waiter, Process
  <1>12. CASE CloseThenParse
    BY <1>0, <1>12 DEF CloseThenParse, CloseStdout, Reader, Waiter, Process
  <1>13. CASE Parsed
    BY <1>0, <1>13 DEF Parsed, CloseStdout, Reader, Waiter, Process
  <1>14. CASE StderrDone
    BY <1>0, <1>14 DEF StderrDone, Reader, Waiter, Process
  <1>15. CASE StderrTimeout
    BY <1>0, <1>15 DEF StderrTimeout, Reader, Waiter, Process
  <1>16. CASE Return
    BY <1>0, <1>16 DEF Return, Give, Reader, Waiter, Process
  <1>17. CASE ParseEvent
    BY <1>0, <1>17 DEF ParseEvent, Reader, Waiter, Process
  <1>18. CASE ParserEnds
    BY <1>0, <1>18 DEF ParserEnds, Reader, Waiter, Process
  <1>19. CASE ParserSends
    BY <1>0, <1>19 DEF ParserSends, Reader, Waiter, Process
  <1>20. CASE CopierEnds
    BY <1>0, <1>20 DEF CopierEnds, Reader, Waiter, Process
  <1>21. CASE WaitReturns
    BY <1>0, <1>21 DEF WaitReturns, Reader, Waiter, Process
  <1>22. CASE MessageTimerFires
    BY <1>0, <1>22 DEF MessageTimerFires, Reader, Waiter, Process
  <1>23. CASE KillTimerFires
    BY <1>0, <1>23 DEF KillTimerFires, Reader, Waiter, Process
  <1>24. CASE KillTimerKills
    BY <1>0, <1>24, Killed DEF KillTimerKills, Reader, Waiter, Process
  <1>25. CASE \E how \in CtxEnds : ContextEnds(how)
    BY <1>0, <1>25 DEF ContextEnds, Reader, Waiter, Process
  <1>26. CASE ExecKills
    BY <1>0, <1>26 DEF ExecKills, Reader, Waiter, Process
  <1>27. CASE BackendWrites
    BY <1>0, <1>27 DEF BackendWrites, Reader, Waiter, Process
  <1>28. CASE BackendExits
    BY <1>0, <1>28 DEF BackendExits, Reader, Waiter, Process
  <1>29. CASE GrandchildExits
    BY <1>0, <1>29 DEF GrandchildExits, Reader, Waiter, Process
  <1>30. CASE UNCHANGED vars
    BY <1>0, <1>30 DEF vars, Reader, Waiter, Process
  <1> QED
    BY <1>1, <1>2, <1>3, <1>4, <1>5, <1>6, <1>7, <1>8, <1>9, <1>10, <1>11, <1>12, <1>13, <1>14, <1>15, <1>16, <1>17, <1>18, <1>19, <1>20, <1>21, <1>22, <1>23, <1>24, <1>25, <1>26, <1>27, <1>28, <1>29, <1>30, Steps

\* A cause is there before each stage on the way to a kill is entered.
LEMMA CausesStep ==
    ASSUME TypeOK, Progress, Heard, Causes, Goroutines, [Next]_vars
    PROVE  Causes'
  <1>1. Cause => Cause'
    BY CauseStep
  <1>2. completeSeen' => Cause'
    <2>1. CASE ParseEvent
      <3>1. CASE Head(pipe).complete
        <4>1. pipe \in Seq(Event) /\ pipe # <<>>
          BY <2>1 DEF TypeOK, ParseEvent
        <4>2. PICK k \in 1 .. Count : Head(pipe) = backend.script[k]
          BY <4>1 DEF Heard
        <4>3. Cause
          BY <3>1, <4>2 DEF Cause, Completed
        <4> QED
          BY <4>3, <1>1
      <3>2. CASE ~Head(pipe).complete
        BY <1>1, <2>1, <3>2 DEF ParseEvent, Causes
      <3> QED
        BY <3>1, <3>2
    <2>2. CASE ParserEnds
      BY <2>2 DEF ParserEnds, Cause, TypeOK, Reader
    <2>3. CASE completeSeen' => completeSeen
      BY <1>1, <2>3 DEF Causes
    <2> QED
      BY <2>1, <2>2, <2>3, Steps
         DEF PipeFails, CreatePipes, StartFails, Start, WaitDone, CtxDone, MessageTimerFired,
             CompleteSeen, MessageSeen, ForceKill, StopTimers, CloseThenParse, Parsed,
             StderrDone, StderrTimeout, Return, ParserSends, CopierEnds, WaitReturns,
             MessageTimerFires, KillTimerFires, KillTimerKills, ContextEnds, ExecKills,
             BackendWrites, BackendExits, GrandchildExits, vars, seenVars
  <1>3. messageTimer' # "none" => messageTimer # "none" \/ Cause
    <2>1. CASE CompleteSeen
      BY <2>1 DEF CompleteSeen, Causes
    <2>2. CASE StopTimers
      BY <2>2 DEF StopTimers
    <2>3. CASE MessageTimerFires
      BY <2>3 DEF MessageTimerFires
    <2>4. CASE messageTimer' = messageTimer
      BY <2>4
    <2> QED
      BY <2>1, <2>2, <2>3, <2>4, Steps
         DEF PipeFails, CreatePipes, StartFails, Start, WaitDone, CtxDone, MessageTimerFired,
             MessageSeen, ForceKill, CloseThenParse, Parsed, StderrDone, StderrTimeout,
             Return, ParseEvent, ParserEnds, ParserSends, CopierEnds, WaitReturns,
             KillTimerFires, KillTimerKills, ContextEnds, ExecKills, BackendWrites,
             BackendExits, GrandchildExits, vars, timerVars
  <1>4. flags'["forcedAfterComplete"] => flags["forcedAfterComplete"] \/ messageTimer # "none"
    <2>1. CASE MessageTimerFired
      BY <2>1 DEF MessageTimerFired
    <2> QED
      BY <2>1, FlagsStep, ReasonStep
  <1>5. ctx # "live" => ctx' # "live"
    <2>1. CASE \E how \in CtxEnds : ContextEnds(how)
      BY <2>1 DEF ContextEnds
    <2>2. CASE ctx' = ctx
      BY <2>2
    <2> QED
      BY <2>1, <2>2, Steps
         DEF PipeFails, CreatePipes, StartFails, Start, WaitDone, CtxDone, MessageTimerFired,
             CompleteSeen, MessageSeen, ForceKill, StopTimers, CloseThenParse, Parsed,
             StderrDone, StderrTimeout, Return, ParseEvent, ParserEnds, ParserSends,
             CopierEnds, WaitReturns, MessageTimerFires, KillTimerFires, KillTimerKills,
             ExecKills, BackendWrites, BackendExits, GrandchildExits, vars
  <1>6. flags'["ctxCancelled"] => flags["ctxCancelled"] \/ ctx # "live"
    <2>1. CASE CtxDone
      BY <2>1 DEF CtxDone
    <2> QED
      BY <2>1, FlagsStep, ReasonStep
  <1>7. flags'["terminated"] <=> flags'["ctxCancelled"] \/ flags'["forcedAfterComplete"]
    BY FlagsStep, ReasonStep DEF Causes
  <1>8. flags["terminated"] => flags'["terminated"]
    BY FlagsStep, ReasonStep
  <1>9. killTimer' \in {"armed", "running"} \/ pc' \in {"ctx", "forced"} => flags'["terminated"]
    <2>1. CASE CtxDone \/ MessageTimerFired
      BY <2>1, ReasonStep
    <2>2. CASE killTimer' = killTimer /\ pc' = pc
      BY <2>2, <1>8 DEF Causes
    <2>3. CASE killTimer' \in {"armed", "running"} => killTimer \in {"armed", "running"}
      <3>1. CASE pc' \in {"ctx", "forced"} => pc \in {"ctx", "forced"}
        BY <1>8, <2>3, <3>1 DEF Causes
      <3> QED
        BY <2>1, <2>2, <3>1, Steps
           DEF PipeFails, Give, CreatePipes, StartFails, Start, WaitDone, CompleteSeen,
               MessageSeen, ForceKill, StopTimers, CloseThenParse, Parsed, StderrDone,
               StderrTimeout, Return, ParseEvent, ParserEnds, ParserSends, CopierEnds,
               WaitReturns, MessageTimerFires, KillTimerFires, KillTimerKills, ContextEnds,
               ExecKills, BackendWrites, BackendExits, GrandchildExits, vars
    <2> QED
      BY <2>1, <2>3, Steps
         DEF PipeFails, CreatePipes, StartFails, Start, WaitDone, CompleteSeen,
             MessageSeen, ForceKill, StopTimers, CloseThenParse, Parsed, StderrDone,
             StderrTimeout, Return, ParseEvent, ParserEnds, ParserSends, CopierEnds,
             WaitReturns, MessageTimerFires, KillTimerFires, KillTimerKills, ContextEnds,
             ExecKills, BackendWrites, BackendExits, GrandchildExits, vars, timerVars
  <1>10. killed' => killed \/ ctx # "live" \/ Cause
    <2>1. flags["terminated"] => ctx # "live" \/ Cause
      BY DEF Causes
    <2>2. CASE ForceKill
      BY <2>1, <2>2 DEF ForceKill, Causes
    <2>3. CASE KillTimerKills
      BY <2>1, <2>3 DEF KillTimerKills, Causes
    <2>4. CASE ExecKills
      BY <2>4 DEF ExecKills
    <2>5. CASE killed' = killed
      BY <2>5
    <2> QED
      BY <2>2, <2>3, <2>4, <2>5, Steps
         DEF PipeFails, CreatePipes, StartFails, Start, WaitDone, CtxDone, MessageTimerFired,
             CompleteSeen, MessageSeen, StopTimers, CloseThenParse, Parsed, StderrDone,
             StderrTimeout, Return, ParseEvent, ParserEnds, ParserSends, CopierEnds,
             WaitReturns, MessageTimerFires, KillTimerFires, ContextEnds, BackendWrites,
             BackendExits, GrandchildExits, vars, backendVars
  <1>11. /\ messageTimer' # "none" => Cause'
         /\ flags'["forcedAfterComplete"] => Cause'
         /\ flags'["ctxCancelled"] => ctx' # "live"
         /\ killed' => ctx' # "live" \/ Cause'
    BY <1>1, <1>3, <1>4, <1>5, <1>6, <1>10 DEF Causes
  <1> QED
    BY <1>2, <1>7, <1>9, <1>11 DEF Causes

\* The result is read off the context, Wait's error and the message, all of which
\* are settled by then.
LEMMA VerdictStep ==
    ASSUME TypeOK, Causes, Goroutines, Verdict, [Next]_vars
    PROVE  Verdict'
  <1>1. parser \in Reader /\ waiter \in Waiter /\ ctx \in {"live", "timeout", "cancelled"}
    BY DEF TypeOK
  <1>2. CASE Return
    <2>1. /\ result'.code = Outcome.code /\ result'.message = Outcome.message
          /\ UNCHANGED <<ctx, parser, waiter, flags>>
      BY <1>2 DEF Return, Give
    <2>2. CASE ctx # "live"
      <3>1. Outcome.code \in {124, 130}
        BY <1>1, <2>2 DEF Outcome, OutcomeIf
      <3> QED
        BY <2>1, <2>2, <3>1 DEF Verdict
    <2>3. CASE /\ ctx = "live"
               /\ \/ waiter.err = 0
                  \/ flags["forcedAfterComplete"] /\ parser.message # NoMessage
      <3>1. Outcome.message = parser.message
        BY <2>3 DEF Outcome, OutcomeIf
      <3>2. Outcome.code = IF parser.message = NoMessage THEN 1 ELSE 0
        BY <2>3 DEF Outcome, OutcomeIf
      <3>3. waiter.err = 0 \/ flags["terminated"]
        BY <2>3 DEF Causes
      <3> QED
        BY <2>1, <2>3, <3>1, <3>2, <3>3 DEF Verdict
    <2>4. CASE /\ ctx = "live" /\ waiter.err # 0
               /\ flags["forcedAfterComplete"] => parser.message = NoMessage
      <3>1. Outcome.code = WaitCode
        BY <2>4 DEF Outcome, OutcomeIf
      <3>2. WaitCode # 0
        BY <2>4 DEF WaitCode
      <3>3. parser.message = NoMessage \/ (waiter.err # 0 /\ ~flags["terminated"])
        BY <2>4 DEF Causes
      <3> QED
        BY <2>1, <2>4, <3>1, <3>2, <3>3 DEF Verdict
    <2> QED
      BY <2>2, <2>3, <2>4
  <1>3. CASE PipeFails \/ StartFails
    BY <1>3 DEF PipeFails, StartFails, Goroutines, Verdict, Ran
  <1>4. CASE pc' # "returned"
    BY <1>4 DEF Verdict, Ran
  <1>5. CASE pc = "returned" /\ pc' = pc
    <2>1. UNCHANGED <<ctx, waiter, flags, result>> /\ (Ran => parser' = parser)
      BY <1>5, Steps
         DEF PipeFails, CreatePipes, StartFails, Start, WaitDone, CtxDone, MessageTimerFired,
             CompleteSeen, MessageSeen, ForceKill, StopTimers, CloseThenParse, Parsed,
             StderrDone, StderrTimeout, Return, ParseEvent, ParserEnds, ParserSends,
             CopierEnds, WaitReturns, MessageTimerFires, KillTimerFires, KillTimerKills,
             ContextEnds, ExecKills, BackendWrites, BackendExits, GrandchildExits, vars,
             Goroutines
    <2> QED
      BY <1>5, <2>1 DEF Verdict, Ran
  <1> QED
    BY <1>2, <1>3, <1>4, <1>5, Steps
       DEF CreatePipes, Start, WaitDone, CtxDone, MessageTimerFired, CompleteSeen,
           MessageSeen, ForceKill, StopTimers, CloseThenParse, Parsed, StderrDone,
           StderrTimeout, ParseEvent, ParserEnds, ParserSends, CopierEnds, WaitReturns,
           MessageTimerFires, KillTimerFires, KillTimerKills, ContextEnds, ExecKills,
           BackendWrites, BackendExits, GrandchildExits, vars

\* What the invariants say of one run holds of every state of every behaviour.
THEOREM Invariance == Spec => []IInv
  <1>1. IInv /\ [Next]_vars => IInv'
    BY TypeStep, ProgressStep, HeardStep, CausesStep, GoroutinesStep, VerdictStep DEF IInv
  <1> QED
    BY InitInv, <1>1, PTL DEF Spec

-----------------------------------------------------------------------------
(* The properties of a run *)

\* The variables keep their types, in every state of every run.
THEOREM TypeCorrect == Spec => []TypeOK
  BY Invariance, PTL DEF IInv

\* A run that returns leaves no process, no goroutine, no open read end and no
\* timer behind (runExecutionLifecycle).
THEOREM NothingLeft == Spec => []NothingLeftRunning
  <1>1. IInv => NothingLeftRunning
    <2> SUFFICES ASSUME IInv, Ran PROVE NothingLeftRunning
      BY DEF NothingLeftRunning
    <2>1. waiter.state = "received"
      BY DEF IInv, Goroutines, Ran, TypeOK, Waiter
    <2> QED
      BY <2>1 DEF IInv, Goroutines, NothingLeftRunning
  <1> QED
    BY Invariance, <1>1, PTL

\* A backend is stopped or killed for cause only: the end of the context, the
\* completion it announced, or the end of its stdout (terminateCommand).
THEOREM StoppedForCause == Spec => []StoppedOnlyForCause
  <1>1. IInv => StoppedOnlyForCause
    <2> SUFFICES ASSUME IInv, flags.terminated \/ killed PROVE StoppedOnlyForCause
      BY DEF StoppedOnlyForCause
    <2>1. ctx # "live" \/ Cause
      BY DEF IInv, Causes
    <2>2. ASSUME Completed PROVE \E i \in DOMAIN Written : Written[i].complete
      <3>1. backend.script \in Seq(Event) /\ Count \in 0 .. Len(backend.script)
        BY ScriptsTyped DEF IInv, TypeOK, Process, Progress, Count
      <3>2. Written = SubSeq(backend.script, 1, Count)
        BY DEF Written, Count
      <3>3. PICK k \in 1 .. Count : backend.script[k].complete
        BY <2>2 DEF Completed
      <3>4. k \in DOMAIN Written /\ Written[k] = backend.script[k]
        BY <3>1, <3>2
      <3> QED
        BY <3>3, <3>4
    <2> QED
      BY <2>1, <2>2 DEF StoppedOnlyForCause, Cause
  <1> QED
    BY Invariance, <1>1, PTL

\* A run that reports success reports a message its backend has written, under a
\* context that is alive, after an exit with status 0 or a stop of its own.
THEOREM GenuineSuccess == Spec => []SuccessIsGenuine
  <1>1. IInv => SuccessIsGenuine
    <2> SUFFICES ASSUME IInv, Ran, result.code = 0 PROVE SuccessIsGenuine
      BY DEF SuccessIsGenuine
    <2>1. /\ ctx = "live" /\ result.message = parser.message /\ parser.message # NoMessage
          /\ waiter.err = 0 \/ flags.terminated
      BY DEF IInv, Verdict
    <2>2. PICK k \in 1 .. Count : backend.script[k].message = parser.message
      BY <2>1 DEF IInv, Heard
    <2>3. backend.script \in Seq(Event) /\ Count \in 0 .. Len(backend.script)
      BY ScriptsTyped DEF IInv, TypeOK, Process, Progress, Count
    <2>4. Written = SubSeq(backend.script, 1, Count)
      BY DEF Written, Count
    <2>5. k \in DOMAIN Written /\ Written[k] = backend.script[k]
      BY <2>3, <2>4
    <2>6. parser.message \in MessagesOf(Written)
      BY <2>2, <2>5 DEF MessagesOf
    <2> QED
      BY <2>1, <2>6 DEF SuccessIsGenuine
  <1> QED
    BY Invariance, <1>1, PTL

\* While the context lives a run fails only for want of a message, or because the
\* backend ended badly before it was told to stop.
THEOREM CauseOfFailure == Spec => []FailureHasCause
  <1>1. IInv => FailureHasCause
    BY DEF IInv, Verdict, FailureHasCause
  <1> QED
    BY Invariance, <1>1, PTL

-----------------------------------------------------------------------------
(* The run as its caller sees it *)

Phase == CASE pc = "returned"           -> "returned"
           [] pc \in {"pipes", "start"} -> "open"
           [] OTHER -> IF backend.state = "reaped" THEN "ended" ELSE "backend"

\* The state of TaskRun that a state of the run stands for.
Abstract == [phase |-> Phase, ctx |-> ctx, code |-> result.code]

\* A run begins as a task just called.
LEMMA TaskInit == Init => Task!Init
  <1> SUFFICES ASSUME Init PROVE Task!Init
    OBVIOUS
  <1>1. pc = "pipes" /\ ctx = "live" /\ result = NoResult
    BY DEF Init
  <1> QED
    BY <1>1 DEF Task!Init, Task!Called, NoResult

\* A step that changes the phase is one of TaskRun's, and so is the context's end.
LEMMA TaskStep == IInv /\ [Next]_vars => [Task!Next]_Abstract
  <1> SUFFICES ASSUME IInv, [Next]_vars PROVE Task!Next \/ Abstract' = Abstract
    OBVIOUS
  <1> DEFINE Same == Phase' = Phase /\ ctx' = ctx /\ result' = result
  <1>0. /\ backend \in Process /\ waiter \in Waiter /\ Goroutines
        /\ ctx \in {"live", "timeout", "cancelled"}
    BY DEF IInv, TypeOK
  <1>1. CASE Same
    BY <1>1 DEF Abstract
  <1>2. ASSUME Abstract' \in Task!Steps(Abstract)
        PROVE  Task!Next
    BY <1>2 DEF Task!Next, Abstract, Phase
  <1>3. CASE PipeFails \/ StartFails
    <2>1. /\ Phase = "open" /\ Phase' = "returned" /\ ctx' = ctx
          /\ result'.code \in {1, 127}
      BY <1>3 DEF PipeFails, StartFails, Give, Phase
    <2>2. result'.code \in Task!Codes(Abstract)
      BY <2>1 DEF Task!Codes, Abstract
    <2>3. Abstract' = [phase |-> "returned", ctx |-> Abstract.ctx, code |-> result'.code]
      BY <2>1 DEF Abstract
    <2>4. Abstract' \in Task!Returns(Abstract)
      BY <2>2, <2>3 DEF Task!Returns
    <2> QED
      BY <1>2, <2>4 DEF Task!Steps
  <1>4. CASE Start
    <2>1. /\ Phase = "open" /\ Phase' = "backend" /\ ctx = "live" /\ ctx' = ctx
          /\ result' = result
      BY <1>0, <1>4 DEF Start, Phase, Process
    <2>2. Abstract' \in Task!BackendStarts(Abstract)
      BY <2>1 DEF Abstract, Task!BackendStarts
    <2> QED
      BY <1>2, <2>2 DEF Task!Steps
  <1>5. CASE WaitReturns
    <2>1. /\ Phase = "backend" /\ Phase' = "ended" /\ ctx' = ctx /\ result' = result
      BY <1>0, <1>5 DEF WaitReturns, Phase, Process, Goroutines
    <2>2. Abstract' \in Task!BackendEnds(Abstract)
      BY <2>1 DEF Abstract, Task!BackendEnds
    <2> QED
      BY <1>2, <2>2 DEF Task!Steps
  <1>6. CASE Return
    <2>1. Phase = "ended" /\ Phase' = "returned" /\ ctx' = ctx /\ result'.code = Outcome.code
      BY <1>0, <1>6 DEF Return, Give, Phase, Process, Goroutines, AfterWait
    <2>2. Outcome.code \in Task!Codes(Abstract)
      BY <1>0, <2>1 DEF Outcome, OutcomeIf, WaitCode, Waiter, Task!Codes, Abstract
    <2>3. Abstract' = [phase |-> "returned", ctx |-> Abstract.ctx, code |-> result'.code]
      BY <2>1 DEF Abstract
    <2>4. Abstract' \in Task!Returns(Abstract)
      BY <2>1, <2>2, <2>3 DEF Task!Returns
    <2> QED
      BY <1>2, <2>4 DEF Task!Steps
  <1>7. CASE \E how \in CtxEnds : ContextEnds(how)
    <2>1. PICK how \in CtxEnds : ContextEnds(how)
      BY <1>7
    <2>2. /\ Phase' = Phase /\ Phase \in {"open", "backend", "ended"} /\ ctx = "live"
          /\ ctx' = how /\ result' = result
      BY <2>1 DEF ContextEnds, Phase, backendVars
    <2>3. Abstract' \in Task!ContextEnds(Abstract, how)
      BY <2>2 DEF Abstract, Task!ContextEnds, Task!Listens
    <2> QED
      BY <1>2, <2>3 DEF Task!Steps
  <1>8. CASE ForceKill \/ KillTimerKills
    <2>1. backend'.state = "reaped" <=> backend.state = "reaped"
      BY <1>0, <1>8, Killed DEF ForceKill, KillTimerKills, IInv
    <2> QED
      BY <1>1, <1>8, <2>1 DEF ForceKill, KillTimerKills, Phase
  <1>9. CASE ExecKills \/ BackendWrites \/ BackendExits
    <2>1. backend'.state = "reaped" <=> backend.state = "reaped"
      BY <1>0, <1>9 DEF ExecKills, BackendWrites, BackendExits, Process
    <2> QED
      BY <1>1, <1>9, <2>1 DEF ExecKills, BackendWrites, BackendExits, Phase
  <1>10. CASE backend' = backend /\ ctx' = ctx /\ result' = result /\ pc' = pc
    BY <1>1, <1>10 DEF Phase
  <1>11. CASE CreatePipes \/ WaitDone \/ CtxDone \/ MessageTimerFired \/ StopTimers
              \/ CloseThenParse \/ Parsed \/ StderrDone \/ StderrTimeout
    BY <1>1, <1>11
       DEF CreatePipes, WaitDone, CtxDone, MessageTimerFired, StopTimers, CloseThenParse,
           Parsed, StderrDone, StderrTimeout, Phase, backendVars
  <1> QED
    BY <1>3, <1>4, <1>5, <1>6, <1>7, <1>8, <1>9, <1>10, <1>11, Steps
       DEF CompleteSeen, MessageSeen, ParseEvent, ParserEnds, ParserSends, CopierEnds,
           MessageTimerFires, KillTimerFires, GrandchildExits, vars, backendVars

\* A run is the run of a task as TaskRun, and through it ParallelRun, has it.
THEOREM Refinement == Spec => ImplementsTaskRun
  <1>1. Task!Init /\ [][Task!Next]_Abstract => Task!Spec
    BY DEF Task!Spec, Abstract, Phase
  <1> QED
    BY TaskInit, TaskStep, Invariance, <1>1, PTL DEF Spec, ImplementsTaskRun
=============================================================================
