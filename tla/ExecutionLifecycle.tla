------------------------- MODULE ExecutionLifecycle -------------------------
(***************************************************************************)
(* One backend process from its start to its result: the goroutines of      *)
(* runExecutionLifecycle (execution_lifecycle.go), the two timers that end  *)
(* a lingering backend, the context that bounds it, os/exec's own watch on   *)
(* that context, and the backend with a grandchild that may hold its pipes. *)
(*                                                                          *)
(* Time is abstract: a timer that is armed may fire at any later moment.    *)
(* A backend owes nothing: it writes its script or stops half way, ignores  *)
(* SIGTERM or obeys it, and exits with any status or never.                 *)
(***************************************************************************)
EXTENDS Integers, Sequences, SequencesExt

CONSTANTS
    Scripts,     \* what a backend may write on stdout: sequences of events
    ExitCodes,   \* the statuses a backend may exit with on its own
    CtxEnds,     \* how the context may end: a subset of {"timeout", "cancelled"}
    NoMessage    \* the empty message

KilledStatus == -1   \* ExitError.ExitCode() of a process ended by a signal
WaitBroken   == -2   \* Wait failed with an error that is no ExitError

MessagesOf(script) == { script[i].message : i \in DOMAIN script }
AllMessages == (UNION { MessagesOf(s) : s \in Scripts }) \cup {NoMessage}
Event == [message : AllMessages, complete : BOOLEAN]

ASSUME LifecycleAssumption ==
    /\ ExitCodes \subseteq Nat
    /\ CtxEnds \subseteq {"timeout", "cancelled"}
    /\ Scripts \subseteq Seq(Event)

VARIABLES
    ctx,          \* the context with its timeout and its signals
    backend,      \* the process: its state and status, its script, what is yet to write
    holder,       \* a grandchild is alive and holds the pipes' write ends
    killed,       \* the backend itself died of a SIGKILL
    pipe,         \* stdout: written and not yet parsed
    stdoutOpen, stderrOpen,         \* the read ends
    parser,       \* the parser goroutine and the last message it has seen
    messageSeen, completeSeen,      \* channels of capacity one
    copier,       \* the stderr goroutine
    waiter,       \* the goroutine that calls Wait; "sent": waitCh holds its error
    messageTimer, killTimer,
    pc,           \* the main goroutine
    flags,        \* its local variables
    result

vars == <<ctx, backend, holder, killed, pipe, stdoutOpen, stderrOpen, parser,
          messageSeen, completeSeen, copier, waiter, messageTimer, killTimer,
          pc, flags, result>>

backendVars == <<backend, holder, killed>>
streamVars  == <<pipe, stdoutOpen, stderrOpen>>
seenVars    == <<messageSeen, completeSeen>>
timerVars   == <<messageTimer, killTimer>>

NoResult == [code |-> -3, message |-> NoMessage]

Flags == {"ctxCancelled", "forcedAfterComplete", "terminated", "observed"}

Process == [state : {"none", "running", "exited", "reaped"}, script : Scripts,
            todo : Seq(Event), status : ExitCodes \cup {0, KilledStatus}]
Reader  == [state : {"none", "reading", "ended", "sent", "received"}, message : AllMessages]
Waiter  == [state : {"none", "waiting", "sent", "received"},
            err : ExitCodes \cup {0, KilledStatus, WaitBroken}]
Outcomes == [code : ExitCodes \cup {NoResult.code, KilledStatus, 0, 1, 124, 127, 130},
             message : AllMessages]

TypeOK ==
    /\ ctx \in {"live", "timeout", "cancelled"}
    /\ backend \in Process
    /\ holder \in BOOLEAN /\ killed \in BOOLEAN
    /\ pipe \in Seq(Event)
    /\ stdoutOpen \in BOOLEAN /\ stderrOpen \in BOOLEAN
    /\ parser \in Reader
    /\ messageSeen \in BOOLEAN /\ completeSeen \in BOOLEAN
    /\ copier \in {"none", "copying", "sent", "received"}
    /\ waiter \in Waiter
    /\ messageTimer \in {"none", "armed", "fired", "stopped"}
    /\ killTimer \in {"none", "armed", "running", "done", "stopped"}
    /\ pc \in {"pipes", "start", "wait", "ctx", "forced", "timers", "collect",
               "parse", "stderr", "stderrClosed", "result", "returned"}
    /\ flags \in [Flags -> BOOLEAN]
    /\ result \in Outcomes

Init ==
    /\ ctx = "live"
    /\ \E script \in Scripts :
           backend = [state |-> "none", script |-> script, todo |-> script, status |-> 0]
    /\ holder = FALSE
    /\ killed = FALSE
    /\ pipe = <<>>
    /\ stdoutOpen = FALSE
    /\ stderrOpen = FALSE
    /\ parser = [state |-> "none", message |-> NoMessage]
    /\ messageSeen = FALSE
    /\ completeSeen = FALSE
    /\ copier = "none"
    /\ waiter = [state |-> "none", err |-> 0]
    /\ messageTimer = "none"
    /\ killTimer = "none"
    /\ pc = "pipes"
    /\ flags = [f \in Flags |-> FALSE]
    /\ result = NoResult

-----------------------------------------------------------------------------
(* Helpers *)

Observe == flags' = [flags EXCEPT !["observed"] = TRUE]

\* No context ended and nothing was observed: the run drains stdout.
Drains == ~flags.ctxCancelled /\ ~flags.observed

Give(code, message) ==
    /\ result' = [code |-> code, message |-> message]
    /\ pc' = "returned"

\* Closing a read end drops what is unread, except what the parser's bufio
\* reader has already taken in: any prefix of it.
CloseStdout ==
    /\ stdoutOpen' = FALSE
    /\ IF stdoutOpen
       THEN \E n \in 0 .. Len(pipe) : pipe' = SubSeq(pipe, 1, n)
       ELSE UNCHANGED pipe

\* SIGKILL to the process group (sendKillSignal). A grandchild that has left the
\* group survives it.
KillGroup ==
    /\ holder' \in {holder, FALSE}
    /\ killed' = (killed \/ backend.state = "running")
    /\ backend' = IF backend.state = "running"
                  THEN [backend EXCEPT !.state = "exited", !.status = KilledStatus]
                  ELSE backend

\* terminateCommand: SIGTERM to the process group and the timer that follows it
\* up. The signal obliges nobody: the backend may exit at any time anyway.
TerminateCommand(reason) ==
    /\ flags' = [flags EXCEPT !["terminated"] = TRUE, ![reason] = TRUE]
    /\ killTimer' = "armed"

WriteEndClosed == backend.state # "running" /\ ~holder

-----------------------------------------------------------------------------
(* The main goroutine *)

\* One of the pipes cannot be created: the run ends before anything is started.
PipeFails ==
    /\ pc = "pipes"
    /\ Give(1, NoMessage)
    /\ UNCHANGED <<ctx, backendVars, streamVars, parser, seenVars, copier, waiter,
                   timerVars, flags>>

CreatePipes ==
    /\ pc = "pipes"
    /\ stdoutOpen' = TRUE
    /\ stderrOpen' = TRUE
    /\ parser' = [parser EXCEPT !.state = "reading"]
    /\ pc' = "start"
    /\ UNCHANGED <<ctx, backendVars, pipe, seenVars, copier, waiter, timerVars, flags, result>>

\* Not found is 127, anything else is 1: a context that has already ended too.
StartFails ==
    /\ pc = "start"
    /\ CloseStdout
    /\ stderrOpen' = FALSE
    /\ \E code \in {1, 127} : Give(code, NoMessage)
    /\ UNCHANGED <<ctx, backendVars, parser, seenVars, copier, waiter, timerVars, flags>>

Start ==
    /\ pc = "start"
    /\ ctx = "live"
    /\ backend' = [backend EXCEPT !.state = "running"]
    /\ holder' \in BOOLEAN
    /\ copier' = "copying"
    /\ waiter' = [waiter EXCEPT !.state = "waiting"]
    /\ pc' = "wait"
    /\ UNCHANGED <<ctx, killed, streamVars, parser, seenVars, timerVars, flags, result>>

\* case err := <-waitCh, in the wait loop and in both inner loops
WaitDone ==
    /\ pc \in {"wait", "ctx", "forced"}
    /\ waiter.state = "sent"
    /\ waiter' = [waiter EXCEPT !.state = "received"]
    /\ pc' = "timers"
    /\ UNCHANGED <<ctx, backendVars, streamVars, parser, seenVars, copier, timerVars,
                   flags, result>>

CtxDone ==
    /\ pc = "wait"
    /\ ctx # "live"
    /\ TerminateCommand("ctxCancelled")
    /\ pc' = "ctx"
    /\ UNCHANGED <<ctx, backendVars, streamVars, parser, seenVars, copier, waiter,
                   messageTimer, result>>

MessageTimerFired ==
    /\ pc = "wait"
    /\ messageTimer = "fired"
    /\ TerminateCommand("forcedAfterComplete")
    /\ CloseStdout
    /\ stderrOpen' = FALSE
    /\ pc' = "forced"
    /\ UNCHANGED <<ctx, backendVars, parser, seenVars, copier, waiter, messageTimer, result>>

\* Mutant: the completion is noted and no timer is armed.
CompleteSeenNoTimer ==
    /\ pc = "wait"
    /\ completeSeen
    /\ completeSeen' = FALSE
    /\ Observe
    /\ UNCHANGED <<ctx, backendVars, streamVars, parser, messageSeen, copier, waiter,
                   timerVars, pc, result>>

CompleteSeen ==
    /\ pc = "wait"
    /\ completeSeen
    /\ completeSeen' = FALSE
    /\ Observe
    /\ messageTimer' = IF messageTimer = "none" THEN "armed" ELSE messageTimer
    /\ UNCHANGED <<ctx, backendVars, streamVars, parser, messageSeen, copier, waiter,
                   killTimer, pc, result>>

\* Mutant: any message arms the timer.
MessageSeenArms ==
    /\ pc = "wait"
    /\ messageSeen
    /\ messageSeen' = FALSE
    /\ Observe
    /\ messageTimer' = IF messageTimer = "none" THEN "armed" ELSE messageTimer
    /\ UNCHANGED <<ctx, backendVars, streamVars, parser, completeSeen, copier, waiter,
                   killTimer, pc, result>>

MessageSeen ==
    /\ pc = "wait"
    /\ messageSeen
    /\ messageSeen' = FALSE
    /\ Observe
    /\ UNCHANGED <<ctx, backendVars, streamVars, parser, completeSeen, copier, waiter,
                   timerVars, pc, result>>

\* time.After(forceKillWaitTimeout) in the inner loops
ForceKill ==
    /\ pc \in {"ctx", "forced"}
    /\ KillGroup
    /\ UNCHANGED <<ctx, streamVars, parser, seenVars, copier, waiter, timerVars, pc,
                   flags, result>>

\* Mutant: forceKillTimer.Stop does not wait for a callback under way.
StopTimersNoDrain ==
    /\ pc = "timers"
    /\ messageTimer' = IF messageTimer = "none" THEN "none" ELSE "stopped"
    /\ killTimer' = IF killTimer = "armed" THEN "stopped" ELSE killTimer
    /\ pc' = "collect"
    /\ UNCHANGED <<ctx, backendVars, streamVars, parser, seenVars, copier, waiter,
                   flags, result>>

\* Both timers are stopped; forceKillTimer.Stop waits for a callback under way.
StopTimers ==
    /\ pc = "timers"
    /\ killTimer # "running"
    /\ messageTimer' = IF messageTimer = "none" THEN "none" ELSE "stopped"
    /\ killTimer' = IF killTimer = "armed" THEN "stopped" ELSE killTimer
    /\ pc' = "collect"
    /\ UNCHANGED <<ctx, backendVars, streamVars, parser, seenVars, copier, waiter,
                   flags, result>>

\* The cases that close stdout at once and then wait for the parser: a context
\* that ended, a message or a completion seen earlier or now, the drain timer.
CloseThenParse ==
    /\ pc = "collect"
    /\ \/ /\ ~Drains
          /\ UNCHANGED <<seenVars, flags>>
       \/ /\ Drains /\ messageSeen
          /\ messageSeen' = FALSE
          /\ Observe
          /\ UNCHANGED completeSeen
       \/ /\ Drains /\ completeSeen
          /\ completeSeen' = FALSE
          /\ Observe
          /\ UNCHANGED messageSeen
       \/ /\ Drains                        \* drainTimer.C
          /\ UNCHANGED <<seenVars, flags>>
    /\ CloseStdout
    /\ pc' = "parse"
    /\ UNCHANGED <<ctx, backendVars, stderrOpen, parser, copier, waiter, timerVars, result>>

\* parsed = <-parseCh: in the drain select it comes before stdout is closed.
Parsed ==
    /\ \/ pc = "parse"
       \/ pc = "collect" /\ Drains
    /\ parser.state = "sent"
    /\ parser' = [parser EXCEPT !.state = "received"]
    /\ CloseStdout
    /\ pc' = "stderr"
    /\ UNCHANGED <<ctx, backendVars, stderrOpen, seenVars, copier, waiter, timerVars,
                   flags, result>>

StderrDone ==
    /\ pc \in {"stderr", "stderrClosed"}
    /\ copier = "sent"
    /\ copier' = "received"
    /\ stderrOpen' = FALSE
    /\ pc' = "result"
    /\ UNCHANGED <<ctx, backendVars, pipe, stdoutOpen, parser, seenVars, waiter, timerVars,
                   flags, result>>

\* Mutant: the timeout gives up on stderr and does not close it.
StderrLeftOpen ==
    /\ pc = "stderr"
    /\ pc' = "stderrClosed"
    /\ UNCHANGED <<ctx, backendVars, streamVars, parser, seenVars, copier, waiter,
                   timerVars, flags, result>>

StderrTimeout ==
    /\ pc = "stderr"
    /\ stderrOpen' = FALSE
    /\ pc' = "stderrClosed"
    /\ UNCHANGED <<ctx, backendVars, pipe, stdoutOpen, parser, seenVars, copier, waiter,
                   timerVars, flags, result>>

WaitCode == IF waiter.err = WaitBroken THEN 1 ELSE waiter.err

\* The context is asked first, then Wait's error, then the message.
OutcomeIf(excused) ==
    LET message == parser.message
    IN  CASE ctx = "timeout"             -> [code |-> 124, message |-> NoMessage]
          [] ctx = "cancelled"           -> [code |-> 130, message |-> NoMessage]
          [] ctx = "live" /\ ~excused    -> [code |-> WaitCode, message |-> message]
          [] ctx = "live" /\ excused     ->
                 [code |-> IF message = NoMessage THEN 1 ELSE 0, message |-> message]

\* Mutants: a message makes up for any failure; a stopped backend counts as failed.
OutcomeOfMessage == OutcomeIf(parser.message # NoMessage)
OutcomeOfStatus == OutcomeIf(waiter.err = 0)

\* Mutant: Wait's error is asked before the context.
OutcomeOfWait ==
    IF waiter.err # 0 THEN [code |-> WaitCode, message |-> parser.message] ELSE OutcomeIf(TRUE)

Outcome ==
    OutcomeIf(\/ waiter.err = 0
              \/ flags.forcedAfterComplete /\ parser.message # NoMessage)

Return ==
    /\ pc = "result"
    /\ Give(Outcome.code, Outcome.message)
    /\ UNCHANGED <<ctx, backendVars, streamVars, parser, seenVars, copier, waiter,
                   timerVars, flags>>

Main ==
    \/ PipeFails \/ CreatePipes \/ StartFails \/ Start
    \/ WaitDone \/ CtxDone \/ MessageTimerFired \/ CompleteSeen \/ MessageSeen \/ ForceKill
    \/ StopTimers \/ CloseThenParse \/ Parsed \/ StderrDone \/ StderrTimeout \/ Return

-----------------------------------------------------------------------------
(* The other goroutines and the timers *)

\* One line of stdout: a message, a completion, or both (a Claude result).
ParseEvent ==
    /\ parser.state = "reading"
    /\ pipe # <<>>
    /\ pipe' = Tail(pipe)
    /\ LET event == Head(pipe) IN
        /\ parser' = IF event.message = NoMessage THEN parser
                     ELSE [parser EXCEPT !.message = event.message]
        /\ messageSeen' = (messageSeen \/ event.message # NoMessage)
        /\ completeSeen' = (completeSeen \/ event.complete)
    /\ UNCHANGED <<ctx, backendVars, stdoutOpen, stderrOpen, copier, waiter, timerVars, pc,
                   flags, result>>

\* End of file, or an error on the closed read end: completion is signalled too.
ParserEnds ==
    /\ parser.state = "reading"
    /\ pipe = <<>>
    /\ ~stdoutOpen \/ (pc # "start" /\ WriteEndClosed)
    /\ parser' = [parser EXCEPT !.state = "ended"]
    /\ completeSeen' = TRUE
    /\ UNCHANGED <<ctx, backendVars, streamVars, messageSeen, copier, waiter, timerVars, pc,
                   flags, result>>

ParserSends ==
    /\ parser.state = "ended"
    /\ parser' = [parser EXCEPT !.state = "sent"]
    /\ UNCHANGED <<ctx, backendVars, streamVars, seenVars, copier, waiter, timerVars, pc,
                   flags, result>>

Parser == ParseEvent \/ ParserEnds \/ ParserSends

CopierEnds ==
    /\ copier = "copying"
    /\ ~stderrOpen \/ WriteEndClosed
    /\ copier' = "sent"
    /\ UNCHANGED <<ctx, backendVars, streamVars, parser, seenVars, waiter, timerVars, pc,
                   flags, result>>

\* Wait reaps the process; it may fail with an error of its own.
WaitReturns ==
    /\ waiter.state = "waiting"
    /\ backend.state = "exited"
    /\ backend' = [backend EXCEPT !.state = "reaped"]
    /\ \E err \in {backend.status, WaitBroken} : waiter' = [state |-> "sent", err |-> err]
    /\ UNCHANGED <<ctx, holder, killed, streamVars, parser, seenVars, copier, timerVars, pc,
                   flags, result>>

\* postMessageTerminateDelay is over.
MessageTimerFires ==
    /\ messageTimer = "armed"
    /\ messageTimer' = "fired"
    /\ UNCHANGED <<ctx, backendVars, streamVars, parser, seenVars, copier, waiter, killTimer,
                   pc, flags, result>>

\* forceKillDelay is over: the callback starts, kills the group, and is done.
KillTimerFires ==
    /\ killTimer = "armed"
    /\ killTimer' = "running"
    /\ UNCHANGED <<ctx, backendVars, streamVars, parser, seenVars, copier, waiter,
                   messageTimer, pc, flags, result>>

KillTimerKills ==
    /\ killTimer = "running"
    /\ KillGroup
    /\ killTimer' = "done"
    /\ UNCHANGED <<ctx, streamVars, parser, seenVars, copier, waiter, messageTimer, pc,
                   flags, result>>

KillTimer == KillTimerFires \/ KillTimerKills

-----------------------------------------------------------------------------
(* The context, os/exec and the backend *)

ContextEnds(how) ==
    /\ ctx = "live"
    /\ pc # "returned"
    /\ ctx' = how
    /\ UNCHANGED <<backendVars, streamVars, parser, seenVars, copier, waiter, timerVars, pc,
                   flags, result>>

\* The command is an exec.CommandContext with no Cancel of its own: when the
\* context ends before Wait has returned, os/exec kills the process (not its
\* group) at once.
ExecKills ==
    /\ ctx # "live"
    /\ backend.state = "running"
    /\ backend' = [backend EXCEPT !.state = "exited", !.status = KilledStatus]
    /\ killed' = TRUE
    /\ UNCHANGED <<ctx, holder, streamVars, parser, seenVars, copier, waiter, timerVars, pc,
                   flags, result>>

\* A line written to a closed pipe is lost.
BackendWrites ==
    /\ backend.state = "running"
    /\ backend.todo # <<>>
    /\ backend' = [backend EXCEPT !.todo = Tail(@)]
    /\ pipe' = IF stdoutOpen THEN Append(pipe, Head(backend.todo)) ELSE pipe
    /\ UNCHANGED <<ctx, holder, killed, stdoutOpen, stderrOpen, parser, seenVars, copier,
                   waiter, timerVars, pc, flags, result>>

BackendExits ==
    /\ backend.state = "running"
    /\ \E status \in ExitCodes \cup {KilledStatus} :
           backend' = [backend EXCEPT !.state = "exited", !.status = status]
    /\ UNCHANGED <<ctx, holder, killed, streamVars, parser, seenVars, copier, waiter,
                   timerVars, pc, flags, result>>

GrandchildExits ==
    /\ holder
    /\ holder' = FALSE
    /\ UNCHANGED <<ctx, backend, killed, streamVars, parser, seenVars, copier, waiter,
                   timerVars, pc, flags, result>>

Environment ==
    \/ \E how \in CtxEnds : ContextEnds(how)
    \/ ExecKills \/ BackendWrites \/ BackendExits \/ GrandchildExits

Terminated ==
    /\ pc = "returned"
    /\ parser.state \in {"none", "sent", "received"}
    /\ UNCHANGED vars

Next ==
    \/ Main \/ Parser \/ CopierEnds \/ WaitReturns
    \/ MessageTimerFires \/ KillTimer
    \/ Environment
    \/ Terminated

Spec == Init /\ [][Next]_vars

\* Every goroutine runs and every timer that is armed fires. Nothing is asked of
\* the backend, its child or the context, which may never end.
FairSpec ==
    /\ Spec
    /\ WF_vars(Main) /\ WF_vars(Parser) /\ WF_vars(CopierEnds) /\ WF_vars(WaitReturns)
    /\ WF_vars(MessageTimerFires) /\ WF_vars(KillTimer)

-----------------------------------------------------------------------------
(* Properties *)

Written == SubSeq(backend.script, 1, Len(backend.script) - Len(backend.todo))

\* The process was started and its run went through to a result.
Ran == pc = "returned" /\ waiter.state # "none"

\* A run that returns leaves nothing behind: the process is reaped, its parser,
\* stderr and wait goroutines have handed over their last value, both read ends
\* are closed, and no kill callback is armed or under way that could hit a
\* process group of a later backend (runExecutionLifecycle, forceKillTimer.Stop).
NothingLeftRunning ==
    Ran => /\ backend.state = "reaped"
           /\ {parser.state, copier, waiter.state} = {"received"}
           /\ ~stdoutOpen /\ ~stderrOpen
           /\ killTimer \notin {"armed", "running"}
           /\ messageTimer \notin {"armed", "fired"}

\* A backend is told to stop, or killed, only when the context has ended, or when
\* it has announced that its turn is complete or has closed its stdout; a message
\* alone, which may be an intermediate one, never stops it.
StoppedOnlyForCause ==
    flags.terminated \/ killed =>
        \/ ctx # "live"
        \/ \E i \in DOMAIN Written : Written[i].complete
        \/ parser.state # "reading"

\* Success is genuine: the message reported is one the backend wrote, and the
\* backend either exited with status 0 or was stopped by the dispatcher.
SuccessIsGenuine ==
    Ran /\ result.code = 0 =>
        /\ result.message \in MessagesOf(Written) \ {NoMessage}
        /\ waiter.err = 0 \/ flags.terminated
        /\ ctx = "live"

\* Stopping a backend that lingers after its output is no failure: while the
\* context lives, a run fails only when no message was parsed or when the backend
\* ended badly before the dispatcher told it to stop.
FailureHasCause ==
    Ran /\ result.code # 0 =>
        \/ ctx # "live"
        \/ parser.message = NoMessage
        \/ waiter.err # 0 /\ ~flags.terminated

\* The run has returned and every goroutine it started is over.
Quiet ==
    /\ pc = "returned"
    /\ parser.state \in {"none", "sent", "received"}
    /\ copier \in {"none", "received"}
    /\ waiter.state \in {"none", "received"}

\* The end of the context ends the run, whatever the backend and its child do: a
\* backend that ignores SIGTERM is killed, the pipes a grandchild holds are
\* closed. A run that has returned leaves no goroutine behind for long.
ContextEndsRun == (ctx # "live" \/ pc = "returned") ~> Quiet

\* A backend that stays alive after announcing completion, or after closing its
\* stdout, does not hold the run until the timeout: once the completion is
\* signalled the run ends, even if the context never does (messageTimer and the
\* kills that follow it).
CompletionEndsRun == completeSeen ~> Quiet

\* Of all this a caller sees the run of a task as TaskRun has it: the backend starts
\* under a live context only, has been reaped at the return, and a context that ended
\* decides the code once there is a backend, however the backend itself ended.
Task == INSTANCE TaskRun WITH
            state <- [phase |-> CASE pc = "returned"         -> "returned"
                                  [] pc \in {"pipes", "start"} -> "open"
                                  [] OTHER -> IF backend.state = "reaped" THEN "ended" ELSE "backend",
                      ctx |-> ctx, code |-> result.code],
            OwnCodes <- ExitCodes \cup {0, 1, KilledStatus}, FailCodes <- {1, 127},
            NoCode <- NoResult.code

ImplementsTaskRun == Task!Spec

-----------------------------------------------------------------------------
(* What the repository states and the code does not keep *)

\* "SIGTERM is sent first, and SIGKILL only when the backend has not exited after
\* the configured delay" (docs/code-dispatcher.md, DC-9).
KilledOnlyAfterTerm == killed => flags.terminated

\* An intermediate message is superseded: the result of a backend that wrote its
\* whole output and exited with status 0 carries the last message it wrote
\* (main_test.go, TestRunTask_DoesNotTerminateBeforeThreadCompleted).
FinalMessageReported ==
    Ran /\ result.code = 0 /\ waiter.err = 0 /\ backend.todo = <<>> =>
        LET spoken == SelectSeq(backend.script, LAMBDA e : e.message # NoMessage)
        IN  result.message = Last(spoken).message
=============================================================================
