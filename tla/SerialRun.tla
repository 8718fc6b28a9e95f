------------------------------- MODULE SerialRun -------------------------------
(* One dispatcher from its arguments to its exit (run in main.go) with one   *)
(* task: the arguments and the command of Invocation, the run of the backend *)
(* of TaskRun, and its stderr through the writers of OutputText. The parallel *)
(* mode is left where ParallelRun takes it up.                               *)
EXTENDS Integers, Sequences, SequencesExt

CONSTANTS SpecialTexts,                             \* Invocation
          Texts, Newline, LineLimit, TailLimit,     \* OutputText
          OwnCodes, FailCodes, CtxEnds, NoCode,     \* TaskRun
          Inputs,       \* arguments, what is read beside them, and a stderr
          MaxSignals    \* bound: how many signals arrive

ASSUME LimitsAssumption ==
    LineLimit \in Nat \ {0} /\ TailLimit \in Nat \ {0} /\ MaxSignals \in Nat
ASSUME CodesAssumption ==
    /\ OwnCodes \subseteq -1 .. 255    \* what ExitError.ExitCode gives on Unix
    /\ FailCodes \subseteq 1 .. 255
    /\ NoCode \notin Int
ASSUME TextsAssumption == \A t \in Texts : t \in Seq(ToSet(t))
ASSUME InputsAssumption == \A input \in Inputs : input.args \in Seq(ToSet(input.args))
ASSUME CtxEndsAssumption == CtxEnds \subseteq {"timeout", "cancelled"}

VARIABLES stage,     \* "args", "plan", "run", "close", "parallel", "exited" or "killed"
          exitCode, printed,   \* the exit code, and whether the message was printed
          log,       \* the dispatcher's own log: "none", "open", "closed" or "removed"
          args, env, \* the arguments, and what is read beside them (Invocation)
          scanned, scan, \* how many arguments were looked at, and what was gathered
          cfg, plan, \* once parsed, once planned
          run, signals, notified,
          text, given, chunk, buf, dropped, lines, tail

Inv == INSTANCE Invocation
Out == INSTANCE OutputText
Run == INSTANCE TaskRun WITH state <- run

inputVars == <<args, env>>
scanVars == <<scanned, scan>>
runVars == <<run, signals, notified>>
outVars == <<text, given, chunk, buf, dropped, lines, tail>>
vars == <<stage, exitCode, printed, log, inputVars, scanVars, cfg, plan, runVars, outVars>>

NoConfig == Inv!ParseArgs(Inv!NoArgs)
NoPlan == [command |-> Inv!Empty, args |-> <<>>, dir |-> Inv!Empty, unset |-> {}, stdin |-> <<>>]

Init ==
    /\ stage = "args"
    /\ exitCode = 0 /\ printed = FALSE /\ log = "none"
    /\ \E input \in Inputs : args = input.args /\ env = input.env /\ text = input.stderr
    /\ scanned = 0 /\ scan = Inv!NoArgs
    /\ cfg = NoConfig /\ plan = NoPlan
    /\ run = [Run!Called EXCEPT !.phase = "idle"]
    /\ signals = 0 /\ notified = FALSE
    /\ Out!Init

\* The deferred calls come next; os.Exit takes the last eight bits of the code.
Leave(code) == stage' = "close" /\ exitCode' = code % 256

\* Help and cleanup, and a logger that cannot be made, need no log.
EndWithoutLog ==
    /\ stage = "args" /\ log = "none"
    /\ exitCode' \in CASE Inv!Mode(args) = "help"    -> {0}
                        [] Inv!Mode(args) = "cleanup" -> {0, 1}
                        [] OTHER                      -> {1}
    /\ stage' = "exited"
    /\ UNCHANGED <<printed, log, inputVars, scanVars, cfg, plan, runVars, outVars>>

OpenLog ==
    /\ stage = "args" /\ log = "none"
    /\ Inv!Mode(args) \in {"parallel", "serial"}
    /\ log' = "open"
    /\ UNCHANGED <<stage, exitCode, printed, inputVars, scanVars, cfg, plan, runVars, outVars>>

\* The loop over the arguments, left at once when one makes no sense.
ScanArgs ==
    /\ stage = "args" /\ log = "open"
    /\ scanned < Len(args) /\ ~scan.bad
    /\ scan' = IF Inv!Mode(args) = "parallel"
               THEN Inv!ScanParallelArg(scan, args[scanned + 1])
               ELSE Inv!ScanArg(scan, args[scanned + 1])
    /\ scanned' = scanned + 1
    /\ UNCHANGED <<stage, exitCode, printed, log, inputVars, cfg, plan, runVars, outVars>>

Scanned == scanned = Len(args) \/ scan.bad

StartParallel ==
    /\ stage = "args" /\ log = "open"
    /\ Inv!Mode(args) = "parallel" /\ Scanned
    /\ IF Inv!ParallelArgsAccepted(scan)
       THEN stage' = "parallel" /\ UNCHANGED exitCode
       ELSE Leave(1)
    /\ UNCHANGED <<printed, log, inputVars, scanVars, cfg, plan, runVars, outVars>>

ReadArgs ==
    /\ stage = "args" /\ log = "open"
    /\ Inv!Mode(args) = "serial" /\ Scanned
    /\ cfg' = Inv!ParseArgs(scan)
    /\ IF cfg'.accepted THEN stage' = "plan" /\ UNCHANGED exitCode ELSE Leave(1)
    /\ UNCHANGED <<printed, log, inputVars, scanVars, plan, runVars, outVars>>

\* Stdin cannot be read, or brings no task where it must.
PlanFails ==
    /\ stage = "plan"
    /\ Inv!Explicit(cfg) \/ ~env.terminal
    /\ Leave(1)
    /\ UNCHANGED <<printed, log, inputVars, scanVars, cfg, plan, runVars, outVars>>

PlanTask ==
    /\ stage = "plan"
    /\ Inv!Planned(cfg, env)
    /\ plan' = Inv!Plan(cfg, env)
    /\ run' = Run!Called
    /\ stage' = "run"
    /\ UNCHANGED <<exitCode, printed, log, inputVars, scanVars, cfg, signals, notified, outVars>>

\* The goroutine that copies stderr.
CopyStderr ==
    /\ stage = "run"
    /\ run.phase \in {"backend", "ended"}
    /\ Out!Copy
    /\ UNCHANGED <<stage, exitCode, printed, log, inputVars, scanVars, cfg, plan, runVars>>

\* The run waits for that goroutine, and flushes the writer if it succeeds.
RunStep ==
    /\ stage = "run"
    /\ run' \in Run!Steps(run)
    /\ run.ctx = "live" /\ run'.ctx = "cancelled" => notified
    /\ run'.phase = "returned" => chunk = <<>>
    /\ IF run'.phase = "returned" /\ run'.code = 0 THEN Out!Flush ELSE UNCHANGED outVars
    /\ UNCHANGED <<stage, exitCode, printed, log, inputVars, scanVars, cfg, plan, signals, notified>>

\* Mutant: a run that was not ended by its context counts as a success.
ReportIfNotEnded ==
    /\ stage = "run"
    /\ run.phase = "returned"
    /\ printed' = (run.ctx = "live")
    /\ Leave(IF run.ctx = "live" THEN 0 ELSE run.code)
    /\ UNCHANGED <<log, inputVars, scanVars, cfg, plan, runVars, outVars>>

\* A run that fails prints nothing.
Report ==
    /\ stage = "run"
    /\ run.phase = "returned"
    /\ printed' = (run.code = 0)
    /\ Leave(run.code)
    /\ UNCHANGED <<log, inputVars, scanVars, cfg, plan, runVars, outVars>>

CloseLog ==
    /\ stage = "close" /\ log = "open"
    /\ log' = "closed"
    /\ UNCHANGED <<stage, exitCode, printed, inputVars, scanVars, cfg, plan, runVars, outVars>>

\* A log that cannot be removed stays.
Exit ==
    /\ stage = "close" /\ log = "closed"
    /\ log' \in {"removed", "closed"}
    /\ stage' = "exited"
    /\ UNCHANGED <<exitCode, printed, inputVars, scanVars, cfg, plan, runVars, outVars>>

Step ==
    \/ EndWithoutLog \/ OpenLog \/ ScanArgs \/ StartParallel \/ ReadArgs \/ PlanFails \/ PlanTask
    \/ CopyStderr \/ RunStep \/ Report \/ CloseLog \/ Exit

\* A signal reaches the run that listens, and kills a dispatcher without one.
Signal ==
    /\ stage \notin {"parallel", "exited", "killed"}
    /\ signals < MaxSignals
    /\ signals' = signals + 1
    /\ notified' = (notified \/ Run!Listens(run))
    /\ stage' = IF Run!Listens(run) THEN stage ELSE "killed"
    /\ UNCHANGED <<exitCode, printed, log, inputVars, scanVars, cfg, plan, run, outVars>>

Done == stage \in {"parallel", "exited", "killed"} /\ UNCHANGED vars

Next == Step \/ Signal \/ Done

Spec == Init /\ [][Next]_vars

-----------------------------------------------------------------------------
(* Properties *)

\* However the task is given, as an argument, piped in or both, the backend gets it
\* once: as its last argument, and then it is the text of the command line, short and
\* free of characters a shell would touch, or through stdin. It resumes a session
\* exactly when told to, and a new task works in the directory that was asked for.
CommandCarriesTask ==
    plan # NoPlan =>
        LET chosen == IF env.text # Inv!Empty /\ (~env.terminal \/ cfg.task = "-")
                      THEN env.text ELSE cfg.task
            task == IF env.prompt = Inv!Empty THEN chosen ELSE env.prompt \o chosen
            pairs == 1 .. (Len(plan.args) - 1)
        IN  /\ \/ plan.stdin = <<task>> /\ Last(plan.args) = "-"
               \/ /\ plan.stdin = <<>> /\ Last(plan.args) = task
                  /\ task = cfg.task /\ Contains(args, task)
                  /\ task \notin SpecialTexts \cup {"-"}
            /\ cfg.mode = "resume" <=> (\E i \in pairs :
                    plan.args[i] \in {"resume", "-r"} /\ plan.args[i + 1] = cfg.session)
            /\ cfg.mode = "new" /\ Inv!Trim(cfg.workdir) # Inv!Empty =>
                   plan.dir = cfg.workdir \/ \E i \in pairs :
                       plan.args[i] = "-C" /\ plan.args[i + 1] = cfg.workdir

\* However stderr is cut into chunks, the task log holds its lines in order, each once,
\* whole or cut at the limit and marked, and the rest after the last newline once a run
\* has succeeded. Of a run that fails the rest may be missing (FullStderrLogged).
LinesLogged ==
    \E rest \in BOOLEAN :
        /\ Out!LinesLoggedAfter(rest)
        /\ run.phase = "returned" /\ run.code = 0 => rest
        /\ rest => run.phase = "returned"

TailExact == Out!TailExact

\* The exit code of a serial run: 0 exactly when a message was printed, which takes a
\* run that its context did not end; 124 and 130 for one it did, once the backend had
\* been started; and no run at all when the arguments are refused.
ExitMeansRun ==
    stage = "exited" /\ Inv!Mode(args) = "serial" =>
        /\ exitCode = 0 <=> printed
        /\ printed => run.phase = "returned" /\ run.code = 0 /\ run.ctx = "live"
        /\ run.phase = "returned" /\ run.ctx # "live" =>
               exitCode \in FailCodes \cup {IF run.ctx = "timeout" THEN 124 ELSE 130}
        /\ ~cfg.accepted => run.phase = "idle" /\ exitCode = 1

-----------------------------------------------------------------------------
(* What the repository states and the code does not keep *)

\* "Full stderr still reaches the task log via stderrLogger" (main.go, of the stderr
\* that a failed task attaches to its error): once the run is over, however it ended.
FullStderrLogged == run.phase = "returned" => Out!LinesLoggedAfter(TRUE)
=============================================================================
