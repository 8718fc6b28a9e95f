------------------------------ MODULE Invocation ------------------------------
(* From the arguments of the dispatcher and its stdin to the command of the  *)
(* backend: the modes of run (main.go), parseArgs (config.go), the arguments *)
(* of runParallelInvocation (parallel_run.go), planSerialInvocation           *)
(* (serial_invocation_planner.go), planTaskInvocation (executor.go) and the   *)
(* two backends (backend.go). An argument is a string; what the code looks   *)
(* for inside one is asked of a table.                                       *)
EXTENDS Integers, Sequences, SequencesExt

CONSTANTS SpecialTexts   \* of the texts enumerated, those of more than 800 bytes
                         \* or with a character of stdinSpecialChars

Empty == ""

BackendFlags == [flag \in {"--backend=codex", "--backend=claude", "--backend="} |->
                    CASE flag = "--backend=codex"  -> "codex"
                      [] flag = "--backend=claude" -> "claude"
                      [] flag = "--backend="       -> Empty]
OtherFlags == {"--parallel", "--full-output", "--cleanup", "--resume"}
Backends == {"codex", "claude"}
Trim(arg) == IF arg = " " THEN Empty ELSE arg

Mode(args) ==
    CASE args # <<>> /\ Head(args) \in {"--help", "-h"} -> "help"
      [] args # <<>> /\ Head(args) = "--cleanup"        -> "cleanup"
      [] OTHER -> IF Contains(args, "--parallel") THEN "parallel" ELSE "serial"

-----------------------------------------------------------------------------
(* Arguments *)

GiveBackend(s, value) == [s EXCEPT !.backend = value, !.bad = value = Empty, !.at = "flags"]

\* The loop of parseArgs: what is no flag is a word, and all is after "--".
ScanArg(s, arg) ==
    CASE s.at = "words" -> [s EXCEPT !.words = Append(@, arg)]
      [] s.at = "value" -> GiveBackend(s, Trim(arg))
      [] s.at = "flags" ->
             CASE arg = "--"                  -> [s EXCEPT !.at = "words"]
               [] arg = "--backend"           -> [s EXCEPT !.at = "value"]
               [] arg \in DOMAIN BackendFlags -> GiveBackend(s, BackendFlags[arg])
               [] arg \in OtherFlags          -> [s EXCEPT !.bad = TRUE]
               [] OTHER                       -> [s EXCEPT !.words = Append(@, arg)]

\* The loop of runParallelInvocation: it knows no "--", and refuses every word.
ScanParallelArg(s, arg) ==
    CASE s.at = "value" -> GiveBackend(s, Trim(arg))
      [] s.at = "flags" ->
             CASE arg \in {"--parallel", "--full-output"} -> s
               [] arg = "--backend"                       -> [s EXCEPT !.at = "value"]
               [] arg \in DOMAIN BackendFlags             -> GiveBackend(s, BackendFlags[arg])
               [] OTHER                                   -> [s EXCEPT !.words = Append(@, arg)]

NoArgs == [at |-> "flags", backend |-> Empty, words |-> <<>>, bad |-> FALSE]
Understood(s) == ~s.bad /\ s.at # "value" /\ s.backend \in Backends

\* Of what either loop has gathered:
ParallelArgsAccepted(s) == Understood(s) /\ s.words = <<>>

\* parseArgs and selectBackend: [resume <session>] <task> [<workdir>]. What comes
\* after that is passed over.
ParseArgs(s) ==
    LET resumes == s.words # <<>> /\ Head(s.words) = "resume"
        own == IF resumes THEN SubSeq(s.words, 3, Len(s.words)) ELSE s.words
    IN  [accepted |-> /\ Understood(s)
                      /\ own # <<>>
                      /\ resumes => Trim(s.words[2]) # Empty
                      /\ Len(own) > 1 => own[2] # "-",
         backend |-> s.backend,
         mode |-> IF resumes THEN "resume" ELSE "new",
         session |-> IF resumes /\ own # <<>> THEN Trim(s.words[2]) ELSE Empty,
         task |-> IF own = <<>> THEN Empty ELSE Head(own),
         workdir |-> IF Len(own) > 1 THEN own[2] ELSE "."]

-----------------------------------------------------------------------------
(* The command. env is what is read beside the arguments: whether stdin is a *)
(* terminal, its text, the default prompt of the backend and its model, Empty *)
(* for none.                                                                  *)

\* resolveSerialTaskText: text that is piped in takes the place of the argument.
Explicit(cfg) == cfg.task = "-"
Piped(cfg, env) == ~env.terminal /\ (Explicit(cfg) \/ env.text # Empty)
TaskText(cfg, env) == IF Explicit(cfg) \/ Piped(cfg, env) THEN env.text ELSE cfg.task

Wrapped(task, env) == IF env.prompt = Empty THEN task ELSE env.prompt \o task

\* Mutant: an explicit "-" alone does not ask for stdin.
UseStdinImplicit(cfg, env) ==
    Piped(cfg, env) \/ env.prompt # Empty \/ TaskText(cfg, env) \in SpecialTexts

\* A prompt is wrapped in lines of its own, which makes any text special.
UseStdin(cfg, env) ==
    \/ Explicit(cfg) \/ Piped(cfg, env)
    \/ env.prompt # Empty \/ TaskText(cfg, env) \in SpecialTexts

CodexArgs(cfg, model, target) ==
    <<"exec">> \o (IF model = Empty THEN <<>> ELSE <<"-m", model>>)
    \o <<"--dangerously-bypass-approvals-and-sandbox", "--skip-git-repo-check">>
    \o (IF cfg.mode = "resume" THEN <<"--json", "resume", cfg.session>>
        ELSE <<"-C", cfg.workdir, "--json">>)
    \o <<target>>

ClaudeArgs(cfg, target) ==
    <<"-p", "--dangerously-skip-permissions">>
    \o (IF cfg.mode = "resume" /\ cfg.session # Empty THEN <<"-r", cfg.session>> ELSE <<>>)
    \o <<"--output-format", "stream-json", "--verbose", target>>

\* planTaskInvocation: an empty workdir is the current one; Codex gets its directory as
\* an argument, Claude, whose sessions belong to a directory, as that of its process.
Plan(cfg, env) ==
    LET task == Wrapped(TaskText(cfg, env), env)
        set == [cfg EXCEPT !.workdir = IF @ = Empty THEN "." ELSE @]
        target == IF UseStdin(cfg, env) THEN "-" ELSE task
        claude == cfg.backend = "claude"
    IN  [command |-> cfg.backend,
         args |-> IF claude THEN ClaudeArgs(set, target) ELSE CodexArgs(set, env.model, target),
         dir |-> IF claude THEN Trim(set.workdir) ELSE Empty,
         unset |-> IF claude THEN {"CLAUDECODE"} ELSE {},
         stdin |-> IF UseStdin(cfg, env) THEN <<task>> ELSE <<>>]

\* Explicit stdin must bring a task.
Planned(cfg, env) == Explicit(cfg) => env.text # Empty

=============================================================================
