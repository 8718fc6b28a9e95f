------------------------------ MODULE MCSerialRun ------------------------------
(* Every argument vector of up to three words of a small vocabulary behind a  *)
(* choice of flags, and longer ones that resume a session, with text piped in, *)
(* typed or absent, and with a prompt and a model or none; and, for one        *)
(* command, every stderr of up to eight characters.                            *)
EXTENDS SerialRun

UpTo(n, S) == UNION {[1..m -> S] : m \in 0..n}

Vocabulary == {"resume", "task", "a\nb", "-", " ", "--", "--backend", "--parallel"}
Heads == {<<>>, <<"--backend=codex">>, <<"--backend", "claude">>, <<"--backend=">>, <<"--help">>,
          <<"--cleanup">>, <<"--parallel", "--backend=codex", "--full-output">>, <<"--resume">>}
Resumes ==
    { <<flag, "resume", "session">> \o words :
        flag \in {"--backend=codex", "--backend=claude"}, words \in UpTo(3, {"task", "-", "dir", "--"}) }
Vectors == { head \o words : head \in Heads, words \in UpTo(2, Vocabulary) } \cup Resumes
           \cup { <<"--backend", "claude">> \o words : words \in UpTo(3, Vocabulary) }

Env(tty, input, prompt, model) ==
    [terminal |-> tty, text |-> input, prompt |-> prompt, model |-> model]
Envs == { Env(TRUE, "typed", "", ""), Env(FALSE, "", "", "m"), Env(FALSE, "piped", "prompt", ""),
          Env(FALSE, "a\nb", "", ""), Env(TRUE, "", "prompt", "m") }

MCSpecialTexts == {"a\nb"}
MCOwnCodes == {0, -1}

\* No letter comes twice, so a character that is lost, doubled or moved shows.
Letters == <<"a", "b", "c", "d", "e", "f", "g", "h">>
MCTexts == { [i \in 1..len |-> IF i \in breaks THEN "n" ELSE Letters[i]] :
                 len \in 0..8, breaks \in SUBSET (1..8) }

MCInputs ==
    { [args |-> v, env |-> e, stderr |-> <<>>] : v \in Vectors, e \in Envs }
    \cup { [args |-> <<"--backend=codex", "task">>, env |-> Env(TRUE, "", "", ""), stderr |-> t] :
           t \in MCTexts }
=============================================================================
