------------------------------- MODULE TaskFile -------------------------------
(* parseParallelConfig (config.go): the task file of a parallel run, block   *)
(* by block and line by line. The first error ends the call; blank blocks    *)
(* are passed over. A block is its metadata lines and whether it has a       *)
(* separator and content; a line is its key and value, and one without a     *)
(* colon has the key "no colon". What the parser hands on is the task slice  *)
(* with its dependency slices; that ids are unique is what the sorter relies *)
(* on.                                                                       *)
EXTENDS Integers, Sequences, SequencesExt, Subsequences

CONSTANTS Task,    \* task ids
          Names,   \* names a dependencies line may hold, task ids or not
          Files,   \* the task files enumerated
          Empty    \* an empty value

VARIABLES file,     \* the blocks
          block,    \* the number of the block to read next
          line,     \* the number of its line to read next
          spec,     \* the TaskSpec its lines have given so far
          tasks,    \* the tasks read so far
          depList,  \* task -> its Dependencies slice
          parse     \* "reading", "accepted", or why the file was refused

Keys == {"id", "workdir", "session_id", "backend", "no colon", "no such key"}
Line ==
    [key : Keys, value : Names \cup {Empty, "-"}]
        \cup [key : {"dependencies"}, value : Seq(Names \cup {Empty})]
Block ==
    [blank : BOOLEAN, separator : BOOLEAN, content : BOOLEAN, lines : Seq(Line)]

NewSpec == [id |-> Empty, session |-> Empty, mode |-> "new", deps |-> <<>>]

Init ==
    /\ file \in Files
    /\ block = 1
    /\ line = 1
    /\ spec = NewSpec
    /\ tasks = <<>>
    /\ depList = [t \in Task |-> <<>>]
    /\ parse = "reading"

AtBlock == parse = "reading" /\ block \in DOMAIN file
InBlock == AtBlock /\ ~file[block].blank /\ file[block].separator
AtLine == InBlock /\ line \in DOMAIN file[block].lines

Refuse(why) ==
    /\ parse' = why
    /\ UNCHANGED <<file, block, line, spec, tasks, depList>>

PassBlank ==
    /\ AtBlock
    /\ file[block].blank
    /\ block' = block + 1
    /\ UNCHANGED <<file, line, spec, tasks, depList, parse>>

MissSeparator ==
    /\ AtBlock
    /\ ~file[block].blank /\ ~file[block].separator
    /\ Refuse("separator")

BadLine(l) == l.key = "no such key" \/ (l.key = "workdir" /\ l.value = "-")

RefuseLine == AtLine /\ BadLine(file[block].lines[line]) /\ Refuse("line")

\* The names between the commas that are not empty.
Named(l) == AtIndices(l.value, {n \in DOMAIN l.value : l.value[n] # Empty})

\* Mutant: a second dependencies line takes the place of the first.
TakeOver(l) ==
    CASE l.key = "id"           -> [spec EXCEPT !.id = l.value]
      [] l.key = "session_id"   -> [spec EXCEPT !.session = l.value, !.mode = "resume"]
      [] l.key = "dependencies" -> [spec EXCEPT !.deps = Named(l)]
      [] OTHER                  -> spec

\* A key may be repeated: the last id and session count, the dependencies add up,
\* and a session line makes the task a resumed one for good. A workdir or backend
\* line, and one without a colon, change nothing of this.
Take(l) ==
    CASE l.key = "id"           -> [spec EXCEPT !.id = l.value]
      [] l.key = "session_id"   -> [spec EXCEPT !.session = l.value, !.mode = "resume"]
      [] l.key = "dependencies" -> [spec EXCEPT !.deps = @ \o Named(l)]
      [] OTHER                  -> spec

ReadLine ==
    /\ AtLine
    /\ ~BadLine(file[block].lines[line])
    /\ spec' = Take(file[block].lines[line])
    /\ line' = line + 1
    /\ UNCHANGED <<file, block, tasks, depList, parse>>

\* The first check of the whole block that fails decides.
Verdict ==
    IF spec.id = Empty THEN "id"
    ELSE IF ~file[block].content THEN "content"
    ELSE IF spec.mode = "resume" /\ spec.session = Empty THEN "session"
    ELSE IF Contains(tasks, spec.id) THEN "duplicate"
    ELSE "none"

AtEndOfBlock == InBlock /\ line > Len(file[block].lines)

RefuseBlock == AtEndOfBlock /\ Verdict # "none" /\ Refuse(Verdict)

AddTask ==
    /\ AtEndOfBlock
    /\ Verdict = "none"
    /\ tasks' = Append(tasks, spec.id)
    /\ depList' = [depList EXCEPT ![spec.id] = spec.deps]
    /\ block' = block + 1
    /\ line' = 1
    /\ spec' = NewSpec
    /\ UNCHANGED <<file, parse>>

EndOfFile ==
    /\ parse = "reading"
    /\ block > Len(file)
    /\ parse' = IF tasks = <<>> THEN "no tasks" ELSE "accepted"
    /\ UNCHANGED <<file, block, line, spec, tasks, depList>>

Read ==
    \/ PassBlank \/ MissSeparator \/ RefuseLine \/ ReadLine \/ RefuseBlock \/ AddTask
    \/ EndOfFile

-----------------------------------------------------------------------------
(* Properties *)

\* The blocks of a file that count.
Blocks(f) == {i \in DOMAIN f : ~f[i].blank}

Lines(b, key) == {n \in DOMAIN b.lines : b.lines[n].key = key}

LastValue(b, key) ==
    IF Lines(b, key) = {} THEN Empty
    ELSE b.lines[CHOOSE n \in Lines(b, key) : \A m \in Lines(b, key) : m <= n].value

WellFormed(b) ==
    /\ b.separator /\ b.content
    /\ Lines(b, "no such key") = {}
    /\ \A n \in Lines(b, "workdir") : b.lines[n].value # "-"
    /\ LastValue(b, "id") # Empty
    /\ Lines(b, "session_id") # {} => LastValue(b, "session_id") # Empty

\* A file the parser should accept: it has tasks, every block is well formed and no
\* id comes twice.
Acceptable(f) ==
    /\ Blocks(f) # {}
    /\ \A i \in Blocks(f) : WellFormed(f[i])
    /\ \A i, j \in Blocks(f) : LastValue(f[i], "id") = LastValue(f[j], "id") => i = j

\* What the dependencies lines of a block name.
NamedIn(b) ==
    {name \in Names : \E n \in Lines(b, "dependencies") :
                          name # Empty /\ name \in ToSet(b.lines[n].value)}

\* A file is accepted exactly when it should be; then the task slice has the blocks'
\* ids in their order, and a task depends on every name of every dependencies line of
\* its block. The sorter and the executor rely on the ids being unique.
FileReadRight ==
    parse # "reading" =>
        /\ parse = "accepted" <=> Acceptable(file)
        /\ parse = "accepted" =>
               /\ Len(tasks) = Cardinality(Blocks(file))
               /\ \A i \in Blocks(file) :
                      LET id == LastValue(file[i], "id")
                      IN  /\ tasks[Rank(Blocks(file), i)] = id
                          /\ ToSet(depList[id]) = NamedIn(file[i])

=============================================================================
