---------------------------- MODULE MCParallelRun ----------------------------
(* Files of three tasks: every choice of four dependency lists, which gives *)
(* chains, fans, cycles, a repeated, a self and an unknown dependency; and  *)
(* files with every mistake the parser knows.                               *)
EXTENDS ParallelRun

CONSTANTS a, b, c, unknown

MCTask == {a, b, c}
MCNames == {a, b, c, unknown}
MCOwnCodes == {0, -1}
MCRunCodes == {-1, 0, 1, 124, 130}

LineOf(key, value) == [key |-> key, value |-> value]
Id(t) == LineOf("id", t)
Needs(names) == LineOf("dependencies", names)
BlockOf(lines) == [blank |-> FALSE, separator |-> TRUE, content |-> TRUE, lines |-> lines]
Plain(t, names) == BlockOf(<<Id(t), Needs(names)>>)
Blank == [BlockOf(<<>>) EXCEPT !.blank = TRUE]

DepLists == {<<>>, <<a>>, <<b, b>>, <<unknown>>}
Graphs ==
    { <<Plain(c, dep[c]), Plain(a, dep[a]), Plain(b, dep[b])>> :
          dep \in {d \in [MCTask -> DepLists] : Cardinality({t \in MCTask : d[t] = <<>>}) < 2} }

\* Two dependencies lines, an empty name, a session, a workdir, a line without a colon
\* and a blank block.
Odd == << Blank, Plain(b, <<Empty>>), Plain(a, <<>>),
          BlockOf(<<LineOf("id", a), LineOf("no colon", Empty), Needs(<<a, Empty>>), Id(c),
                  LineOf("workdir", a), LineOf("session_id", Empty), LineOf("session_id", a),
                  LineOf("backend", Empty), Needs(<<b>>)>>) >>

Mistakes ==
    { BlockOf(<<Needs(<<a>>)>>), [Plain(b, <<>>) EXCEPT !.separator = FALSE],
      [Plain(b, <<>>) EXCEPT !.content = FALSE], Plain(a, <<>>), Plain(Empty, <<>>),
      BlockOf(<<Id(b), LineOf("no such key", a)>>), BlockOf(<<LineOf("workdir", "-"), Id(b)>>),
      BlockOf(<<Id(b), LineOf("session_id", a), LineOf("session_id", Empty)>>) }
Broken ==
    { <<Plain(a, <<>>), mistake, Plain(c, <<>>)>> : mistake \in Mistakes } \cup {<<>>, <<Blank>>}

MCFiles == Graphs \cup Broken \cup {Odd}
=============================================================================
