------------------------------ MODULE OutputText ------------------------------
(* What becomes of a backend's stderr (io.MultiWriter in                     *)
(* execution_lifecycle.go, logWriter and tailBuffer in utils.go). The text   *)
(* arrives in chunks cut anywhere; every chunk goes to the tail kept for the *)
(* error message first, then to the writer that logs it line by line. A text *)
(* is a sequence of characters, one of which is the newline.                 *)
EXTENDS Integers, FiniteSets, Sequences, SequencesExt, Subsequences

CONSTANTS Texts,      \* the texts enumerated
          Newline,
          LineLimit,  \* logWriter.maxLen
          TailLimit   \* tailBuffer.limit

VARIABLES text,     \* what the backend writes
          given,    \* how many characters of it have arrived
          chunk,    \* what logWriter.Write has still to look at
          buf, dropped,  \* the unfinished line: its beginning, and whether it is longer
          lines,    \* the lines logged
          tail      \* tailBuffer.data

textVars == <<text, given, chunk, buf, dropped, lines, tail>>

Init ==
    /\ text \in Texts
    /\ given = 0
    /\ chunk = <<>> /\ buf = <<>> /\ dropped = FALSE
    /\ lines = <<>>
    /\ tail = <<>>

Drop(s, n) == SubSeq(s, n + 1, Len(s))

\* Mutant: one character too many is cut when a chunk spans the limit.
TailWriteShort(p) ==
    LET overflow == Len(tail) + Len(p) - TailLimit
    IN  CASE Len(p) >= TailLimit -> Drop(p, Len(p) - TailLimit)
          [] Len(p) < TailLimit /\ overflow <= 0 -> tail \o p
          [] Len(p) < TailLimit /\ overflow > 0 -> Drop(tail, overflow + 1) \o p

TailWrite(p) ==
    LET overflow == Len(tail) + Len(p) - TailLimit
    IN  CASE Len(p) >= TailLimit -> Drop(p, Len(p) - TailLimit)
          [] Len(p) < TailLimit /\ overflow <= 0 -> tail \o p
          [] Len(p) < TailLimit /\ overflow > 0 -> Drop(tail, overflow) \o p

\* One call of Write: a chunk of any size.
Deliver ==
    /\ chunk = <<>>
    /\ \E n \in 1 .. (Len(text) - given) :
           LET p == SubSeq(text, given + 1, given + n)
           IN  chunk' = p /\ tail' = TailWrite(p) /\ given' = given + n
    /\ UNCHANGED <<text, buf, dropped, lines>>

\* writeLimited
Room == LineLimit - Len(buf)
Limited(p) == buf \o SubSeq(p, 1, IF Len(p) < Room THEN Len(p) ELSE Room)

\* Mutant: a line that just fits counts as longer.
DroppedByFull(p) == dropped \/ Len(p) >= Room

DroppedBy(p) == dropped \/ Len(p) > Room

\* logLine: a longer line ends in three dots where there is room for them.
Cut(line, longer) ==
    IF longer /\ LineLimit > 3
    THEN SubSeq(line, 1, LineLimit - 3) \o <<".", ".", ".">> ELSE line

BreakIn(p) == CHOOSE i \in DOMAIN p : p[i] = Newline /\ \A j \in 1 .. (i - 1) : p[j] # Newline

\* The loop of Write: a line that ends in the chunk is logged, an empty one too.
WriteLine ==
    /\ Contains(chunk, Newline)
    /\ LET p == SubSeq(chunk, 1, BreakIn(chunk) - 1)
       IN  lines' = Append(lines, Cut(Limited(p), DroppedBy(p)))
    /\ buf' = <<>>
    /\ dropped' = FALSE
    /\ chunk' = Drop(chunk, BreakIn(chunk))
    /\ UNCHANGED <<text, given, tail>>

\* What follows the last newline waits for the next chunk.
WriteRest ==
    /\ chunk # <<>>
    /\ ~Contains(chunk, Newline)
    /\ buf' = Limited(chunk)
    /\ dropped' = DroppedBy(chunk)
    /\ chunk' = <<>>
    /\ UNCHANGED <<text, given, lines, tail>>

Copy == Deliver \/ WriteLine \/ WriteRest

\* Nothing is logged for an empty rest.
Flush ==
    /\ lines' = IF buf = <<>> THEN lines ELSE Append(lines, Cut(buf, dropped))
    /\ buf' = <<>>
    /\ dropped' = FALSE
    /\ UNCHANGED <<text, given, chunk, tail>>

-----------------------------------------------------------------------------
(* Properties *)

\* The last newline of s before position i, 0 if there is none.
BreakBefore(s, i) ==
    CHOOSE j \in 0 .. (i - 1) : /\ j # 0 => s[j] = Newline
                                /\ \A k \in (j + 1) .. (i - 1) : s[k] # Newline

LineBefore(s, i) == SubSeq(s, BreakBefore(s, i) + 1, i - 1)

Shown(line) == Cut(SubSeq(line, 1, IF Len(line) < LineLimit THEN Len(line) ELSE LineLimit),
                   Len(line) > LineLimit)

\* However the text is cut into chunks, exactly its lines are logged, each whole or cut
\* at the limit and marked, and the rest once the writer has been flushed.
LinesLoggedAfter(flushed) ==
    LET s == SubSeq(text, 1, given)
        unfinished == flushed /\ LineBefore(s, given + 1) # <<>>
        ends == {i \in DOMAIN s : s[i] = Newline} \cup IF unfinished THEN {given + 1} ELSE {}
    IN  chunk = <<>> =>
            /\ Len(lines) = Cardinality(ends)
            /\ \A i \in ends : lines[Rank(ends, i)] = Shown(LineBefore(s, i))

\* The error message of a run ends with the last characters the backend wrote, as many
\* as fit, whatever the chunks were.
TailExact ==
    tail = Drop(SubSeq(text, 1, given), IF given > TailLimit THEN given - TailLimit ELSE 0)

=============================================================================
