---------------------------- MODULE StreamParser ----------------------------
(***************************************************************************)
(* parseJSONStreamInternalWithHooks and readLineWithLimit (parser.go): the  *)
(* stdout of a Codex or Claude backend, read in parts of at most one reader *)
(* buffer, put together line by line up to a limit, and reduced to a        *)
(* message, a thread id and two notifications.                              *)
(*                                                                          *)
(* A line is its size and what it decodes to. The backend may end or be     *)
(* stopped half way: the last line need not end in a newline, and the       *)
(* stream may break at any read.                                            *)
(***************************************************************************)
EXTENDS Integers, Sequences, SequencesExt

CONSTANTS
    InputLines, \* the lines enumerated: [kind, event, size]
    MaxLines,   \* bound of the model: lines of an input
    Buffer,     \* jsonLineReaderSize
    MaxBytes,   \* jsonLineMaxBytes
    None        \* an absent field, an empty text

\* What the fields of a UnifiedEvent can tell the parser.
ItemTypes == {None, "agent_message", "other"}
Subtypes  == {None, "init", "other"}
EventFields == {"type", "thread", "item", "text", "subtype", "session", "result"}

ASSUME ParserAssumption ==
    /\ Buffer \in Nat \ {0} /\ MaxBytes \in Nat \ {0}
    /\ MaxLines \in Nat
    /\ \A line \in InputLines :
           /\ line.size \in Nat
           /\ line.kind \in {"blank", "garbage", "event"}
           /\ DOMAIN line.event = EventFields
           /\ line.event.item \in ItemTypes /\ line.event.subtype \in Subtypes

VARIABLES
    lines,          \* the input
    terminated,     \* does a newline follow its last line?
    n,              \* lines given out by readLineWithLimit so far
    place,          \* "next", "more" (inside a line), "line" (one is read), "done"
    left,           \* bytes of the line not read yet
    total, tooLong, \* of the line under way
    codexMessage, claudeMessage, threadID,
    messageNotified, completeNotified,
    broken          \* a read has failed

vars == <<lines, terminated, n, place, left, total, tooLong, codexMessage, claudeMessage, threadID,
          messageNotified, completeNotified, broken>>
input == <<lines, terminated>>
lineVars == <<n, left, total, tooLong>>
resultVars == <<codexMessage, claudeMessage, threadID, messageNotified, completeNotified>>

Line == lines[n]

Init ==
    /\ \E k \in 0 .. MaxLines : lines \in [1 .. k -> InputLines]
    /\ terminated \in BOOLEAN
    /\ ~terminated => lines # <<>> /\ Last(lines).size > 0
    /\ n = 0 /\ place = "next"
    /\ left = 0 /\ total = 0 /\ tooLong = FALSE
    /\ codexMessage = None /\ claudeMessage = None /\ threadID = None
    /\ messageNotified = FALSE /\ completeNotified = FALSE
    /\ broken = FALSE

-----------------------------------------------------------------------------
(* bufio.Reader.ReadLine *)

\* With r bytes of a line to come, ReadLine returns a part of it ...
Part(r) == IF r < Buffer THEN r ELSE Buffer

\* ... that is only a prefix when the buffer is full before the newline, or the end
\* of the input, is seen.
IsPrefixPart(r) == r >= Buffer

\* Nothing is left of the line under way, not even a newline.
AtEnd == left = 0 /\ n = Len(lines) /\ ~terminated

-----------------------------------------------------------------------------
(* readLineWithLimit *)

InputEnds ==
    /\ place = "next"
    /\ n = Len(lines)
    /\ place' = "done"
    /\ UNCHANGED <<input, lineVars, resultVars, broken>>

FirstPart ==
    /\ place = "next"
    /\ n < Len(lines)
    /\ LET size == lines[n + 1].size IN
        /\ left' = size - Part(size)
        /\ tooLong' = (Part(size) > MaxBytes)
        /\ total' = IF Part(size) > MaxBytes THEN 0 ELSE Part(size)
        /\ place' = IF IsPrefixPart(size) THEN "more" ELSE "line"
    /\ n' = n + 1
    /\ UNCHANGED <<input, resultVars, broken>>

\* Mutant: the part that reaches the limit is dropped with the line.
MorePartsStrict ==
    /\ place = "more"
    /\ ~AtEnd
    /\ left' = left - Part(left)
    /\ IF tooLong \/ total + Part(left) >= MaxBytes
       THEN tooLong' = TRUE /\ UNCHANGED total
       ELSE total' = total + Part(left) /\ UNCHANGED tooLong
    /\ place' = IF IsPrefixPart(left) THEN "more" ELSE "line"
    /\ UNCHANGED <<input, n, resultVars, broken>>

MoreParts ==
    /\ place = "more"
    /\ ~AtEnd
    /\ left' = left - Part(left)
    /\ IF tooLong \/ total + Part(left) > MaxBytes
       THEN tooLong' = TRUE /\ UNCHANGED total
       ELSE total' = total + Part(left) /\ UNCHANGED tooLong
    /\ place' = IF IsPrefixPart(left) THEN "more" ELSE "line"
    /\ UNCHANGED <<input, n, resultVars, broken>>

\* The error of ReadLine comes instead of the line: the parts read so far are
\* dropped and the parser stops.
EndsInsideLine ==
    /\ place = "more"
    /\ AtEnd
    /\ place' = "done"
    /\ n' = n - 1
    /\ UNCHANGED <<input, left, total, tooLong, resultVars, broken>>

\* Stdout is closed, or reading fails.
ReadFails ==
    /\ place \in {"next", "more"}
    /\ place' = "done"
    /\ broken' = TRUE
    /\ n' = IF place = "more" THEN n - 1 ELSE n
    /\ UNCHANGED <<input, left, total, tooLong, resultVars>>

-----------------------------------------------------------------------------
(* The events *)

IsCodex(e) ==
    \/ e.thread # None
    \/ e.item # None
    \/ e.type \in {"turn.started", "turn.completed", "turn.failed"}

IsClaude(e) ==
    /\ ~IsCodex(e)
    /\ \/ e.subtype # None
       \/ e.result # None
       \/ e.type = "result" /\ e.session # None

IsAuthoritativeClaudeSessionEvent(e) ==
    e.type = "result" \/ (e.type = "system" /\ e.subtype = "init")

\* Blank lines, overlong ones and those that do not decode leave no trace.
Decodes == ~tooLong /\ Line.kind = "event"

SkipLine ==
    /\ place = "line"
    /\ Decodes => ~IsCodex(Line.event) /\ ~IsClaude(Line.event)
    /\ place' = "next"
    /\ UNCHANGED <<input, lineVars, resultVars, broken>>

CodexEvent ==
    /\ place = "line"
    /\ Decodes
    /\ LET e == Line.event
           speaks == e.type = "item.completed" /\ e.item = "agent_message" /\ e.text # None
       IN  /\ IsCodex(e)
           /\ threadID' = CASE e.type = "thread.started" -> e.thread
                            [] e.type = "thread.completed" /\ threadID = None -> e.thread
                            [] OTHER -> threadID
           /\ codexMessage' = IF speaks THEN e.text ELSE codexMessage
           /\ messageNotified' = (messageNotified \/ speaks)
           /\ completeNotified' =
                  (completeNotified
                   \/ e.type \in {"thread.completed", "turn.completed", "turn.failed"})
    /\ place' = "next"
    /\ UNCHANGED <<input, lineVars, claudeMessage, broken>>

\* Mutants: any session id counts; a result notifies without a text.
ClaudeEventAnySession ==
    /\ place = "line"
    /\ Decodes
    /\ LET e == Line.event IN
        /\ IsClaude(e)
        /\ threadID' = IF e.session # None THEN e.session ELSE threadID
        /\ claudeMessage' = IF e.result # None THEN e.result ELSE claudeMessage
        /\ messageNotified' = (messageNotified \/ e.result # None)
        /\ completeNotified' = (completeNotified \/ e.type = "result")
    /\ place' = "next"
    /\ UNCHANGED <<input, lineVars, codexMessage, broken>>

ClaudeEventNotifiesEmpty ==
    /\ place = "line"
    /\ Decodes
    /\ LET e == Line.event IN
        /\ IsClaude(e)
        /\ threadID' = IF e.session # None /\ IsAuthoritativeClaudeSessionEvent(e)
                       THEN e.session ELSE threadID
        /\ claudeMessage' = IF e.result # None THEN e.result ELSE claudeMessage
        /\ messageNotified' = (messageNotified \/ e.type = "result")
        /\ completeNotified' = (completeNotified \/ e.type = "result")
    /\ place' = "next"
    /\ UNCHANGED <<input, lineVars, codexMessage, broken>>

ClaudeEvent ==
    /\ place = "line"
    /\ Decodes
    /\ LET e == Line.event IN
        /\ IsClaude(e)
        /\ threadID' = IF e.session # None /\ IsAuthoritativeClaudeSessionEvent(e)
                       THEN e.session ELSE threadID
        /\ claudeMessage' = IF e.result # None THEN e.result ELSE claudeMessage
        /\ messageNotified' = (messageNotified \/ e.result # None)
        /\ completeNotified' = (completeNotified \/ e.type = "result")
    /\ place' = "next"
    /\ UNCHANGED <<input, lineVars, codexMessage, broken>>

\* Mutant: a Codex message comes first.
MessageCodexFirst == IF codexMessage # None THEN codexMessage ELSE claudeMessage

\* What the parser returns.
Message == IF claudeMessage # None THEN claudeMessage ELSE codexMessage

Terminated == place = "done" /\ UNCHANGED vars

Next ==
    \/ InputEnds \/ FirstPart \/ MoreParts \/ EndsInsideLine \/ ReadFails
    \/ SkipLine \/ CodexEvent \/ ClaudeEvent
    \/ Terminated

Spec == Init /\ [][Next]_vars

-----------------------------------------------------------------------------
(* Properties *)

\* The lines handled so far, and the events among them that are short enough.
Handled == IF place \in {"more", "line"} THEN n - 1 ELSE n
Heard == { i \in 1 .. Handled : lines[i].size <= MaxBytes /\ lines[i].kind = "event" }
HeardEvent(P(_)) == \E i \in Heard : P(lines[i].event)

TypeOK ==
    /\ lines \in Seq(InputLines)
    /\ n \in 0 .. Len(lines)
    /\ place \in {"next", "more", "line", "done"}
    /\ left \in Nat /\ total \in 0 .. MaxBytes
    /\ {tooLong, messageNotified, completeNotified, broken} \subseteq BOOLEAN

\* The stream breaks off with a line that fills the last buffer and ends in no newline.
EndsWithBuffer ==
    ~terminated /\ \E parts \in 1 .. Last(lines).size : Last(lines).size = parts * Buffer

\* A line is kept whole exactly when it is no longer than the limit, however the
\* reader cuts it into parts and wherever the newline falls in its buffer; and unless
\* a read fails, every line is handled, but a last one that ends with the buffer.
LimitExact ==
    /\ place = "line" => /\ left = 0
                         /\ tooLong <=> Line.size > MaxBytes
                         /\ ~tooLong => total = Line.size
    /\ place = "done" /\ ~broken => n = Len(lines) \/ (n = Len(lines) - 1 /\ EndsWithBuffer)

\* A Claude result is a text; a Codex one is the text of an agent message.
GivesClaude(i) == IsClaude(lines[i].event) /\ lines[i].event.result # None
GivesCodex(i) ==
    LET e == lines[i].event IN
        IsCodex(e) /\ e.type = "item.completed" /\ e.item = "agent_message" /\ e.text # None
LatestOf(i, P(_)) == i \in Heard /\ P(i) /\ \A j \in Heard : P(j) => j <= i

\* The message is the latest that a line gave, a Claude result before any Codex
\* message; overlong and broken lines in between lose nothing else.
LatestMessage ==
    /\ \A i \in Heard : LatestOf(i, GivesClaude) => Message = lines[i].event.result
    /\ (\A i \in Heard : ~GivesClaude(i)) =>
           \A i \in Heard : LatestOf(i, GivesCodex) => Message = lines[i].event.text
    /\ (\A i \in Heard : ~GivesClaude(i) /\ ~GivesCodex(i)) => Message = None

\* The lifecycle takes a message notification for the promise of a message, and a
\* completion for the end of a turn: both are given exactly then.
NotificationsMean ==
    /\ messageNotified <=> Message # None
    /\ completeNotified <=>
           HeardEvent(LAMBDA e :
               \/ IsCodex(e) /\ e.type \in {"thread.completed", "turn.completed", "turn.failed"}
               \/ IsClaude(e) /\ e.type = "result")

\* The id a session is resumed with was announced by an event that speaks for the
\* whole session, never by one of a Claude subagent or tool.
ThreadAnnounced ==
    threadID # None =>
        HeardEvent(LAMBDA e :
            \/ e.thread = threadID /\ e.type \in {"thread.started", "thread.completed"}
            \/ e.session = threadID /\ e.type = "result"
            \/ e.session = threadID /\ e.type = "system" /\ e.subtype = "init")
=============================================================================
