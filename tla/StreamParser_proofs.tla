------------------------- MODULE StreamParser_proofs -------------------------
(* Theorems about StreamParser, for every set of lines, every length of the   *)
(* input, every size of the reader's buffer and every limit, wherever the     *)
(* stream breaks: which lines are kept, and what the parser returns for them. *)
EXTENDS StreamParser, SequenceTheorems, TLAPS

\* Inside a line its size is what was counted and what is left, until the limit is
\* passed, and then the line is indeed too long.
Reading ==
    /\ place \in {"more", "line"} => n > 0
    /\ place = "more" =>
           /\ left <= Line.size
           /\ ~tooLong => total = Line.size - left
           /\ tooLong => Line.size > MaxBytes

\* Inside a line the buffer was full each time.
Whole == place = "more" => \E parts \in Nat \ {0} : Line.size - left = parts * Buffer

\* A field holds what the latest of the lines that give it gave, or nothing.
ClaudeLatest ==
    \/ claudeMessage = None /\ \A i \in Heard : ~GivesClaude(i)
    \/ \E i \in Heard : /\ GivesClaude(i) /\ claudeMessage = lines[i].event.result
                        /\ \A j \in Heard : GivesClaude(j) => j <= i

CodexLatest ==
    \/ codexMessage = None /\ \A i \in Heard : ~GivesCodex(i)
    \/ \E i \in Heard : /\ GivesCodex(i) /\ codexMessage = lines[i].event.text
                        /\ \A j \in Heard : GivesCodex(j) => j <= i

Notified == messageNotified <=> claudeMessage # None \/ codexMessage # None

\* The line ends a turn.
Completes(i) ==
    LET e == lines[i].event IN
        \/ IsCodex(e) /\ e.type \in {"thread.completed", "turn.completed", "turn.failed"}
        \/ IsClaude(e) /\ e.type = "result"

Completed == completeNotified <=> \E i \in Heard : Completes(i)

IInv ==
    /\ TypeOK /\ Reading /\ Whole /\ LimitExact
    /\ ClaudeLatest /\ CodexLatest /\ Notified /\ Completed /\ ThreadAnnounced

-----------------------------------------------------------------------------
(* Helpers *)

\* The lines are among those enumerated, and the numbers of the machine are numbers.
LEMMA Numbers ==
    ASSUME TypeOK
    PROVE  /\ Buffer \in Nat /\ Buffer > 0 /\ MaxBytes \in Nat /\ MaxBytes > 0
           /\ n \in Nat /\ Len(lines) \in Nat /\ n <= Len(lines)
           /\ left \in Nat /\ total \in Nat /\ total <= MaxBytes
           /\ \A i \in 1 .. Len(lines) :
                  /\ lines[i] \in InputLines /\ lines[i].size \in Nat
  BY ParserAssumption DEF TypeOK

\* A part of a line is no more than is left of it, and all of it if it is no prefix.
LEMMA PartRight ==
    ASSUME Buffer \in Nat, Buffer > 0, NEW r \in Nat
    PROVE  /\ Part(r) \in Nat /\ Part(r) <= r /\ r - Part(r) \in Nat
           /\ ~IsPrefixPart(r) => Part(r) = r
           /\ IsPrefixPart(r) => Part(r) = Buffer
  BY DEF Part, IsPrefixPart

\* Full buffers add up.
LEMMA OneMore ==
    ASSUME Buffer \in Nat, NEW parts \in Nat \ {0}
    PROVE  parts + 1 \in Nat \ {0} /\ (parts + 1) * Buffer = parts * Buffer + Buffer
  OBVIOUS

LEMMA NoMoreThan ==
    ASSUME Buffer \in Nat, Buffer > 0, NEW parts \in Nat \ {0}
    PROVE  parts \in 1 .. parts * Buffer
  OBVIOUS

\* What was heard lies among the lines given out.
LEMMA HeardRight ==
    ASSUME TypeOK, Reading
    PROVE  /\ Handled \in 0 .. Len(lines)
           /\ \A i \in Heard : i \in 1 .. Len(lines) /\ i <= Handled
  BY Numbers DEF Handled, Heard, Reading, TypeOK

\* A step within a line leaves the results and what was heard as they are.
LEMMA NothingHeard ==
    ASSUME UNCHANGED <<lines, resultVars>>, Handled' = Handled,
           ClaudeLatest, CodexLatest, Notified, Completed, ThreadAnnounced
    PROVE  ClaudeLatest' /\ CodexLatest' /\ Notified' /\ Completed' /\ ThreadAnnounced'
PROOF
  <1>1. Heard' = Heard
    BY DEF Heard
  <1>2. ClaudeLatest' /\ CodexLatest'
    BY <1>1 DEF ClaudeLatest, CodexLatest, GivesClaude, GivesCodex, resultVars
  <1>3. Notified' /\ Completed'
    BY <1>1 DEF Notified, Completed, Completes, resultVars
  <1>4. ThreadAnnounced'
    BY <1>1 DEF ThreadAnnounced, HeardEvent, resultVars
  <1> QED
    BY <1>2, <1>3, <1>4

\* The step that handles a line adds it to what was heard, if it is short enough and
\* an event.
LEMMA LineHeard ==
    ASSUME TypeOK, Reading, LimitExact, place = "line", place' = "next",
           UNCHANGED <<input, lineVars>>
    PROVE  /\ Handled' = n /\ Handled = n - 1
           /\ n \in 1 .. Len(lines) /\ n \notin Heard
           /\ \A i \in Heard : i < n
           /\ Decodes => Heard' = Heard \cup {n}
           /\ ~Decodes => Heard' = Heard
PROOF
  <1>1. Handled' = n /\ Handled = n - 1
    BY DEF Handled, lineVars
  <1>2. n \in 1 .. Len(lines) /\ Len(lines) \in Nat
    BY Numbers DEF Reading, TypeOK
  <1>3. 1 .. n = (1 .. n - 1) \cup {n} /\ n \notin 1 .. n - 1
    BY <1>2
  <1>4. Heard' = {i \in 1 .. n : lines[i].size <= MaxBytes /\ lines[i].kind = "event"}
    BY <1>1 DEF Heard, input
  <1>5. Heard = {i \in 1 .. n - 1 : lines[i].size <= MaxBytes /\ lines[i].kind = "event"}
    BY <1>1 DEF Heard
  <1>6. Decodes <=> lines[n].size <= MaxBytes /\ lines[n].kind = "event"
    BY <1>2, Numbers DEF Decodes, LimitExact, Line
  <1>7. \A i \in Heard : i < n
    BY <1>2, <1>5
  <1>8. (Decodes => Heard' = Heard \cup {n}) /\ (~Decodes => Heard' = Heard)
    BY <1>3, <1>4, <1>5, <1>6
  <1> QED
    BY <1>1, <1>2, <1>7, <1>8

-----------------------------------------------------------------------------
(* The initial states *)

LEMMA InitInv == Init => IInv
PROOF
  <1> SUFFICES ASSUME Init PROVE IInv
    OBVIOUS
  <1>1. TypeOK
    <2>1. PICK k \in 0 .. MaxLines : lines \in [1 .. k -> InputLines]
      BY DEF Init
    <2>2. k \in Nat /\ lines \in Seq(InputLines) /\ Len(lines) \in Nat
      BY <2>1, ParserAssumption
    <2>3. {tooLong, messageNotified, completeNotified, broken} \subseteq BOOLEAN
      BY DEF Init
    <2> QED
      BY <2>2, <2>3, ParserAssumption DEF Init, TypeOK
  <1>2. Reading /\ Whole /\ LimitExact
    BY DEF Init, Reading, Whole, LimitExact
  <1>3. Heard = {}
    BY DEF Init, Heard, Handled
  <1>4. ClaudeLatest /\ CodexLatest /\ Notified /\ Completed /\ ThreadAnnounced
    BY <1>3 DEF Init, ClaudeLatest, CodexLatest, Notified, Completed, ThreadAnnounced
  <1> QED
    BY <1>1, <1>2, <1>4 DEF IInv

-----------------------------------------------------------------------------
(* readLineWithLimit *)

\* The first part of a line: too long only if the part alone passes the limit.
LEMMA FirstPartStep ==
    ASSUME IInv, FirstPart
    PROVE  IInv'
PROOF
  <1> DEFINE size == lines[n + 1].size
  <1>1. /\ n' = n + 1 /\ n' \in 1 .. Len(lines) /\ lines' = lines
        /\ place = "next" /\ Line'.size = size /\ size \in Nat
        /\ Buffer \in Nat /\ Buffer > 0 /\ MaxBytes \in Nat
    BY Numbers DEF IInv, FirstPart, input, Line
  <1>2. /\ left' = size - Part(size)
        /\ tooLong' = (Part(size) > MaxBytes)
        /\ total' = IF Part(size) > MaxBytes THEN 0 ELSE Part(size)
        /\ place' = IF IsPrefixPart(size) THEN "more" ELSE "line"
    BY DEF FirstPart
  <1> HIDE DEF size
  <1>3. /\ Part(size) \in Nat /\ Part(size) <= size /\ left' \in Nat
        /\ place' = "line" => Part(size) = size /\ left' = 0
        /\ place' = "more" => Part(size) = Buffer
        /\ place' \in {"more", "line"}
    <2>1. /\ Part(size) \in Nat /\ Part(size) <= size /\ size - Part(size) \in Nat
          /\ ~IsPrefixPart(size) => Part(size) = size
          /\ IsPrefixPart(size) => Part(size) = Buffer
      BY <1>1, PartRight
    <2>2. /\ place' = "line" => ~IsPrefixPart(size)
          /\ place' = "more" => IsPrefixPart(size)
          /\ place' \in {"more", "line"}
      BY <1>2
    <2> QED
      BY <1>1, <1>2, <2>1, <2>2
  <1>4. TypeOK'
    <2>1. {tooLong', messageNotified', completeNotified', broken'} \subseteq BOOLEAN
      BY <1>2 DEF IInv, TypeOK, FirstPart, resultVars
    <2>2. total' \in 0 .. MaxBytes
      BY <1>1, <1>2, <1>3
    <2> QED
      BY <1>1, <1>2, <1>3, <2>1, <2>2 DEF IInv, TypeOK
  <1>5. Reading'
    <2>1. tooLong' <=> Part(size) > MaxBytes
      BY <1>2
    <2>2. n' > 0
      BY <1>1, Numbers DEF IInv
    <2>3. /\ left' <= size
          /\ ~tooLong' => total' = size - left'
          /\ tooLong' => size > MaxBytes
      BY <1>1, <1>2, <1>3, <2>1
    <2> QED
      BY <1>1, <2>2, <2>3 DEF Reading
  <1>6. LimitExact'
    <2>1. place' # "done"
      BY <1>3
    <2> QED
      BY <1>1, <1>2, <1>3, <2>1 DEF LimitExact
  <1>7. Whole'
    <2>1. ASSUME place' = "more"
          PROVE  size - left' = 1 * Buffer
      BY <1>1, <1>2, <1>3, <2>1
    <2>2. 1 \in Nat \ {0}
      OBVIOUS
    <2> QED
      BY <1>1, <2>1, <2>2 DEF Whole
  <1>8. Handled' = Handled /\ UNCHANGED <<lines, resultVars>>
    BY <1>1, <1>2, Numbers DEF FirstPart, IInv, Handled, input
  <1> QED
    BY <1>4, <1>5, <1>6, <1>7, <1>8, NothingHeard DEF IInv

\* The count of the parts is exact until the limit is passed.
LEMMA MorePartsStep ==
    ASSUME IInv, MoreParts
    PROVE  IInv'
PROOF
  <1> DEFINE size == Line.size
  <1>1. /\ place = "more" /\ n' = n /\ n \in 1 .. Len(lines) /\ lines' = lines
        /\ Line'.size = size /\ size \in Nat /\ left \in Nat /\ total \in Nat
        /\ Buffer \in Nat /\ Buffer > 0 /\ MaxBytes \in Nat
        /\ total <= MaxBytes /\ left <= size
        /\ ~tooLong => total = size - left
        /\ tooLong => size > MaxBytes
    BY Numbers DEF IInv, MoreParts, input, Line, Reading
  <1>2. /\ left' = left - Part(left)
        /\ IF tooLong \/ total + Part(left) > MaxBytes
           THEN tooLong' = TRUE /\ UNCHANGED total
           ELSE total' = total + Part(left) /\ UNCHANGED tooLong
        /\ place' = IF IsPrefixPart(left) THEN "more" ELSE "line"
    BY DEF MoreParts
  <1> HIDE DEF size
  <1>3. /\ Part(left) \in Nat /\ Part(left) <= left /\ left' \in Nat /\ left' <= left
        /\ place' = "line" => Part(left) = left /\ left' = 0
        /\ place' = "more" => Part(left) = Buffer
        /\ place' \in {"more", "line"}
    <2>1. /\ Part(left) \in Nat /\ Part(left) <= left /\ left - Part(left) \in Nat
          /\ ~IsPrefixPart(left) => Part(left) = left
          /\ IsPrefixPart(left) => Part(left) = Buffer
      BY <1>1, PartRight
    <2>2. /\ place' = "line" => ~IsPrefixPart(left)
          /\ place' = "more" => IsPrefixPart(left)
          /\ place' \in {"more", "line"}
      BY <1>2
    <2> QED
      BY <1>1, <1>2, <2>1, <2>2
  <1>4. /\ total' \in Nat /\ total' <= MaxBytes
        /\ ~tooLong' => total' = size - left'
        /\ tooLong' => size > MaxBytes
    BY <1>1, <1>2, <1>3
  <1>5. TypeOK'
    <2>1. {tooLong', messageNotified', completeNotified', broken'} \subseteq BOOLEAN
      BY <1>2 DEF IInv, TypeOK, MoreParts, resultVars
    <2> QED
      BY <1>1, <1>2, <1>3, <1>4, <2>1 DEF IInv, TypeOK
  <1>6. Reading'
    BY <1>1, <1>2, <1>3, <1>4 DEF Reading
  <1>7. LimitExact'
    <2>1. place' # "done"
      BY <1>3
    <2>2. ASSUME place' = "line"
          PROVE  left' = 0 /\ (tooLong' <=> size > MaxBytes) /\ (~tooLong' => total' = size)
      BY <1>1, <1>3, <1>4, <2>2
    <2> QED
      BY <1>1, <2>1, <2>2 DEF LimitExact
  <1>8. Whole'
    <2>1. PICK parts \in Nat \ {0} : size - left = parts * Buffer
      BY <1>1 DEF IInv, Whole, size
    <2>2. parts * Buffer \in Int /\ (parts + 1) * Buffer = parts * Buffer + Buffer
      BY <1>1, OneMore
    <2>3. ASSUME place' = "more"
          PROVE  size - left' = (parts + 1) * Buffer
      BY <1>1, <1>2, <1>3, <2>1, <2>2, <2>3
    <2>4. parts + 1 \in Nat \ {0}
      OBVIOUS
    <2> QED
      BY <1>1, <2>3, <2>4 DEF Whole
  <1>9. Handled' = Handled /\ UNCHANGED <<lines, resultVars>>
    BY <1>1, <1>2 DEF MoreParts, Handled
  <1> QED
    BY <1>5, <1>6, <1>7, <1>8, <1>9, NothingHeard DEF IInv

\* The end of the input, also in the middle of a line, and a read that fails: the
\* line under way is given back.
LEMMA EndStep ==
    ASSUME IInv, InputEnds \/ EndsInsideLine \/ ReadFails
    PROVE  IInv'
PROOF
  <1>1. /\ place \in {"next", "more"} /\ place' = "done"
        /\ UNCHANGED <<lines, left, total, tooLong, resultVars>>
        /\ n' = IF place = "more" THEN n - 1 ELSE n
        /\ n' \in 0 .. Len(lines)
    BY Numbers
    DEF IInv, Reading, InputEnds, EndsInsideLine, ReadFails, input, lineVars
  <1>2. broken' \in BOOLEAN
    BY DEF IInv, TypeOK, InputEnds, EndsInsideLine, ReadFails
  <1>3. TypeOK'
    <2>1. {tooLong', messageNotified', completeNotified', broken'} \subseteq BOOLEAN
      BY <1>1, <1>2 DEF IInv, TypeOK, resultVars
    <2> QED
      BY <1>1, <2>1 DEF IInv, TypeOK
  <1>4. Reading' /\ Whole'
    BY <1>1 DEF Reading, Whole
  <1>5. LimitExact'
    <2>1. CASE InputEnds
      BY <1>1, <2>1 DEF LimitExact, InputEnds
    <2>2. CASE ReadFails
      BY <1>1, <2>2 DEF LimitExact, ReadFails
    <2>3. CASE EndsInsideLine
      <3>1. /\ place = "more" /\ left = 0 /\ n = Len(lines) /\ ~terminated
            /\ terminated' = terminated
        BY <2>3 DEF EndsInsideLine, AtEnd, input
      <3>2. /\ n \in 1 .. Len(lines) /\ Line.size \in Nat /\ Last(lines) = Line
            /\ Buffer \in Nat /\ Buffer > 0
        BY <3>1, Numbers DEF IInv, Reading, Line, Last
      <3>3. PICK parts \in Nat \ {0} : Line.size - left = parts * Buffer
        BY <3>1 DEF IInv, Whole
      <3>4. Line.size = parts * Buffer /\ parts \in 1 .. Line.size
        BY <3>1, <3>2, <3>3, NoMoreThan
      <3>5. EndsWithBuffer'
        BY <1>1, <3>1, <3>2, <3>4 DEF EndsWithBuffer
      <3> QED
        BY <1>1, <3>1, <3>5 DEF LimitExact
    <2> QED
      BY <2>1, <2>2, <2>3
  <1>6. Handled' = Handled
    BY <1>1 DEF Handled
  <1> QED
    BY <1>1, <1>3, <1>4, <1>5, <1>6, NothingHeard DEF IInv

-----------------------------------------------------------------------------
(* The events *)

\* What every step that handles a line shares.
LEMMA LineFrame ==
    ASSUME IInv, place = "line", place' = "next",
           UNCHANGED <<input, lineVars, broken>>,
           messageNotified' \in BOOLEAN, completeNotified' \in BOOLEAN
    PROVE  TypeOK' /\ Reading' /\ Whole' /\ LimitExact'
PROOF
  <1>1. TypeOK'
    <2>1. {tooLong', messageNotified', completeNotified', broken'} \subseteq BOOLEAN
      BY DEF IInv, TypeOK, lineVars
    <2> QED
      BY <2>1 DEF IInv, TypeOK, input, lineVars
  <1>2. Reading' /\ Whole' /\ LimitExact'
    BY DEF Reading, Whole, LimitExact
  <1> QED
    BY <1>1, <1>2

\* A line gives a Claude text only as a Claude event and a Codex text only as a Codex
\* one, and no event is both.
LEMMA OneKind ==
    ASSUME NEW i
    PROVE  /\ GivesClaude(i) => IsClaude(lines[i].event) /\ ~IsCodex(lines[i].event)
           /\ GivesCodex(i) => IsCodex(lines[i].event) /\ ~IsClaude(lines[i].event)
  BY DEF GivesClaude, GivesCodex, IsClaude

LEMMA SkipLineStep ==
    ASSUME IInv, SkipLine
    PROVE  IInv'
PROOF
  <1>1. /\ place = "line" /\ place' = "next"
        /\ Decodes => ~IsCodex(Line.event) /\ ~IsClaude(Line.event)
        /\ UNCHANGED <<input, lineVars, resultVars, broken>>
    BY DEF SkipLine
  <1>2. TypeOK' /\ Reading' /\ Whole' /\ LimitExact'
    BY <1>1, LineFrame DEF IInv, TypeOK, resultVars
  <1>3. /\ lines' = lines
        /\ Heard \subseteq Heard'
        /\ \A i \in Heard' : i \in Heard \/ (~IsCodex(lines[i].event) /\ ~IsClaude(lines[i].event))
    BY <1>1, LineHeard DEF IInv, Line, input
  <1>4. ClaudeLatest' /\ CodexLatest'
    BY <1>1, <1>3 DEF IInv, ClaudeLatest, CodexLatest, GivesClaude, GivesCodex, resultVars
  <1>5. Notified' /\ Completed'
    BY <1>1, <1>3 DEF IInv, Notified, Completed, Completes, resultVars
  <1>6. ThreadAnnounced'
    BY <1>1, <1>3 DEF IInv, ThreadAnnounced, HeardEvent, resultVars
  <1> QED
    BY <1>2, <1>4, <1>5, <1>6 DEF IInv

LEMMA CodexEventStep ==
    ASSUME IInv, CodexEvent
    PROVE  IInv'
PROOF
  <1> DEFINE e == Line.event
             speaks == e.type = "item.completed" /\ e.item = "agent_message" /\ e.text # None
             ends == e.type \in {"thread.completed", "turn.completed", "turn.failed"}
  <1>1. /\ place = "line" /\ place' = "next" /\ Decodes
        /\ IsCodex(e) /\ ~IsClaude(e)
        /\ UNCHANGED <<input, lineVars, claudeMessage, broken>>
        /\ lines' = lines /\ e = lines[n].event
    BY DEF CodexEvent, IsClaude, Line, input
  <1>2. /\ threadID' = CASE e.type = "thread.started" -> e.thread
                         [] e.type = "thread.completed" /\ threadID = None -> e.thread
                         [] OTHER -> threadID
        /\ codexMessage' = IF speaks THEN e.text ELSE codexMessage
        /\ messageNotified' = (messageNotified \/ speaks)
        /\ completeNotified' = (completeNotified \/ ends)
    BY DEF CodexEvent
  <1>3. TypeOK' /\ Reading' /\ Whole' /\ LimitExact'
    <2>1. messageNotified' \in BOOLEAN /\ completeNotified' \in BOOLEAN
      BY <1>2 DEF IInv, TypeOK
    <2> QED
      BY <1>1, <2>1, LineFrame
  <1>4. /\ Heard' = Heard \cup {n} /\ n \in Int
        /\ \A i \in Heard : i \in Int /\ i < n
    <2>1. \A i \in Heard : i \in Int
      BY HeardRight DEF IInv
    <2> QED
      BY <1>1, <2>1, LineHeard DEF IInv
  <1>5. GivesCodex(n) <=> speaks
    BY <1>1 DEF GivesCodex
  <1>6. ~GivesClaude(n)
    BY <1>1 DEF GivesClaude
  <1>7. Completes(n) <=> ends
    BY <1>1 DEF Completes
  <1>8. \A i : /\ GivesCodex(i)' <=> GivesCodex(i)
               /\ GivesClaude(i)' <=> GivesClaude(i)
               /\ Completes(i)' <=> Completes(i)
    BY <1>1 DEF GivesCodex, GivesClaude, Completes
  <1>9. ThreadAnnounced'
    <2> SUFFICES ASSUME threadID' # None
                 PROVE  \E i \in Heard' : LET f == lines[i].event IN
                            \/ f.thread = threadID' /\ f.type \in {"thread.started", "thread.completed"}
                            \/ f.session = threadID' /\ f.type = "result"
                            \/ f.session = threadID' /\ f.type = "system" /\ f.subtype = "init"
      BY <1>1 DEF ThreadAnnounced, HeardEvent
    <2>1. CASE e.type \in {"thread.started", "thread.completed"} /\ threadID' = e.thread
      BY <1>1, <1>4, <2>1
    <2>2. CASE threadID' = threadID
      BY <1>4, <2>2 DEF IInv, ThreadAnnounced, HeardEvent
    <2> QED
      BY <1>2, <2>1, <2>2
  <1> HIDE DEF e, speaks, ends
  <1>10. ClaudeLatest'
    BY <1>1, <1>4, <1>6, <1>8 DEF IInv, ClaudeLatest
  <1>11. CodexLatest'
    <2>1. CASE speaks
      <3>1. codexMessage' = lines[n].event.text
        BY <1>1, <1>2, <2>1 DEF e
      <3>2. \A j \in Heard' : j <= n
        BY <1>4
      <3> QED
        BY <1>1, <1>4, <1>5, <1>8, <2>1, <3>1, <3>2 DEF CodexLatest
    <2>2. CASE ~speaks
      BY <1>1, <1>2, <1>4, <1>5, <1>8, <2>2 DEF IInv, CodexLatest
    <2> QED
      BY <2>1, <2>2
  <1>12. Notified'
    BY <1>1, <1>2 DEF IInv, Notified, speaks
  <1>13. Completed'
    BY <1>2, <1>4, <1>7, <1>8 DEF IInv, Completed
  <1> QED
    BY <1>3, <1>9, <1>10, <1>11, <1>12, <1>13 DEF IInv

LEMMA ClaudeEventStep ==
    ASSUME IInv, ClaudeEvent
    PROVE  IInv'
PROOF
  <1> DEFINE e == Line.event
             announces == e.session # None /\ IsAuthoritativeClaudeSessionEvent(e)
  <1>1. /\ place = "line" /\ place' = "next" /\ Decodes
        /\ IsClaude(e) /\ ~IsCodex(e)
        /\ UNCHANGED <<input, lineVars, codexMessage, broken>>
        /\ lines' = lines /\ e = lines[n].event
    BY DEF ClaudeEvent, IsClaude, Line, input
  <1>2. /\ threadID' = IF announces THEN e.session ELSE threadID
        /\ claudeMessage' = IF e.result # None THEN e.result ELSE claudeMessage
        /\ messageNotified' = (messageNotified \/ e.result # None)
        /\ completeNotified' = (completeNotified \/ e.type = "result")
    BY DEF ClaudeEvent
  <1>3. TypeOK' /\ Reading' /\ Whole' /\ LimitExact'
    <2>1. messageNotified' \in BOOLEAN /\ completeNotified' \in BOOLEAN
      BY <1>2 DEF IInv, TypeOK
    <2> QED
      BY <1>1, <2>1, LineFrame
  <1>4. /\ Heard' = Heard \cup {n} /\ n \in Int
        /\ \A i \in Heard : i \in Int /\ i < n
    <2>1. \A i \in Heard : i \in Int
      BY HeardRight DEF IInv
    <2> QED
      BY <1>1, <2>1, LineHeard DEF IInv
  <1>5. GivesClaude(n) <=> e.result # None
    BY <1>1 DEF GivesClaude
  <1>6. ~GivesCodex(n)
    BY <1>1 DEF GivesCodex
  <1>7. Completes(n) <=> e.type = "result"
    BY <1>1 DEF Completes
  <1>8. \A i : /\ GivesCodex(i)' <=> GivesCodex(i)
               /\ GivesClaude(i)' <=> GivesClaude(i)
               /\ Completes(i)' <=> Completes(i)
    BY <1>1 DEF GivesCodex, GivesClaude, Completes
  <1>9. ThreadAnnounced'
    <2> SUFFICES ASSUME threadID' # None
                 PROVE  \E i \in Heard' : LET f == lines[i].event IN
                            \/ f.thread = threadID' /\ f.type \in {"thread.started", "thread.completed"}
                            \/ f.session = threadID' /\ f.type = "result"
                            \/ f.session = threadID' /\ f.type = "system" /\ f.subtype = "init"
      BY <1>1 DEF ThreadAnnounced, HeardEvent
    <2>1. CASE announces
      BY <1>1, <1>2, <1>4, <2>1 DEF IsAuthoritativeClaudeSessionEvent
    <2>2. CASE threadID' = threadID
      BY <1>4, <2>2 DEF IInv, ThreadAnnounced, HeardEvent
    <2> QED
      BY <1>2, <2>1, <2>2
  <1> HIDE DEF e, announces
  <1>10. CodexLatest'
    BY <1>1, <1>4, <1>6, <1>8 DEF IInv, CodexLatest
  <1>11. ClaudeLatest'
    <2>1. CASE e.result # None
      <3>1. claudeMessage' = lines[n].event.result
        BY <1>1, <1>2, <2>1 DEF e
      <3>2. \A j \in Heard' : j <= n
        BY <1>4
      <3> QED
        BY <1>1, <1>4, <1>5, <1>8, <2>1, <3>1, <3>2 DEF ClaudeLatest
    <2>2. CASE e.result = None
      BY <1>1, <1>2, <1>4, <1>5, <1>8, <2>2 DEF IInv, ClaudeLatest
    <2> QED
      BY <2>1, <2>2
  <1>12. Notified'
    BY <1>1, <1>2 DEF IInv, Notified
  <1>13. Completed'
    BY <1>2, <1>4, <1>7, <1>8 DEF IInv, Completed
  <1> QED
    BY <1>3, <1>9, <1>10, <1>11, <1>12, <1>13 DEF IInv

-----------------------------------------------------------------------------
(* The theorems *)

\* Every read and every event keeps the account of the line under way and of the lines
\* before it.
THEOREM StepInv == IInv /\ [Next]_vars => IInv'
PROOF
  <1> SUFFICES ASSUME IInv, [Next]_vars PROVE IInv'
    OBVIOUS
  <1>1. CASE InputEnds \/ EndsInsideLine \/ ReadFails
    BY <1>1, EndStep
  <1>2. CASE FirstPart
    BY <1>2, FirstPartStep
  <1>3. CASE MoreParts
    BY <1>3, MorePartsStep
  <1>4. CASE SkipLine
    BY <1>4, SkipLineStep
  <1>5. CASE CodexEvent
    BY <1>5, CodexEventStep
  <1>6. CASE ClaudeEvent
    BY <1>6, ClaudeEventStep
  <1>7. CASE UNCHANGED vars
    <2>1. TypeOK' /\ Reading' /\ Whole' /\ LimitExact'
      BY <1>7 DEF IInv, TypeOK, Reading, Whole, LimitExact, EndsWithBuffer, Line, vars
    <2>2. Handled' = Handled /\ UNCHANGED <<lines, resultVars>>
      BY <1>7 DEF Handled, vars, resultVars
    <2> QED
      BY <2>1, <2>2, NothingHeard DEF IInv
  <1> QED
    BY <1>1, <1>2, <1>3, <1>4, <1>5, <1>6, <1>7 DEF Next, Terminated

\* The inductive invariant holds throughout.
THEOREM Invariance == Spec => []IInv
  BY InitInv, StepInv, PTL DEF Spec

\* Whatever the sizes of the reader's buffer, of the limit and of the lines, a line is
\* kept whole exactly when it is no longer than the limit, and while no read fails the
\* only line that is not handled is a last one without a newline that fills the buffer
\* to its end (readLineWithLimit in parser.go).
THEOREM LimitIsExact == Spec => []LimitExact
PROOF
  <1>1. IInv => LimitExact
    BY DEF IInv
  <1> QED
    BY <1>1, Invariance, PTL

\* What the parser returns is what the latest line gave, a Claude result before any
\* Codex message, whatever lies between them.
THEOREM MessageIsLatest == Spec => []LatestMessage
PROOF
  <1>1. IInv => LatestMessage
    <2> SUFFICES ASSUME IInv PROVE LatestMessage
      OBVIOUS
    <2>1. \A i \in Heard : i \in Int
      BY HeardRight DEF IInv
    <2>2. (\A i \in Heard : ~GivesClaude(i)) <=> claudeMessage = None
      BY DEF IInv, ClaudeLatest, GivesClaude
    <2>3. ASSUME NEW i \in Heard, LatestOf(i, GivesClaude)
          PROVE  Message = lines[i].event.result
      <3>1. /\ GivesClaude(i) /\ lines[i].event.result # None
            /\ \A j \in Heard : GivesClaude(j) => j <= i
        BY <2>3 DEF LatestOf, GivesClaude
      <3>2. PICK k \in Heard : /\ GivesClaude(k) /\ claudeMessage = lines[k].event.result
                               /\ \A j \in Heard : GivesClaude(j) => j <= k
        BY <3>1 DEF IInv, ClaudeLatest
      <3>3. k = i
        BY <2>1, <3>1, <3>2
      <3> QED
        BY <3>1, <3>2, <3>3 DEF Message
    <2>4. ASSUME \A i \in Heard : ~GivesClaude(i),
                 NEW i \in Heard, LatestOf(i, GivesCodex)
          PROVE  Message = lines[i].event.text
      <3>1. GivesCodex(i) /\ \A j \in Heard : GivesCodex(j) => j <= i
        BY <2>4 DEF LatestOf
      <3>2. PICK k \in Heard : /\ GivesCodex(k) /\ codexMessage = lines[k].event.text
                               /\ \A j \in Heard : GivesCodex(j) => j <= k
        BY <3>1 DEF IInv, CodexLatest
      <3>3. k = i
        BY <2>1, <3>1, <3>2
      <3> QED
        BY <2>2, <2>4, <3>2, <3>3 DEF Message
    <2>5. ASSUME \A i \in Heard : ~GivesClaude(i) /\ ~GivesCodex(i)
          PROVE  Message = None
      BY <2>2, <2>5 DEF IInv, CodexLatest, Message
    <2> QED
      BY <2>3, <2>4, <2>5 DEF LatestMessage
  <1> QED
    BY <1>1, Invariance, PTL

\* A message has been notified exactly when there is one, and a completion exactly when
\* an event ended a turn.
THEOREM NotificationsAreMeant == Spec => []NotificationsMean
PROOF
  <1>1. IInv => NotificationsMean
    <2> SUFFICES ASSUME IInv PROVE NotificationsMean
      OBVIOUS
    <2>1. messageNotified <=> Message # None
      BY DEF IInv, Notified, Message
    <2>2. completeNotified <=> \E i \in Heard : Completes(i)
      BY DEF IInv, Completed
    <2> QED
      BY <2>1, <2>2 DEF NotificationsMean, HeardEvent, Completes
  <1> QED
    BY <1>1, Invariance, PTL

\* The id that resumes a session was announced for the whole session.
THEOREM ThreadIsAnnounced == Spec => []ThreadAnnounced
PROOF
  <1>1. IInv => ThreadAnnounced
    BY DEF IInv
  <1> QED
    BY <1>1, Invariance, PTL
=============================================================================
