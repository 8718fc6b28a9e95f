---------------------------- MODULE Logger_proofs ----------------------------
(* Theorems about Logger, for every set of callers, however large, every     *)
(* capacity of the channel and every number of entries: what the WaitGroup   *)
(* counts, what a Flush and a Close leave on disk, and when the WaitGroup    *)
(* may be reused.                                                            *)
EXTENDS Logger, FiniteSetTheorems, SequenceTheorems, TLAPS

\* The callers between the registration of an entry and its send.
Senders == {g \in Caller : pc[g] = "send"}

Counts == IsFiniteSet(Senders) /\ PendingCounts

\* No entry is lost or reordered on its way from the channel to the file.
Conserved == accepted = (disk \o buffer) \o ch

\* flushMu is held by the one caller that is in Flush.
Locked ==
    \A g \in Caller : pc[g] \in {"flushWait", "flushSend", "flushAck"} <=> flushMu = g

\* Once its wait is over a Flush, which keeps others out, finds nothing pending.
Settled ==
    \A g \in Caller :
        /\ pc[g] = "flushWait" /\ waiter[g] # "waiting" => pending = 0
        /\ pc[g] \in {"flushSend", "flushAck"} => pending = 0

\* A request that is not stale, and an answer, belong to the Flush under way.
Requests ==
    /\ acked \/ flushReq = "live" => \E g \in Caller : pc[g] = "flushAck"
    /\ acked => flushReq # "live" /\ disk = accepted

\* A wait nobody is waiting for was left by a Flush that gave up.
Waits == \A g \in Caller : waiter[g] # "none" => pc[g] = "flushWait" \/ abandoned

\* Close runs once: done is closed by the one caller that is closing.
Closes ==
    /\ once = "none" => ~done
    /\ \A g \in Caller : pc[g] \in {"closing", "closeWait"} => once # "none"
    /\ \A g \in Caller : pc[g] = "closing" => ~done
    /\ \A g, h \in Caller : pc[g] = "closing" /\ pc[h] = "closing" => g = h
    /\ worker # "running" => done

\* What was accepted before done was closed is on disk when the worker stops.
Stops ==
    /\ atClose <= Len(accepted)
    /\ worker = "stopped" => atClose <= Len(disk)

IInv ==
    /\ TypeOK /\ Counts /\ Conserved /\ Locked /\ Settled /\ Requests /\ Waits
    /\ WaitGroupNotReused /\ Closes /\ Stops /\ RecentErrors

-----------------------------------------------------------------------------
(* Helpers *)

\* How many callers are about to send.
LEMMA SendersCount ==
    ASSUME TypeOK, Counts
    PROVE  /\ Cardinality(Senders) \in Nat /\ Len(ch) \in Nat
           /\ pending = Cardinality(Senders) + Len(ch)
           /\ \A g \in Caller : pc[g] = "send" => Cardinality(Senders) > 0
           /\ ch # <<>> => Len(ch) > 0
           /\ pending = 0 => ch = <<>> /\ \A g \in Caller : pc[g] # "send"
  <1>1. IsFiniteSet(Senders) /\ Cardinality(Senders) \in Nat
    BY FS_CardinalityType DEF Counts
  <1>2. Len(ch) \in Nat /\ (ch # <<>> => Len(ch) > 0)
    BY DEF TypeOK
  <1>3. ASSUME NEW g \in Caller, pc[g] = "send"
        PROVE  Cardinality(Senders) > 0
    <2>1. Senders # {}
      BY <1>3 DEF Senders
    <2> QED
      BY <1>1, <2>1, FS_EmptySet
  <1>4. pending = Cardinality(Senders) + Len(ch)
    BY DEF Counts, PendingCounts, Senders
  <1> QED
    BY <1>1, <1>2, <1>3, <1>4

-----------------------------------------------------------------------------
(* The invariant *)

\* What TypeOK says of the truth values, and of all the rest.
Truths ==
    /\ closed \in BOOLEAN /\ done \in BOOLEAN /\ acked \in BOOLEAN
    /\ abandoned \in BOOLEAN /\ panicked \in BOOLEAN

Data ==
    /\ pc \in [Caller -> {"idle", "log", "send", "flushWait", "flushSend", "flushAck",
                          "closing", "closeWait"}]
    /\ once \in {"none", "running", "done"}
    /\ flushMu \in Caller \cup {Nobody}
    /\ pending \in Nat
    /\ waiter \in [Caller -> {"none", "waiting", "released"}]
    /\ ch \in Seq(Entry) /\ Len(ch) <= Capacity
    /\ flushReq \in {"none", "live", "stale"}
    /\ worker \in {"running", "draining", "stopped"}
    /\ buffer \in Seq(Entry) /\ disk \in Seq(Entry) /\ accepted \in Seq(Entry)
    /\ errorEntries \in Seq(Entry) /\ Len(errorEntries) <= ErrorLimit
    /\ atClose \in Nat

LEMMA TypeParts == TypeOK <=> Truths /\ Data
  BY DEF TypeOK, Truths, Data

THEOREM InitInv == Init => IInv
  <1> SUFFICES ASSUME Init PROVE IInv
    OBVIOUS
  <1>1. Truths
    BY Zenon DEF Init, Truths
  <1>2. Data
    BY LoggerAssumption DEF Init, Data
  <1>3. Senders = {}
    BY DEF Init, Senders
  <1>4. Counts
    <2>1. IsFiniteSet(Senders) /\ Cardinality(Senders) = 0
      BY <1>3, FS_EmptySet
    <2>2. Len(ch) = 0 /\ pending = 0
      BY DEF Init
    <2> QED
      BY <2>1, <2>2 DEF Counts, PendingCounts, Senders
  <1>5. Conserved
    BY ConcatEmptySeq, EmptySeq DEF Init, Conserved
  <1>6. Locked /\ Settled /\ Waits /\ WaitGroupNotReused
    BY LoggerAssumption DEF Init, Locked, Settled, Waits, WaitGroupNotReused
  <1>7. Requests /\ Closes /\ Stops
    BY DEF Init, Requests, Closes, Stops
  <1>8. RecentErrors
    <2>1. disk \o buffer = <<>> /\ errorEntries = <<>>
      BY ConcatEmptySeq, EmptySeq DEF Init
    <2>2. {i \in DOMAIN <<>> : <<>>[i].isError} = {}
      OBVIOUS
    <2>3. Cardinality({}) = 0 /\ 0 < ErrorLimit
      BY FS_EmptySet, LoggerAssumption
    <2>4. Len(errorEntries) = 0
      BY <2>1
    <2> QED
      BY <2>1, <2>2, <2>3, <2>4 DEF RecentErrors
  <1> QED
    BY <1>1, <1>2, <1>4, <1>5, <1>6, <1>7, <1>8, TypeParts DEF IInv

\* A step leaves a truth value a truth value.
LEMMA TruthsStep ==
    ASSUME Truths, [Next]_vars
    PROVE  Truths'
  <1> USE DEF Truths, closeVars, fileVars, flushVars, sendVars
  <1>1. CASE WriteEntry
    BY <1>1, Zenon DEF WriteEntry
  <1>2. CASE Tick
    BY <1>2, Zenon DEF Tick
  <1>3. CASE ServeFlush
    BY <1>3, Zenon DEF ServeFlush
  <1>4. CASE SeeDone
    BY <1>4, Zenon DEF SeeDone
  <1>5. CASE Finalize
    BY <1>5, Zenon DEF Finalize
  <1>6. ASSUME NEW g \in Caller, Log(g)
        PROVE  Truths'
    BY <1>6, Zenon DEF Log
  <1>7. ASSUME NEW g \in Caller, Register(g)
        PROVE  Truths'
    BY <1>7, Zenon DEF Register
  <1>8. ASSUME NEW g \in Caller, SendEntry(g)
        PROVE  Truths'
    BY <1>8, Zenon DEF SendEntry
  <1>9. ASSUME NEW g \in Caller, DropEntry(g)
        PROVE  Truths'
    BY <1>9, Zenon DEF DropEntry
  <1>10. ASSUME NEW g \in Caller, FlushLock(g)
        PROVE  Truths'
    BY <1>10, Zenon DEF FlushLock
  <1>11. ASSUME NEW g \in Caller, FlushPendingDone(g)
        PROVE  Truths'
    BY <1>11, Zenon DEF FlushPendingDone
  <1>12. ASSUME NEW g \in Caller, FlushTimesOut(g)
        PROVE  Truths'
    BY <1>12, Zenon DEF FlushTimesOut
  <1>13. ASSUME NEW g \in Caller, FlushRequest(g)
        PROVE  Truths'
    BY <1>13, Zenon DEF FlushRequest
  <1>14. ASSUME NEW g \in Caller, FlushGivesUp(g)
        PROVE  Truths'
    BY <1>14, Zenon DEF FlushGivesUp
  <1>15. ASSUME NEW g \in Caller, FlushAcked(g)
        PROVE  Truths'
    BY <1>15, Zenon DEF FlushAcked
  <1>16. ASSUME NEW g \in Caller, CloseOnce(g)
        PROVE  Truths'
    BY <1>16, Zenon DEF CloseOnce
  <1>17. ASSUME NEW g \in Caller, CloseDone(g)
        PROVE  Truths'
    BY <1>17, Zenon DEF CloseDone
  <1>18. ASSUME NEW g \in Caller, CloseReturns(g)
        PROVE  Truths'
    BY <1>18, Zenon DEF CloseReturns
  <1>19. ASSUME NEW g \in Caller, WaitReturns(g)
        PROVE  Truths'
    BY <1>19, Zenon DEF WaitReturns
  <1>20. CASE UNCHANGED vars
    BY <1>20, Zenon DEF vars
  <1> QED
    BY <1>1, <1>2, <1>3, <1>4, <1>5, <1>6, <1>7, <1>8, <1>9, <1>10, <1>11, <1>12, <1>13, <1>14, <1>15, <1>16, <1>17, <1>18, <1>19, <1>20
       DEF Next, Worker, Call, Flush

LEMMA DataStep ==
    ASSUME TypeOK, Counts, [Next]_vars
    PROVE  Data'
  <1>0. /\ Data
        /\ ch # <<>> => pending > 0
        /\ \A g \in Caller : pc[g] = "send" => pending > 0
    BY TypeParts, SendersCount
  <1> USE DEF Data, closeVars, fileVars, flushVars, sendVars
  <1>1. CASE WriteEntry
    <2>1. ch \in Seq(Entry) /\ ch # <<>> /\ Head(ch) \in Entry
      BY <1>0, <1>1 DEF WriteEntry
    <2>2. ch' \in Seq(Entry) /\ Len(ch') <= Capacity
      BY <1>0, <1>1, <2>1, LoggerAssumption DEF WriteEntry
    <2>3. buffer' \in Seq(Entry)
      BY <1>0, <1>1, <2>1 DEF WriteEntry
    <2>4. errorEntries' \in Seq(Entry) /\ Len(errorEntries') <= ErrorLimit
      <3>1. CacheError(Head(ch)) \in Seq(Entry) /\ Len(CacheError(Head(ch))) <= ErrorLimit
        <4> DEFINE longer == Append(errorEntries, Head(ch))
        <4>0. errorEntries \in Seq(Entry) /\ Len(errorEntries) \in Nat
          BY <1>0
        <4>1. longer \in Seq(Entry) /\ Len(longer) = Len(errorEntries) + 1
          BY <2>1, <4>0
        <4>2. Tail(longer) \in Seq(Entry) /\ Len(Tail(longer)) = Len(errorEntries)
          BY <4>0, <4>1, EmptySeq
        <4> QED
          BY <1>0, <4>0, <4>1, <4>2, LoggerAssumption DEF CacheError
      <3> QED
        BY <1>0, <1>1, <3>1 DEF WriteEntry
    <2>5. pending' \in Nat /\ waiter' \in [Caller -> {"none", "waiting", "released"}]
      BY <1>0, <1>1 DEF WriteEntry, PendingDone
    <2> QED
      BY <1>0, <1>1, <2>2, <2>3, <2>4, <2>5 DEF WriteEntry
  <1>2. CASE Tick
    BY <1>2, <1>0 DEF Tick, WriteOut
  <1>3. CASE ServeFlush
    BY <1>3, <1>0 DEF ServeFlush, WriteOut
  <1>4. CASE SeeDone
    BY <1>4, <1>0 DEF SeeDone
  <1>5. CASE Finalize
    BY <1>5, <1>0 DEF Finalize, WriteOut
  <1>6. ASSUME NEW g \in Caller, Log(g)
        PROVE  Data'
    BY <1>6, <1>0 DEF Log, Goto
  <1>7. ASSUME NEW g \in Caller, Register(g)
        PROVE  Data'
    BY <1>7, <1>0 DEF Register, Goto
  <1>8. ASSUME NEW g \in Caller, SendEntry(g)
        PROVE  Data'
    <2>1. PICK entry \in Entry : ch' = Append(ch, entry) /\ accepted' = Append(accepted, entry)
      BY <1>8, LoggerAssumption DEF SendEntry, Entry
    <2>2. ch' \in Seq(Entry) /\ accepted' \in Seq(Entry)
      BY <1>0, <2>1
    <2>3. Len(ch') <= Capacity
      BY <1>0, <1>8, <2>1, LoggerAssumption DEF SendEntry
    <2> QED
      BY <1>0, <1>8, <2>2, <2>3 DEF SendEntry, Goto
  <1>9. ASSUME NEW g \in Caller, DropEntry(g)
        PROVE  Data'
    BY <1>9, <1>0 DEF DropEntry, PendingDone, Goto
  <1>10. ASSUME NEW g \in Caller, FlushLock(g)
        PROVE  Data'
    BY <1>10, <1>0 DEF FlushLock, Goto
  <1>11. ASSUME NEW g \in Caller, FlushPendingDone(g)
        PROVE  Data'
    BY <1>11, <1>0 DEF FlushPendingDone, Goto
  <1>12. ASSUME NEW g \in Caller, FlushTimesOut(g)
        PROVE  Data'
    BY <1>12, <1>0 DEF FlushTimesOut, Goto
  <1>13. ASSUME NEW g \in Caller, FlushRequest(g)
        PROVE  Data'
    BY <1>13, <1>0 DEF FlushRequest, Goto
  <1>14. ASSUME NEW g \in Caller, FlushGivesUp(g)
        PROVE  Data'
    BY <1>14, <1>0 DEF FlushGivesUp, Goto
  <1>15. ASSUME NEW g \in Caller, FlushAcked(g)
        PROVE  Data'
    BY <1>15, <1>0 DEF FlushAcked, Goto
  <1>16. ASSUME NEW g \in Caller, CloseOnce(g)
        PROVE  Data'
    BY <1>16, <1>0 DEF CloseOnce, Goto
  <1>17. ASSUME NEW g \in Caller, CloseDone(g)
        PROVE  Data'
    BY <1>17, <1>0 DEF CloseDone, Goto
  <1>18. ASSUME NEW g \in Caller, CloseReturns(g)
        PROVE  Data'
    BY <1>18, <1>0 DEF CloseReturns, Goto
  <1>19. ASSUME NEW g \in Caller, WaitReturns(g)
        PROVE  Data'
    BY <1>19, <1>0 DEF WaitReturns
  <1>20. CASE UNCHANGED vars
    BY <1>20, <1>0 DEF vars
  <1> QED
    BY <1>1, <1>2, <1>3, <1>4, <1>5, <1>6, <1>7, <1>8, <1>9, <1>10, <1>11, <1>12, <1>13, <1>14, <1>15, <1>16, <1>17, <1>18, <1>19, <1>20
       DEF Next, Worker, Call, Flush

LEMMA TypeStep ==
    ASSUME TypeOK, Counts, [Next]_vars
    PROVE  TypeOK'
  BY TypeParts, TruthsStep, DataStep DEF TypeOK, Truths, Data

\* Register and SendEntry, DropEntry or WriteEntry move the count and what it counts
\* alike.
LEMMA CountsStep ==
    ASSUME TypeOK, Counts, [Next]_vars
    PROVE  Counts'
  <1> USE DEF closeVars, fileVars, flushVars, sendVars
  <1>0. /\ pc \in [Caller -> {"idle", "log", "send", "flushWait", "flushSend", "flushAck",
                              "closing", "closeWait"}]
        /\ ch \in Seq(Entry) /\ IsFiniteSet(Senders)
        /\ Cardinality(Senders) \in Nat /\ Len(ch) \in Nat
        /\ pending = Cardinality(Senders) + Len(ch)
    BY SendersCount DEF TypeOK, Counts
  <1>1. SUFFICES IsFiniteSet(Senders') /\ pending' = Cardinality(Senders') + Len(ch')
    BY DEF Counts, PendingCounts, Senders
  <1>2. ASSUME Senders' = Senders, Len(ch') = Len(ch), pending' = pending
        PROVE  IsFiniteSet(Senders') /\ pending' = Cardinality(Senders') + Len(ch')
    BY <1>0, <1>2
  <1>3. ASSUME NEW g \in Caller, Register(g)
        PROVE  IsFiniteSet(Senders') /\ pending' = Cardinality(Senders') + Len(ch')
    <2>1. g \notin Senders /\ Senders' = Senders \cup {g}
      BY <1>0, <1>3 DEF Register, Goto, Senders
    <2>2. IsFiniteSet(Senders') /\ Cardinality(Senders') = Cardinality(Senders) + 1
      BY <1>0, <2>1, FS_AddElement
    <2> QED
      BY <1>0, <1>3, <2>2 DEF Register
  <1>4. ASSUME NEW g \in Caller, SendEntry(g) \/ DropEntry(g)
        PROVE  IsFiniteSet(Senders') /\ pending' = Cardinality(Senders') + Len(ch')
    <2>1. g \in Senders /\ Senders' = Senders \ {g}
      BY <1>0, <1>4 DEF SendEntry, DropEntry, Goto, Senders
    <2>2. IsFiniteSet(Senders') /\ Cardinality(Senders') = Cardinality(Senders) - 1
      BY <1>0, <2>1, FS_RemoveElement
    <2>3. CASE SendEntry(g)
      <3>1. Len(ch') = Len(ch) + 1 /\ pending' = pending
        BY <1>0, <2>3 DEF SendEntry
      <3> QED
        BY <1>0, <2>2, <3>1
    <2>4. CASE DropEntry(g)
      BY <1>0, <2>2, <2>4 DEF DropEntry, PendingDone
    <2> QED
      BY <1>4, <2>3, <2>4
  <1>5. CASE WriteEntry
    <2>1. Len(ch') = Len(ch) - 1 /\ pending' = pending - 1 /\ Senders' = Senders
      BY <1>0, <1>5 DEF WriteEntry, PendingDone, Senders
    <2> QED
      BY <1>0, <2>1
  <1>6. CASE Tick \/ ServeFlush \/ SeeDone \/ Finalize \/ UNCHANGED vars
    BY <1>2, <1>6 DEF Tick, ServeFlush, SeeDone, Finalize, vars, Senders
  <1>7. ASSUME NEW g \in Caller,
               \/ Log(g) \/ FlushLock(g) \/ Flush(g) \/ CloseOnce(g) \/ CloseDone(g)
               \/ CloseReturns(g) \/ WaitReturns(g)
        PROVE  IsFiniteSet(Senders') /\ pending' = Cardinality(Senders') + Len(ch')
    <2>1. ch' = ch /\ pending' = pending
      BY <1>7
         DEF Log, FlushLock, Flush, FlushPendingDone, FlushTimesOut, FlushRequest,
             FlushGivesUp, FlushAcked, CloseOnce, CloseDone, CloseReturns, WaitReturns
    <2>2. \A h \in Caller : pc'[h] = "send" <=> pc[h] = "send"
      BY <1>0, <1>7
         DEF Log, FlushLock, Flush, FlushPendingDone, FlushTimesOut, FlushRequest,
             FlushGivesUp, FlushAcked, CloseOnce, CloseDone, CloseReturns, WaitReturns, Goto
    <2> QED
      BY <1>2, <2>1, <2>2 DEF Senders
  <1> QED
    BY <1>3, <1>4, <1>5, <1>6, <1>7 DEF Next, Worker, Call

\* Writing the head of the channel, or the whole buffer, moves the border only.
LEMMA ConservedStep ==
    ASSUME TypeOK, Conserved, [Next]_vars
    PROVE  Conserved'
  <1> USE DEF closeVars, fileVars, flushVars, sendVars
  <1>0. /\ buffer \in Seq(Entry) /\ disk \in Seq(Entry) /\ ch \in Seq(Entry)
        /\ disk \o buffer \in Seq(Entry)
    BY DEF TypeOK
  <1>1. CASE WriteEntry
    <2>1. ch # <<>> /\ Head(ch) \in Entry /\ Tail(ch) \in Seq(Entry)
      BY <1>0, <1>1 DEF WriteEntry
    <2> DEFINE head == <<Head(ch)>>
    <2>2. head \in Seq(Entry) /\ Append(buffer, Head(ch)) = buffer \o head
      BY <1>0, <2>1
    <2>3. ch = head \o Tail(ch)
      BY <1>0, <2>1
    <2>4. disk \o (buffer \o head) = (disk \o buffer) \o head
      BY <1>0, <2>2, ConcatAssociative
    <2> HIDE DEF head
    <2>5. ((disk \o buffer) \o head) \o Tail(ch) = (disk \o buffer) \o (head \o Tail(ch))
      BY <1>0, <2>1, <2>2, ConcatAssociative
    <2> QED
      BY <1>1, <2>2, <2>3, <2>4, <2>5 DEF WriteEntry, Conserved
  <1>2. CASE Tick \/ ServeFlush \/ Finalize
    <2>1. disk' = disk \o buffer /\ buffer' = <<>> /\ ch' = ch /\ accepted' = accepted
      BY <1>2 DEF Tick, ServeFlush, Finalize, WriteOut
    <2>2. (disk \o buffer) \o <<>> = disk \o buffer
      BY <1>0, ConcatEmptySeq
    <2> QED
      BY <2>1, <2>2 DEF Conserved
  <1>3. ASSUME NEW g \in Caller, SendEntry(g)
        PROVE  Conserved'
    <2>1. PICK entry \in Entry : ch' = Append(ch, entry) /\ accepted' = Append(accepted, entry)
      BY <1>3, LoggerAssumption DEF SendEntry, Entry
    <2> DEFINE last == <<entry>>
               written == disk \o buffer
    <2>2. last \in Seq(Entry) /\ Append(ch, entry) = ch \o last
      BY <1>0
    <2>3. written \in Seq(Entry) /\ written \o ch \in Seq(Entry)
      BY <1>0
    <2>4. Append(written \o ch, entry) = (written \o ch) \o last
      BY <2>3
    <2> HIDE DEF last, written
    <2>5. (written \o ch) \o last = written \o (ch \o last)
      BY <1>0, <2>2, <2>3, ConcatAssociative
    <2> QED
      BY <1>3, <2>1, <2>2, <2>4, <2>5 DEF SendEntry, Conserved, written
  <1>4. CASE UNCHANGED <<disk, buffer, ch, accepted>>
    BY <1>4 DEF Conserved
  <1> QED
    BY <1>1, <1>2, <1>3, <1>4
       DEF Next, Worker, SeeDone, Call, Log, Register, DropEntry, FlushLock, Flush,
           FlushPendingDone, FlushTimesOut, FlushRequest, FlushGivesUp, FlushAcked,
           CloseOnce, CloseDone, CloseReturns, WaitReturns, vars

LEMMA LockedStep ==
    ASSUME TypeOK, Locked, [Next]_vars
    PROVE  Locked'
  <1>0. /\ pc \in [Caller -> {"idle", "log", "send", "flushWait", "flushSend", "flushAck",
                              "closing", "closeWait"}]
        /\ Nobody \notin Caller
    BY LoggerAssumption DEF TypeOK
  <1> USE DEF closeVars, fileVars, flushVars, sendVars
  <1>1. CASE WriteEntry
    BY <1>1, <1>0 DEF WriteEntry, Locked
  <1>2. CASE Tick
    BY <1>2, <1>0 DEF Tick, Locked
  <1>3. CASE ServeFlush
    BY <1>3, <1>0 DEF ServeFlush, Locked
  <1>4. CASE SeeDone
    BY <1>4, <1>0 DEF SeeDone, Locked
  <1>5. CASE Finalize
    BY <1>5, <1>0 DEF Finalize, Locked
  <1>6. ASSUME NEW g \in Caller, Log(g)
        PROVE  Locked'
    BY <1>6, <1>0 DEF Log, Goto, Locked
  <1>7. ASSUME NEW g \in Caller, Register(g)
        PROVE  Locked'
    BY <1>7, <1>0 DEF Register, Goto, Locked
  <1>8. ASSUME NEW g \in Caller, SendEntry(g)
        PROVE  Locked'
    BY <1>8, <1>0 DEF SendEntry, Goto, Locked
  <1>9. ASSUME NEW g \in Caller, DropEntry(g)
        PROVE  Locked'
    BY <1>9, <1>0 DEF DropEntry, Goto, Locked
  <1>10. ASSUME NEW g \in Caller, FlushLock(g)
        PROVE  Locked'
    BY <1>10, <1>0 DEF FlushLock, Goto, Locked
  <1>11. ASSUME NEW g \in Caller, FlushPendingDone(g)
        PROVE  Locked'
    BY <1>11, <1>0 DEF FlushPendingDone, Goto, Locked
  <1>12. ASSUME NEW g \in Caller, FlushTimesOut(g)
        PROVE  Locked'
    BY <1>12, <1>0 DEF FlushTimesOut, Goto, Locked
  <1>13. ASSUME NEW g \in Caller, FlushRequest(g)
        PROVE  Locked'
    BY <1>13, <1>0 DEF FlushRequest, Goto, Locked
  <1>14. ASSUME NEW g \in Caller, FlushGivesUp(g)
        PROVE  Locked'
    BY <1>14, <1>0 DEF FlushGivesUp, Goto, Locked
  <1>15. ASSUME NEW g \in Caller, FlushAcked(g)
        PROVE  Locked'
    BY <1>15, <1>0 DEF FlushAcked, Goto, Locked
  <1>16. ASSUME NEW g \in Caller, CloseOnce(g)
        PROVE  Locked'
    BY <1>16, <1>0 DEF CloseOnce, Goto, Locked
  <1>17. ASSUME NEW g \in Caller, CloseDone(g)
        PROVE  Locked'
    BY <1>17, <1>0 DEF CloseDone, Goto, Locked
  <1>18. ASSUME NEW g \in Caller, CloseReturns(g)
        PROVE  Locked'
    BY <1>18, <1>0 DEF CloseReturns, Goto, Locked
  <1>19. ASSUME NEW g \in Caller, WaitReturns(g)
        PROVE  Locked'
    BY <1>19, <1>0 DEF WaitReturns, Locked
  <1>20. CASE UNCHANGED vars
    BY <1>20 DEF vars, Locked
  <1> QED
    BY <1>1, <1>2, <1>3, <1>4, <1>5, <1>6, <1>7, <1>8, <1>9, <1>10, <1>11, <1>12, <1>13, <1>14, <1>15, <1>16, <1>17, <1>18, <1>19, <1>20
       DEF Next, Worker, Call, Flush

\* While a Flush holds the lock the count only falls, and its wait ends at zero.
LEMMA SettledStep ==
    ASSUME TypeOK, Counts, Locked, Settled, [Next]_vars
    PROVE  Settled'
  <1>0. /\ pc \in [Caller -> {"idle", "log", "send", "flushWait", "flushSend", "flushAck",
                              "closing", "closeWait"}]
        /\ waiter \in [Caller -> {"none", "waiting", "released"}]
        /\ pending \in Nat /\ Locked /\ Nobody \notin Caller
        /\ ch # <<>> => pending > 0
        /\ \A g \in Caller : pc[g] = "send" => pending > 0
    BY SendersCount, LoggerAssumption DEF TypeOK
  <1> USE DEF closeVars, fileVars, flushVars, sendVars
  <1>1. CASE WriteEntry
    BY <1>1, <1>0 DEF WriteEntry, Settled, PendingDone
  <1>2. CASE Tick
    BY <1>2, <1>0 DEF Tick, Settled
  <1>3. CASE ServeFlush
    BY <1>3, <1>0 DEF ServeFlush, Settled
  <1>4. CASE SeeDone
    BY <1>4, <1>0 DEF SeeDone, Settled
  <1>5. CASE Finalize
    BY <1>5, <1>0 DEF Finalize, Settled
  <1>6. ASSUME NEW g \in Caller, Log(g)
        PROVE  Settled'
    BY <1>6, <1>0 DEF Log, Goto, Settled
  <1>7. ASSUME NEW g \in Caller, Register(g)
        PROVE  Settled'
    BY <1>7, <1>0 DEF Register, Goto, Settled, Locked
  <1>8. ASSUME NEW g \in Caller, SendEntry(g)
        PROVE  Settled'
    BY <1>8, <1>0 DEF SendEntry, Goto, Settled
  <1>9. ASSUME NEW g \in Caller, DropEntry(g)
        PROVE  Settled'
    BY <1>9, <1>0 DEF DropEntry, Goto, Settled, PendingDone
  <1>10. ASSUME NEW g \in Caller, FlushLock(g)
        PROVE  Settled'
    BY <1>10, <1>0 DEF FlushLock, Goto, Settled
  <1>11. ASSUME NEW g \in Caller, FlushPendingDone(g)
        PROVE  Settled'
    BY <1>11, <1>0 DEF FlushPendingDone, Goto, Settled
  <1>12. ASSUME NEW g \in Caller, FlushTimesOut(g)
        PROVE  Settled'
    BY <1>12, <1>0 DEF FlushTimesOut, Goto, Settled
  <1>13. ASSUME NEW g \in Caller, FlushRequest(g)
        PROVE  Settled'
    BY <1>13, <1>0 DEF FlushRequest, Goto, Settled
  <1>14. ASSUME NEW g \in Caller, FlushGivesUp(g)
        PROVE  Settled'
    BY <1>14, <1>0 DEF FlushGivesUp, Goto, Settled
  <1>15. ASSUME NEW g \in Caller, FlushAcked(g)
        PROVE  Settled'
    BY <1>15, <1>0 DEF FlushAcked, Goto, Settled
  <1>16. ASSUME NEW g \in Caller, CloseOnce(g)
        PROVE  Settled'
    BY <1>16, <1>0 DEF CloseOnce, Goto, Settled
  <1>17. ASSUME NEW g \in Caller, CloseDone(g)
        PROVE  Settled'
    BY <1>17, <1>0 DEF CloseDone, Goto, Settled
  <1>18. ASSUME NEW g \in Caller, CloseReturns(g)
        PROVE  Settled'
    BY <1>18, <1>0 DEF CloseReturns, Goto, Settled
  <1>19. ASSUME NEW g \in Caller, WaitReturns(g)
        PROVE  Settled'
    BY <1>19, <1>0 DEF WaitReturns, Settled
  <1>20. CASE UNCHANGED vars
    BY <1>20, <1>0 DEF vars, Settled
  <1> QED
    BY <1>1, <1>2, <1>3, <1>4, <1>5, <1>6, <1>7, <1>8, <1>9, <1>10, <1>11, <1>12, <1>13, <1>14, <1>15, <1>16, <1>17, <1>18, <1>19, <1>20
       DEF Next, Worker, Call, Flush

\* Only the caller in Flush asks, is answered or gives up, and what it is told is
\* true until it leaves.
LEMMA RequestsStep ==
    ASSUME TypeOK, Counts, Conserved, Locked, Settled, Requests, [Next]_vars
    PROVE  Requests'
  <1>0. /\ pc \in [Caller -> {"idle", "log", "send", "flushWait", "flushSend", "flushAck",
                              "closing", "closeWait"}]
        /\ waiter \in [Caller -> {"none", "waiting", "released"}]
        /\ Locked /\ Requests
        /\ acked \in BOOLEAN
        /\ \A g \in Caller : pc[g] = "flushAck" => pending = 0
        /\ pending = 0 => ch = <<>> /\ \A g \in Caller : pc[g] # "send"
        /\ disk \in Seq(Entry) /\ buffer \in Seq(Entry)
    BY SendersCount DEF TypeOK, Settled
  <1>100. pending = 0 => accepted = disk \o buffer
    BY <1>0, ConcatEmptySeq DEF Conserved
  <1>101. acked => pending = 0 /\ disk \o buffer = disk
    BY <1>0, <1>100 DEF Requests
  <1> USE DEF closeVars, fileVars, flushVars, sendVars
  <1>1. CASE WriteEntry
    BY <1>1, <1>0 DEF WriteEntry, Requests
  <1>2. CASE Tick
    BY <1>2, <1>0, <1>101 DEF Tick, Requests, WriteOut
  <1>3. CASE ServeFlush
    <2>1. /\ acked' => flushReq = "live"
          /\ flushReq' = "none" /\ disk' = disk \o buffer /\ accepted' = accepted /\ pc' = pc
      BY <1>3 DEF ServeFlush, WriteOut
    <2>2. flushReq = "live" => pending = 0 /\ \E g \in Caller : pc[g] = "flushAck"
      BY <1>0 DEF Requests
    <2> QED
      BY <1>100, <2>1, <2>2 DEF Requests
  <1>4. CASE SeeDone
    BY <1>4, <1>0 DEF SeeDone, Requests
  <1>5. CASE Finalize
    BY <1>5, <1>0, <1>101 DEF Finalize, Requests, WriteOut
  <1>6. ASSUME NEW g \in Caller, Log(g)
        PROVE  Requests'
    BY <1>6, <1>0 DEF Log, Goto, Requests
  <1>7. ASSUME NEW g \in Caller, Register(g)
        PROVE  Requests'
    BY <1>7, <1>0 DEF Register, Goto, Requests
  <1>8. ASSUME NEW g \in Caller, SendEntry(g)
        PROVE  Requests'
    BY <1>8, <1>0 DEF SendEntry, Goto, Requests
  <1>9. ASSUME NEW g \in Caller, DropEntry(g)
        PROVE  Requests'
    BY <1>9, <1>0 DEF DropEntry, Goto, Requests
  <1>10. ASSUME NEW g \in Caller, FlushLock(g)
        PROVE  Requests'
    BY <1>10, <1>0 DEF FlushLock, Goto, Requests
  <1>11. ASSUME NEW g \in Caller, FlushPendingDone(g)
        PROVE  Requests'
    BY <1>11, <1>0 DEF FlushPendingDone, Goto, Requests
  <1>12. ASSUME NEW g \in Caller, FlushTimesOut(g)
        PROVE  Requests'
    BY <1>12, <1>0 DEF FlushTimesOut, Goto, Requests
  <1>13. ASSUME NEW g \in Caller, FlushRequest(g)
        PROVE  Requests'
    <2>1. ~acked
      BY <1>13, <1>0 DEF FlushRequest, Requests, Locked
    <2>2. pc'[g] = "flushAck" /\ acked' = acked
      BY <1>13, <1>0 DEF FlushRequest, Goto
    <2> QED
      BY <2>1, <2>2 DEF Requests
  <1>14. ASSUME NEW g \in Caller, FlushGivesUp(g)
        PROVE  Requests'
    BY <1>14, <1>0 DEF FlushGivesUp, Goto, Requests, Locked
  <1>15. ASSUME NEW g \in Caller, FlushAcked(g)
        PROVE  Requests'
    BY <1>15, <1>0 DEF FlushAcked, Goto, Requests, Locked
  <1>16. ASSUME NEW g \in Caller, CloseOnce(g)
        PROVE  Requests'
    BY <1>16, <1>0 DEF CloseOnce, Goto, Requests
  <1>17. ASSUME NEW g \in Caller, CloseDone(g)
        PROVE  Requests'
    BY <1>17, <1>0 DEF CloseDone, Goto, Requests
  <1>18. ASSUME NEW g \in Caller, CloseReturns(g)
        PROVE  Requests'
    BY <1>18, <1>0 DEF CloseReturns, Goto, Requests
  <1>19. ASSUME NEW g \in Caller, WaitReturns(g)
        PROVE  Requests'
    BY <1>19, <1>0 DEF WaitReturns, Requests
  <1>20. CASE UNCHANGED vars
    BY <1>20, <1>0 DEF vars, Requests
  <1> QED
    BY <1>1, <1>2, <1>3, <1>4, <1>5, <1>6, <1>7, <1>8, <1>9, <1>10, <1>11, <1>12, <1>13, <1>14, <1>15, <1>16, <1>17, <1>18, <1>19, <1>20
       DEF Next, Worker, Call, Flush

\* A Wait that finds the counter raised was left behind by a Flush that gave up.
LEMMA WaitsStep ==
    ASSUME TypeOK, Settled, Waits, WaitGroupNotReused, [Next]_vars
    PROVE  Waits' /\ WaitGroupNotReused'
  <1>0. /\ pc \in [Caller -> {"idle", "log", "send", "flushWait", "flushSend", "flushAck",
                              "closing", "closeWait"}]
        /\ waiter \in [Caller -> {"none", "waiting", "released"}]
    BY DEF TypeOK
  <1> USE DEF closeVars, fileVars, flushVars, sendVars
  <1>1. CASE WriteEntry
    BY <1>1, <1>0 DEF WriteEntry, Waits, WaitGroupNotReused, PendingDone
  <1>2. CASE Tick
    BY <1>2, <1>0 DEF Tick, Waits, WaitGroupNotReused
  <1>3. CASE ServeFlush
    BY <1>3, <1>0 DEF ServeFlush, Waits, WaitGroupNotReused
  <1>4. CASE SeeDone
    BY <1>4, <1>0 DEF SeeDone, Waits, WaitGroupNotReused
  <1>5. CASE Finalize
    BY <1>5, <1>0 DEF Finalize, Waits, WaitGroupNotReused
  <1>6. ASSUME NEW g \in Caller, Log(g)
        PROVE  Waits' /\ WaitGroupNotReused'
    BY <1>6, <1>0 DEF Log, Goto, Waits, WaitGroupNotReused
  <1>7. ASSUME NEW g \in Caller, Register(g)
        PROVE  Waits' /\ WaitGroupNotReused'
    BY <1>7, <1>0 DEF Register, Goto, Waits, WaitGroupNotReused
  <1>8. ASSUME NEW g \in Caller, SendEntry(g)
        PROVE  Waits' /\ WaitGroupNotReused'
    BY <1>8, <1>0 DEF SendEntry, Goto, Waits, WaitGroupNotReused
  <1>9. ASSUME NEW g \in Caller, DropEntry(g)
        PROVE  Waits' /\ WaitGroupNotReused'
    BY <1>9, <1>0 DEF DropEntry, Goto, Waits, WaitGroupNotReused, PendingDone
  <1>10. ASSUME NEW g \in Caller, FlushLock(g)
        PROVE  Waits' /\ WaitGroupNotReused'
    BY <1>10, <1>0 DEF FlushLock, Goto, Waits, WaitGroupNotReused
  <1>11. ASSUME NEW g \in Caller, FlushPendingDone(g)
        PROVE  Waits' /\ WaitGroupNotReused'
    BY <1>11, <1>0 DEF FlushPendingDone, Goto, Waits, WaitGroupNotReused
  <1>12. ASSUME NEW g \in Caller, FlushTimesOut(g)
        PROVE  Waits' /\ WaitGroupNotReused'
    BY <1>12, <1>0 DEF FlushTimesOut, Goto, Waits, WaitGroupNotReused
  <1>13. ASSUME NEW g \in Caller, FlushRequest(g)
        PROVE  Waits' /\ WaitGroupNotReused'
    BY <1>13, <1>0 DEF FlushRequest, Goto, Waits, WaitGroupNotReused
  <1>14. ASSUME NEW g \in Caller, FlushGivesUp(g)
        PROVE  Waits' /\ WaitGroupNotReused'
    BY <1>14, <1>0 DEF FlushGivesUp, Goto, Waits, WaitGroupNotReused
  <1>15. ASSUME NEW g \in Caller, FlushAcked(g)
        PROVE  Waits' /\ WaitGroupNotReused'
    BY <1>15, <1>0 DEF FlushAcked, Goto, Waits, WaitGroupNotReused
  <1>16. ASSUME NEW g \in Caller, CloseOnce(g)
        PROVE  Waits' /\ WaitGroupNotReused'
    BY <1>16, <1>0 DEF CloseOnce, Goto, Waits, WaitGroupNotReused
  <1>17. ASSUME NEW g \in Caller, CloseDone(g)
        PROVE  Waits' /\ WaitGroupNotReused'
    BY <1>17, <1>0 DEF CloseDone, Goto, Waits, WaitGroupNotReused
  <1>18. ASSUME NEW g \in Caller, CloseReturns(g)
        PROVE  Waits' /\ WaitGroupNotReused'
    BY <1>18, <1>0 DEF CloseReturns, Goto, Waits, WaitGroupNotReused
  <1>19. ASSUME NEW g \in Caller, WaitReturns(g)
        PROVE  Waits' /\ WaitGroupNotReused'
    BY <1>19, <1>0 DEF WaitReturns, Waits, WaitGroupNotReused, Settled
  <1>20. CASE UNCHANGED vars
    BY <1>20, <1>0 DEF vars, Waits, WaitGroupNotReused
  <1> QED
    BY <1>1, <1>2, <1>3, <1>4, <1>5, <1>6, <1>7, <1>8, <1>9, <1>10, <1>11, <1>12, <1>13, <1>14, <1>15, <1>16, <1>17, <1>18, <1>19, <1>20
       DEF Next, Worker, Call, Flush

LEMMA ClosesStep ==
    ASSUME TypeOK, Closes, [Next]_vars
    PROVE  Closes'
  <1>0. /\ pc \in [Caller -> {"idle", "log", "send", "flushWait", "flushSend", "flushAck",
                              "closing", "closeWait"}]
    BY DEF TypeOK
  <1> USE DEF closeVars, fileVars, flushVars, sendVars
  <1>1. CASE WriteEntry
    BY <1>1, <1>0 DEF WriteEntry, Closes
  <1>2. CASE Tick
    BY <1>2, <1>0 DEF Tick, Closes
  <1>3. CASE ServeFlush
    BY <1>3, <1>0 DEF ServeFlush, Closes
  <1>4. CASE SeeDone
    BY <1>4, <1>0 DEF SeeDone, Closes
  <1>5. CASE Finalize
    BY <1>5, <1>0 DEF Finalize, Closes
  <1>6. ASSUME NEW g \in Caller, Log(g)
        PROVE  Closes'
    BY <1>6, <1>0 DEF Log, Goto, Closes
  <1>7. ASSUME NEW g \in Caller, Register(g)
        PROVE  Closes'
    BY <1>7, <1>0 DEF Register, Goto, Closes
  <1>8. ASSUME NEW g \in Caller, SendEntry(g)
        PROVE  Closes'
    BY <1>8, <1>0 DEF SendEntry, Goto, Closes
  <1>9. ASSUME NEW g \in Caller, DropEntry(g)
        PROVE  Closes'
    BY <1>9, <1>0 DEF DropEntry, Goto, Closes
  <1>10. ASSUME NEW g \in Caller, FlushLock(g)
        PROVE  Closes'
    BY <1>10, <1>0 DEF FlushLock, Goto, Closes
  <1>11. ASSUME NEW g \in Caller, FlushPendingDone(g)
        PROVE  Closes'
    BY <1>11, <1>0 DEF FlushPendingDone, Goto, Closes
  <1>12. ASSUME NEW g \in Caller, FlushTimesOut(g)
        PROVE  Closes'
    BY <1>12, <1>0 DEF FlushTimesOut, Goto, Closes
  <1>13. ASSUME NEW g \in Caller, FlushRequest(g)
        PROVE  Closes'
    BY <1>13, <1>0 DEF FlushRequest, Goto, Closes
  <1>14. ASSUME NEW g \in Caller, FlushGivesUp(g)
        PROVE  Closes'
    BY <1>14, <1>0 DEF FlushGivesUp, Goto, Closes
  <1>15. ASSUME NEW g \in Caller, FlushAcked(g)
        PROVE  Closes'
    BY <1>15, <1>0 DEF FlushAcked, Goto, Closes
  <1>16. ASSUME NEW g \in Caller, CloseOnce(g)
        PROVE  Closes'
    BY <1>16, <1>0 DEF CloseOnce, Goto, Closes
  <1>17. ASSUME NEW g \in Caller, CloseDone(g)
        PROVE  Closes'
    BY <1>17, <1>0 DEF CloseDone, Goto, Closes
  <1>18. ASSUME NEW g \in Caller, CloseReturns(g)
        PROVE  Closes'
    BY <1>18, <1>0 DEF CloseReturns, Goto, Closes
  <1>19. ASSUME NEW g \in Caller, WaitReturns(g)
        PROVE  Closes'
    BY <1>19, <1>0 DEF WaitReturns, Closes
  <1>20. CASE UNCHANGED vars
    BY <1>20, <1>0 DEF vars, Closes
  <1> QED
    BY <1>1, <1>2, <1>3, <1>4, <1>5, <1>6, <1>7, <1>8, <1>9, <1>10, <1>11, <1>12, <1>13, <1>14, <1>15, <1>16, <1>17, <1>18, <1>19, <1>20
       DEF Next, Worker, Call, Flush

\* Nobody closes done again, and the worker stops with an empty channel only.
LEMMA StopsStep ==
    ASSUME TypeOK, Conserved, Closes, Stops, [Next]_vars
    PROVE  Stops'
  <1> USE DEF closeVars, fileVars, flushVars, sendVars
  <1>0. /\ disk \in Seq(Entry) /\ buffer \in Seq(Entry) /\ accepted \in Seq(Entry)
        /\ atClose \in Nat
    BY DEF TypeOK
  <1>1. CASE Finalize
    <2>1. disk' = disk \o buffer /\ ch = <<>> /\ UNCHANGED <<accepted, atClose>>
      BY <1>1 DEF Finalize, WriteOut
    <2>2. accepted = disk'
      BY <1>0, <2>1, ConcatEmptySeq DEF Conserved
    <2> QED
      BY <2>1, <2>2 DEF Stops
  <1>2. CASE Tick \/ ServeFlush
    BY <1>2 DEF Tick, ServeFlush, Stops
  <1>3. ASSUME NEW g \in Caller, CloseDone(g)
        PROVE  Stops'
    <2>1. worker' # "stopped" /\ atClose' = Len(accepted) /\ accepted' = accepted
      BY <1>3 DEF CloseDone, Closes
    <2> QED
      BY <1>0, <2>1 DEF Stops
  <1>4. ASSUME NEW g \in Caller, SendEntry(g)
        PROVE  Stops'
    <2>1. PICK entry \in Entry : accepted' = Append(accepted, entry)
      BY <1>4, LoggerAssumption DEF SendEntry, Entry
    <2>2. Len(accepted') = Len(accepted) + 1 /\ Len(accepted) \in Nat
      BY <1>0, <2>1
    <2>3. UNCHANGED <<worker, disk, atClose>>
      BY <1>4 DEF SendEntry
    <2> QED
      BY <1>0, <2>2, <2>3 DEF Stops
  <1>5. CASE /\ UNCHANGED <<disk, accepted, atClose>>
             /\ worker' = "stopped" => worker = "stopped"
    BY <1>5 DEF Stops
  <1> QED
    BY <1>1, <1>2, <1>3, <1>4, <1>5
       DEF Next, Worker, WriteEntry, SeeDone, Call, Log, Register, DropEntry, FlushLock,
           Flush, FlushPendingDone, FlushTimesOut, FlushRequest, FlushGivesUp, FlushAcked,
           CloseOnce, CloseReturns, WaitReturns, vars

-----------------------------------------------------------------------------
(* The cache of errors *)

\* The places of the errors among the entries of a sequence.
ErrorsIn(s) == {i \in DOMAIN s : s[i].isError}

\* RecentErrors of what has been written, whatever of it is on disk already.
Cached(entries, written) ==
    LET n      == Cardinality(ErrorsIn(written))
        kept   == IF n < ErrorLimit THEN n ELSE ErrorLimit
    IN  /\ Len(entries) = kept
        /\ \A i \in ErrorsIn(written) :
               LET r == Rank(ErrorsIn(written), i)
               IN  r > n - kept => entries[r - (n - kept)] = written[i]

LEMMA CachedFrom ==
    ASSUME NEW entries, NEW written, NEW n \in Nat, NEW kept \in Nat, NEW passed \in Nat,
           n = Cardinality(ErrorsIn(written)),
           kept = IF n < ErrorLimit THEN n ELSE ErrorLimit,
           passed = n - kept,
           Len(entries) = kept,
           \A i \in ErrorsIn(written) :
               Rank(ErrorsIn(written), i) > passed =>
                   entries[Rank(ErrorsIn(written), i) - passed] = written[i]
    PROVE  Cached(entries, written)
  BY DEF Cached

LEMMA CachedIs == RecentErrors <=> Cached(errorEntries, disk \o buffer)
  BY DEF RecentErrors, Cached, ErrorsIn

\* A place beyond a finite set of places is the last of the set with it, and leaves the
\* numbers of the others as they are.
LEMMA LastRank ==
    ASSUME NEW I \in SUBSET Nat, IsFiniteSet(I), NEW k \in Nat, \A i \in I : i < k
    PROVE  /\ Cardinality(I) \in Nat
           /\ Cardinality(I \cup {k}) = Cardinality(I) + 1
           /\ Rank(I \cup {k}, k) = Cardinality(I) + 1
           /\ \A i \in I : Rank(I \cup {k}, i) = Rank(I, i)
           /\ \A i \in I : Rank(I, i) \in 1 .. Cardinality(I)
  <1>1. k \notin I
    OBVIOUS
  <1>2. Cardinality(I) \in Nat /\ Cardinality(I \cup {k}) = Cardinality(I) + 1
    BY <1>1, FS_AddElement, FS_CardinalityType
  <1>3. {j \in I \cup {k} : j <= k} = I \cup {k}
    <2>1. \A j \in I \cup {k} : j <= k
      OBVIOUS
    <2> QED
      BY <2>1
  <1>4. \A i \in I : {j \in I \cup {k} : j <= i} = {j \in I : j <= i}
    OBVIOUS
  <1>5. ASSUME NEW i \in I
        PROVE  Rank(I, i) \in 1 .. Cardinality(I)
    <2> DEFINE upto == {j \in I : j <= i}
    <2>1. upto \subseteq I /\ i \in upto
      OBVIOUS
    <2>2. /\ IsFiniteSet(upto) /\ Cardinality(upto) \in Nat /\ Cardinality(I) \in Nat
          /\ Cardinality(upto) <= Cardinality(I)
      BY <2>1, FS_Subset, FS_CardinalityType
    <2>3. Cardinality(upto) # 0
      BY <2>1, <2>2, FS_EmptySet
    <2> QED
      BY <2>2, <2>3 DEF Rank
  <1> QED
    BY <1>2, <1>3, <1>4, <1>5 DEF Rank

\* An entry that is written enters the cache if it is an error, where it takes the place
\* of the oldest one once the cache is full.
LEMMA CachedNext ==
    ASSUME NEW written \in Seq(Entry), errorEntries \in Seq(Entry), NEW entry \in Entry,
           Cached(errorEntries, written)
    PROVE  Cached(IF entry.isError THEN CacheError(entry) ELSE errorEntries,
                  Append(written, entry))
  <1> DEFINE I == ErrorsIn(written)
             n == Cardinality(I)
             k == Len(written) + 1
             longer == Append(written, entry)
             next == IF entry.isError THEN CacheError(entry) ELSE errorEntries
  <1> SUFFICES Cached(next, longer)
    OBVIOUS
  <1>1. /\ longer \in Seq(Entry) /\ Len(longer) = k /\ longer[k] = entry
        /\ \A i \in 1 .. Len(written) : longer[i] = written[i]
        /\ k \in Nat /\ DOMAIN longer = 1 .. k /\ DOMAIN written = 1 .. Len(written)
        /\ Len(written) \in Nat
    OBVIOUS
  <1>2. I \in SUBSET Nat /\ I \subseteq 1 .. Len(written) /\ \A i \in I : i < k
    BY <1>1 DEF ErrorsIn
  <1>3. IsFiniteSet(I)
    <2>1. IsFiniteSet(1 .. Len(written))
      BY <1>1, FS_Interval
    <2> QED
      BY <1>2, <2>1, FS_Subset
  <1>4. ErrorsIn(longer) = IF entry.isError THEN I \cup {k} ELSE I
    <2>1. \A i \in 1 .. k : i \in 1 .. Len(written) \/ i = k
      BY <1>1
    <2> QED
      BY <1>1, <2>1 DEF ErrorsIn
  <1>5. /\ n \in Nat
        /\ Cardinality(I \cup {k}) = n + 1
        /\ Rank(I \cup {k}, k) = n + 1
        /\ \A i \in I : Rank(I \cup {k}, i) = Rank(I, i)
        /\ \A i \in I : Rank(I, i) \in 1 .. n
    BY <1>1, <1>2, <1>3, LastRank
  <1> DEFINE kept == IF n < ErrorLimit THEN n ELSE ErrorLimit
  <1>6. /\ Len(errorEntries) = kept
        /\ \A i \in I : Rank(I, i) > n - kept => errorEntries[Rank(I, i) - (n - kept)] = written[i]
    BY DEF Cached
  <1>7. ErrorLimit \in Nat /\ ErrorLimit > 0
    BY LoggerAssumption
  <1>8. CASE ~entry.isError
    <2>1. ErrorsIn(longer) = I /\ \A i \in I : longer[i] = written[i]
      BY <1>1, <1>2, <1>4, <1>8
    <2> HIDE DEF I, longer
    <2> QED
      BY <1>6, <1>8, <2>1 DEF Cached
  <1>9. CASE entry.isError
    <2> DEFINE all == I \cup {k}
               more == Append(errorEntries, entry)
    <2>1. /\ Len(more) = kept + 1 /\ more[kept + 1] = entry /\ more \in Seq(Entry)
          /\ \A i \in 1 .. kept : more[i] = errorEntries[i]
      BY <1>6
    <2>2. /\ \A i \in I : longer[i] = written[i]
          /\ longer[k] = entry
          /\ ErrorsIn(longer) = all
          /\ \A i \in all : i \in I \/ i = k
      BY <1>1, <1>2, <1>4, <1>9
    <2> HIDE DEF I, longer, k, n, more
    <2>3. CASE n < ErrorLimit
      <3>1. kept = n /\ n - kept = 0 /\ CacheError(entry) = more
        BY <1>5, <1>7, <2>1, <2>3 DEF CacheError, more
      <3>2. /\ Cardinality(all) = n + 1
            /\ (IF n + 1 < ErrorLimit THEN n + 1 ELSE ErrorLimit) = n + 1
            /\ Len(more) = n + 1
        BY <1>5, <1>7, <2>1, <2>3, <3>1
      <3>3. ASSUME NEW i \in all
            PROVE  more[Rank(all, i) - 0] = longer[i]
        <4>1. CASE i \in I
          <5>1. Rank(all, i) = Rank(I, i) /\ Rank(I, i) \in 1 .. n
            BY <1>5, <4>1
          <5>2. Rank(I, i) > n - kept /\ Rank(I, i) - (n - kept) = Rank(I, i)
            BY <1>5, <3>1, <5>1
          <5>3. errorEntries[Rank(I, i)] = written[i]
            BY <1>6, <4>1, <5>2
          <5> QED
            BY <2>1, <2>2, <3>1, <4>1, <5>1, <5>3
        <4>2. CASE i = k
          <5>1. Rank(all, i) = n + 1
            BY <1>5, <4>2
          <5> QED
            BY <1>5, <2>1, <2>2, <3>1, <4>2, <5>1
        <4> QED
          BY <2>2, <3>3, <4>1, <4>2
      <3>4. next = more
        BY <1>9, <3>1
      <3> DEFINE n1 == n + 1
      <3>5. /\ n1 = Cardinality(ErrorsIn(longer))
            /\ n1 = IF n1 < ErrorLimit THEN n1 ELSE ErrorLimit
            /\ 0 = n1 - n1
            /\ Len(next) = n1
        <4>1. n1 = Cardinality(ErrorsIn(longer)) /\ 0 = n1 - n1
          BY <1>5, <2>2, <3>2
        <4>2. n1 = IF n1 < ErrorLimit THEN n1 ELSE ErrorLimit
          BY <3>2
        <4> HIDE DEF next, n1
        <4>3. Len(next) = n1
          BY <3>2, <3>4 DEF n1
        <4> QED
          BY <4>1, <4>2, <4>3
      <3>6. \A i \in ErrorsIn(longer) :
                Rank(ErrorsIn(longer), i) > 0 =>
                    next[Rank(ErrorsIn(longer), i) - 0] = longer[i]
        BY <2>2, <3>3, <3>4
      <3>7. n1 \in Nat /\ 0 \in Nat
        BY <1>5
      <3> HIDE DEF all, kept, next, n1
      <3> QED
        BY <3>5, <3>6, <3>7, CachedFrom
    <2>4. CASE ~(n < ErrorLimit)
      <3> DEFINE passed == n - ErrorLimit
      <3>1. kept = ErrorLimit /\ passed \in Nat
        BY <1>5, <1>7, <2>4
      <3>2. CacheError(entry) = Tail(more) /\ Len(Tail(more)) = ErrorLimit
        BY <1>7, <2>1, <3>1 DEF CacheError, more
      <3>3. /\ Cardinality(all) = n + 1
            /\ (IF n + 1 < ErrorLimit THEN n + 1 ELSE ErrorLimit) = ErrorLimit
            /\ (n + 1) - ErrorLimit = passed + 1
        BY <1>5, <1>7, <2>4
      <3>4. ASSUME NEW i \in all, Rank(all, i) > passed + 1
            PROVE  Tail(more)[Rank(all, i) - (passed + 1)] = longer[i]
        <4> DEFINE r == Rank(all, i)
        <4>1. r \in 1 .. (n + 1) /\ r > passed + 1
          <5>1. CASE i \in I
            <6>1. r = Rank(I, i) /\ Rank(I, i) \in 1 .. n
              BY <1>5, <5>1
            <6> HIDE DEF r
            <6>2. r \in 1 .. (n + 1)
              BY <1>5, <6>1
            <6> QED
              BY <3>4, <6>2 DEF r
          <5>2. CASE i = k
            BY <1>5, <3>4, <5>2
          <5> QED
            BY <2>2, <5>1, <5>2
        <4>2. r - (passed + 1) \in 1 .. ErrorLimit /\ (r - (passed + 1)) + 1 = r - passed
          BY <1>5, <1>7, <3>1, <4>1
        <4>3. Tail(more)[r - (passed + 1)] = more[r - passed]
          BY <2>1, <3>2, <4>2
        <4>4. more[r - passed] = longer[i]
          <5>1. CASE i = k
            <6>1. r = n + 1 /\ r - passed = kept + 1
              BY <1>5, <1>7, <3>1, <5>1
            <6> QED
              BY <2>1, <2>2, <5>1, <6>1
          <5>2. CASE i \in I
            <6>1. r = Rank(I, i) /\ r \in 1 .. n
              BY <1>5, <5>2
            <6>2. r > n - kept /\ r - (n - kept) \in 1 .. kept /\ n - kept = passed
              BY <1>5, <1>7, <3>1, <4>1, <6>1
            <6> QED
              BY <1>6, <2>1, <2>2, <5>2, <6>1, <6>2
          <5> QED
            BY <2>2, <3>4, <5>1, <5>2
        <4> QED
          BY <4>3, <4>4
      <3> DEFINE n1 == n + 1
                 kept1 == ErrorLimit
                 passed1 == passed + 1
      <3>5. /\ n1 = Cardinality(ErrorsIn(longer))
            /\ kept1 = IF n1 < ErrorLimit THEN n1 ELSE ErrorLimit
            /\ passed1 = n1 - kept1
            /\ next = Tail(more) /\ Len(next) = kept1
        BY <1>5, <1>9, <2>2, <3>2, <3>3
      <3>6. \A i \in ErrorsIn(longer) :
                Rank(ErrorsIn(longer), i) > passed1 =>
                    next[Rank(ErrorsIn(longer), i) - passed1] = longer[i]
        BY <2>2, <3>4, <3>5
      <3>7. n1 \in Nat /\ kept1 \in Nat /\ passed1 \in Nat
        BY <1>5, <1>7, <3>1
      <3> HIDE DEF all, passed, kept, next, n1, kept1, passed1
      <3> QED
        BY <3>5, <3>6, <3>7, CachedFrom
    <2> QED
      BY <2>3, <2>4
  <1> QED
    BY <1>8, <1>9

\* Only the worker writes an entry, and what goes from its buffer to the disk stays.
LEMMA CachedStep ==
    ASSUME TypeOK, RecentErrors, [Next]_vars
    PROVE  RecentErrors'
  <1> USE DEF closeVars, fileVars, flushVars, sendVars
  <1>0. /\ buffer \in Seq(Entry) /\ disk \in Seq(Entry) /\ ch \in Seq(Entry)
        /\ disk \o buffer \in Seq(Entry) /\ errorEntries \in Seq(Entry)
    BY DEF TypeOK
  <1>1. CASE WriteEntry
    <2> DEFINE entry == Head(ch)
               written == disk \o buffer
    <2>1. /\ entry \in Entry /\ disk' = disk /\ buffer' = Append(buffer, entry)
          /\ errorEntries' = IF entry.isError THEN CacheError(entry) ELSE errorEntries
      BY <1>0, <1>1 DEF WriteEntry
    <2> HIDE DEF entry
    <2>2. disk \o Append(buffer, entry) = Append(written, entry)
      <3>1. <<entry>> \in Seq(Entry)
        BY <2>1
      <3>2. disk \o (buffer \o <<entry>>) = (disk \o buffer) \o <<entry>>
        BY <1>0, <3>1, ConcatAssociative
      <3>3. Append(buffer, entry) = buffer \o <<entry>>
        BY <1>0, <2>1
      <3> HIDE DEF written
      <3>4. Append(written, entry) = written \o <<entry>>
        BY <1>0, <2>1 DEF written
      <3> QED
        BY <3>2, <3>3, <3>4 DEF written
    <2>3. Cached(errorEntries, written)
      BY CachedIs
    <2> HIDE DEF written
    <2>4. Cached(errorEntries', Append(written, entry))
      BY <1>0, <2>1, <2>3, CachedNext DEF written
    <2>5. Cached(errorEntries', disk' \o buffer')
      BY <2>1, <2>2, <2>4
    <2> QED
      BY <2>5 DEF RecentErrors, Cached, ErrorsIn
  <1>2. CASE Tick \/ ServeFlush \/ Finalize
    <2>1. disk' = disk \o buffer /\ buffer' = <<>> /\ errorEntries' = errorEntries
      BY <1>2 DEF Tick, ServeFlush, Finalize, WriteOut
    <2>2. disk' \o buffer' = disk \o buffer
      BY <1>0, <2>1, ConcatEmptySeq
    <2> QED
      BY <2>1, <2>2 DEF RecentErrors
  <1>3. CASE UNCHANGED <<disk, buffer, errorEntries>>
    BY <1>3 DEF RecentErrors
  <1> QED
    BY <1>1, <1>2, <1>3
       DEF Next, Worker, SeeDone, Call, Log, Register, SendEntry, DropEntry, FlushLock, Flush,
           FlushPendingDone, FlushTimesOut, FlushRequest, FlushGivesUp, FlushAcked,
           CloseOnce, CloseDone, CloseReturns, WaitReturns, vars

THEOREM StepInv == IInv /\ [Next]_vars => IInv'
  BY TypeStep, CountsStep, ConservedStep, LockedStep, SettledStep, RequestsStep, WaitsStep,
     ClosesStep, StopsStep, CachedStep DEF IInv

\* The invariant holds in every state of every behaviour of the Logger.
THEOREM Invariance == Spec => []IInv
  BY InitInv, StepInv, PTL DEF Spec

-----------------------------------------------------------------------------
(* The properties of the Logger *)

\* The variables keep their types; the channel and the cache of recent errors
\* never outgrow their limits.
THEOREM TypeCorrect == Spec => []TypeOK
  BY Invariance, PTL DEF IInv

\* pendingWG counts the entries under way exactly, so its Done never goes below
\* zero and its Wait ends when all of them are written (Logger.log, Logger.run).
THEOREM WaitGroupExact == Spec => []PendingCounts
  BY Invariance, PTL DEF IInv, Counts

\* Every entry the channel took is on disk, in the writer's buffer or in the
\* channel, in the order in which it was taken.
THEOREM NothingLost == Spec => []Conserved
  BY Invariance, PTL DEF IInv

\* A Flush that is answered finds everything accepted so far on disk.
THEOREM FlushComplete == Spec => []FlushWritesAll
  <1>1. IInv => FlushWritesAll
    BY DEF IInv, Requests, FlushWritesAll
  <1> QED
    BY Invariance, <1>1, PTL

\* pendingWG is reused too early only after a Flush has given up its wait.
THEOREM NoEarlyReuse == Spec => []WaitGroupNotReused
  BY Invariance, PTL DEF IInv

\* A worker that has stopped has written what was accepted before the close.
THEOREM CloseComplete == Spec => []CloseWritesAll
  <1>1. IInv => CloseWritesAll
    <2> SUFFICES ASSUME IInv, worker = "stopped"
                 PROVE  IsPrefix(SubSeq(accepted, 1, atClose), disk)
      BY DEF CloseWritesAll
    <2>1. /\ disk \in Seq(Entry) /\ buffer \o ch \in Seq(Entry)
          /\ atClose \in 0 .. Len(disk) /\ Len(disk) \in Nat
      BY DEF IInv, TypeOK, Stops
    <2>2. accepted = disk \o (buffer \o ch)
      BY ConcatAssociative DEF IInv, TypeOK, Conserved
    <2> DEFINE before == SubSeq(disk, 1, atClose)
    <2>3. SubSeq(accepted, 1, atClose) = before
      <3>1. CASE atClose = 0
        BY <3>1, SubSeqEmpty
      <3>2. CASE atClose # 0
        BY <2>1, <2>2, <3>2, SubSeqOfConcat1
      <3> QED
        BY <3>1, <3>2
    <2>4. before \in Seq(Entry) /\ Len(before) = atClose
      BY <2>1
    <2> HIDE DEF before
    <2>5. SubSeq(before, 1, Len(before)) = before
      BY <2>4, SubSeqFull
    <2>6. Len(before) <= Len(disk) /\ SubSeq(before, 1, Len(before)) = SubSeq(disk, 1, Len(before))
      BY <2>1, <2>4, <2>5 DEF before
    <2> QED
      BY <2>3, <2>6 DEF IsPrefix
  <1> QED
    BY Invariance, <1>1, PTL

\* The cache that the report of a failed run is made from holds the last warnings and
\* errors written, as many as its limit allows, in their order (Logger.cacheError and
\* ExtractRecentErrors in logger.go).
THEOREM LatestErrorsKept == Spec => []RecentErrors
  BY Invariance, PTL DEF IInv

=============================================================================
