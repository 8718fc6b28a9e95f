------------------------------- MODULE Logger -------------------------------
(***************************************************************************)
(* The asynchronous log of logger.go: goroutines that call log, Flush and   *)
(* Close on one Logger, the buffered channel ch, the mutex flushMu, the      *)
(* wait group pendingWG of entries under way, and the one worker goroutine   *)
(* that writes the file.                                                     *)
(*                                                                          *)
(* A call on a closed Logger that returns at once changes nothing and is no  *)
(* action. The file takes what is written to it; what it has is in disk.     *)
(***************************************************************************)
EXTENDS Integers, Sequences, FiniteSets, SequencesExt, Subsequences

CONSTANTS
    Caller,      \* the goroutines that use the Logger
    Nobody,      \* no caller: the mutex is free
    Capacity,    \* of ch (1000 in the code)
    ErrorLimit,  \* entries kept in errorEntries (100 in the code)
    Levels,      \* may an entry be a warning or an error: a subset of BOOLEAN
    MaxEntries   \* bound of the model: entries accepted by ch

ASSUME LoggerAssumption ==
    /\ Nobody \notin Caller
    /\ Capacity \in Nat \ {0}
    /\ ErrorLimit \in Nat \ {0}
    /\ Levels \subseteq BOOLEAN
    /\ MaxEntries \in Nat

VARIABLES
    pc,            \* where each caller is
    closed, done,  \* the flag closed, and the channel done is closed
    once,          \* closeOnce
    flushMu, pending,
    waiter,        \* the goroutine in pendingWG.Wait that a caller's Flush started
    ch, flushReq,  \* the channels; a request given up by its Flush is stale
    acked,         \* flushDone of the Flush under way is closed
    worker,
    buffer, disk,  \* in the bufio writer, in the file
    errorEntries,
    accepted,      \* history: all entries ever sent on ch
    atClose,       \* history: how many of them when done was closed
    abandoned,     \* history: some Flush gave up waiting for pendingWG
    panicked

vars == <<pc, closed, done, once, flushMu, pending, waiter, ch, flushReq, acked,
          worker, buffer, disk, errorEntries, accepted, atClose, abandoned, panicked>>

closeVars == <<closed, done, once, atClose>>
fileVars  == <<worker, buffer, disk, errorEntries>>
flushVars == <<flushReq, acked>>
sendVars  == <<ch, accepted>>

Entry == [by : Caller, isError : BOOLEAN]

TypeOK ==
    /\ pc \in [Caller -> {"idle", "log", "send", "flushWait", "flushSend", "flushAck",
                          "closing", "closeWait"}]
    /\ closed \in BOOLEAN /\ done \in BOOLEAN /\ acked \in BOOLEAN
    /\ abandoned \in BOOLEAN /\ panicked \in BOOLEAN
    /\ once \in {"none", "running", "done"}
    /\ flushMu \in Caller \cup {Nobody}
    /\ pending \in Nat
    /\ waiter \in [Caller -> {"none", "waiting", "released"}]
    /\ ch \in Seq(Entry) /\ Len(ch) <= Capacity
    /\ flushReq \in {"none", "live", "stale"}
    /\ worker \in {"running", "draining", "stopped"}
    /\ buffer \in Seq(Entry) /\ disk \in Seq(Entry) /\ accepted \in Seq(Entry)
    /\ errorEntries \in Seq(Entry) /\ Len(errorEntries) <= ErrorLimit
    /\ atClose \in Nat

Init ==
    /\ pc = [g \in Caller |-> "idle"]
    /\ closed = FALSE /\ done = FALSE /\ once = "none"
    /\ flushMu = Nobody
    /\ pending = 0
    /\ waiter = [g \in Caller |-> "none"]
    /\ ch = <<>> /\ flushReq = "none" /\ acked = FALSE
    /\ worker = "running"
    /\ buffer = <<>> /\ disk = <<>> /\ errorEntries = <<>>
    /\ accepted = <<>> /\ atClose = 0
    /\ abandoned = FALSE /\ panicked = FALSE

-----------------------------------------------------------------------------
(* pendingWG *)

\* pendingWG.Done: the last one releases every goroutine in Wait.
PendingDone ==
    /\ pending' = pending - 1
    /\ waiter' = IF pending = 1
                 THEN [g \in Caller |-> IF waiter[g] = "none" THEN "none" ELSE "released"]
                 ELSE waiter

\* A released Wait returns; finding the counter raised again it panics
\* ("WaitGroup is reused before previous Wait has returned").
WaitReturns(g) ==
    /\ waiter[g] = "released"
    /\ waiter' = [waiter EXCEPT ![g] = "none"]
    /\ panicked' = (pending # 0)
    /\ UNCHANGED <<pc, closeVars, flushMu, pending, sendVars, flushVars, fileVars, abandoned>>

-----------------------------------------------------------------------------
(* log *)

Goto(g, place) == pc' = [pc EXCEPT ![g] = place]

\* closed is read before the entry is registered.
Log(g) ==
    /\ pc[g] = "idle"
    /\ ~closed
    /\ Goto(g, "log")
    /\ UNCHANGED <<closeVars, flushMu, pending, waiter, sendVars, flushVars, fileVars,
                   abandoned, panicked>>

\* Mutant: pendingWG.Add without flushMu.
RegisterUnlocked(g) ==
    /\ pc[g] = "log"
    /\ pending' = pending + 1
    /\ Goto(g, "send")
    /\ UNCHANGED <<closeVars, flushMu, waiter, sendVars, flushVars, fileVars, abandoned,
                   panicked>>

Register(g) ==
    /\ pc[g] = "log"
    /\ flushMu = Nobody
    /\ pending' = pending + 1
    /\ Goto(g, "send")
    /\ UNCHANGED <<closeVars, flushMu, waiter, sendVars, flushVars, fileVars, abandoned,
                   panicked>>

SendEntry(g) ==
    /\ pc[g] = "send"
    /\ Len(ch) < Capacity
    /\ \E isError \in Levels :
           LET entry == [by |-> g, isError |-> isError] IN
               /\ ch' = Append(ch, entry)
               /\ accepted' = Append(accepted, entry)
    /\ Goto(g, "idle")
    /\ UNCHANGED <<closeVars, flushMu, pending, waiter, flushVars, fileVars, abandoned,
                   panicked>>

\* Mutant: a dropped entry stays pending.
DropEntryNoDone(g) ==
    /\ pc[g] = "send"
    /\ done
    /\ Goto(g, "idle")
    /\ UNCHANGED <<closeVars, flushMu, pending, waiter, sendVars, flushVars, fileVars,
                   abandoned, panicked>>

DropEntry(g) ==
    /\ pc[g] = "send"
    /\ done
    /\ PendingDone
    /\ Goto(g, "idle")
    /\ UNCHANGED <<closeVars, flushMu, sendVars, flushVars, fileVars, abandoned, panicked>>

-----------------------------------------------------------------------------
(* Flush: flushMu is held from FlushLock to its return *)

\* A caller has one goroutine in Wait at a time (a bound: a Flush that gave up
\* leaves its own behind).
FlushLock(g) ==
    /\ pc[g] = "idle"
    /\ flushMu = Nobody
    /\ waiter[g] = "none"
    /\ flushMu' = g
    /\ waiter' = IF pending = 0 THEN waiter ELSE [waiter EXCEPT ![g] = "waiting"]
    /\ Goto(g, "flushWait")
    /\ UNCHANGED <<closeVars, pending, sendVars, flushVars, fileVars, abandoned, panicked>>

\* Mutant: the flush request goes out while entries are pending.
FlushNoWait(g) ==
    /\ pc[g] = "flushWait"
    /\ Goto(g, "flushSend")
    /\ UNCHANGED <<closeVars, flushMu, pending, waiter, sendVars, flushVars, fileVars,
                   abandoned, panicked>>

FlushPendingDone(g) ==
    /\ pc[g] = "flushWait"
    /\ waiter[g] = "none"
    /\ Goto(g, "flushSend")
    /\ UNCHANGED <<closeVars, flushMu, pending, waiter, sendVars, flushVars, fileVars,
                   abandoned, panicked>>

\* Mutant: the early return keeps flushMu.
FlushTimesOutLocked(g) ==
    /\ pc[g] = "flushWait"
    /\ abandoned' = (abandoned \/ waiter[g] # "none")
    /\ Goto(g, "idle")
    /\ UNCHANGED <<closeVars, flushMu, pending, waiter, sendVars, flushVars, fileVars,
                   panicked>>

FlushTimesOut(g) ==
    /\ pc[g] = "flushWait"
    /\ abandoned' = (abandoned \/ waiter[g] # "none")
    /\ flushMu' = Nobody
    /\ Goto(g, "idle")
    /\ UNCHANGED <<closeVars, pending, waiter, sendVars, flushVars, fileVars, panicked>>

FlushRequest(g) ==
    /\ pc[g] = "flushSend"
    /\ flushReq = "none"
    /\ flushReq' = "live"
    /\ Goto(g, "flushAck")
    /\ UNCHANGED <<closeVars, flushMu, pending, waiter, sendVars, acked, fileVars, abandoned,
                   panicked>>

\* The Logger is closing, or one of the one-second timers is over.
FlushGivesUp(g) ==
    /\ pc[g] \in {"flushSend", "flushAck"}
    /\ flushReq' = IF flushReq = "live" THEN "stale" ELSE flushReq
    /\ acked' = FALSE
    /\ flushMu' = Nobody
    /\ Goto(g, "idle")
    /\ UNCHANGED <<closeVars, pending, waiter, sendVars, fileVars, abandoned, panicked>>

FlushAcked(g) ==
    /\ pc[g] = "flushAck"
    /\ acked
    /\ acked' = FALSE
    /\ flushMu' = Nobody
    /\ Goto(g, "idle")
    /\ UNCHANGED <<closeVars, pending, waiter, sendVars, flushReq, fileVars, abandoned,
                   panicked>>

Flush(g) ==
    FlushPendingDone(g) \/ FlushTimesOut(g) \/ FlushRequest(g) \/ FlushGivesUp(g)
        \/ FlushAcked(g)

-----------------------------------------------------------------------------
(* Close: the first caller does it, the others wait for once *)

CloseOnce(g) ==
    /\ pc[g] = "idle"
    /\ once = "none"
    /\ once' = "running"
    /\ closed' = TRUE
    /\ Goto(g, "closing")
    /\ UNCHANGED <<done, atClose, flushMu, pending, waiter, sendVars, flushVars, fileVars,
                   abandoned, panicked>>

CloseDone(g) ==
    /\ pc[g] = "closing"
    /\ done' = TRUE
    /\ atClose' = Len(accepted)
    /\ Goto(g, "closeWait")
    /\ UNCHANGED <<closed, once, flushMu, pending, waiter, sendVars, flushVars, fileVars,
                   abandoned, panicked>>

\* The worker has stopped, or loggerCloseTimeout is over (0: no timeout).
CloseReturns(g) ==
    /\ pc[g] = "closeWait"
    /\ \E timeout \in BOOLEAN : worker = "stopped" \/ timeout
    /\ once' = "done"
    /\ Goto(g, "idle")
    /\ UNCHANGED <<closed, done, atClose, flushMu, pending, waiter, sendVars, flushVars,
                   fileVars, abandoned, panicked>>

-----------------------------------------------------------------------------
(* The worker *)

\* Mutants: no limit; once full, the cache keeps the oldest.
CacheErrorUnbounded(entry) == Append(errorEntries, entry)
CacheErrorOldest(entry) ==
    IF Len(errorEntries) = ErrorLimit THEN errorEntries ELSE Append(errorEntries, entry)

\* Drop the oldest entry when the cache has outgrown its limit.
CacheError(entry) ==
    LET longer == Append(errorEntries, entry) IN
        IF Len(longer) > ErrorLimit THEN Tail(longer) ELSE longer

\* case entry := <-l.ch, before done and while draining after it
WriteEntry ==
    /\ worker \in {"running", "draining"}
    /\ ch # <<>>
    /\ ch' = Tail(ch)
    /\ buffer' = Append(buffer, Head(ch))
    /\ errorEntries' = IF Head(ch).isError THEN CacheError(Head(ch)) ELSE errorEntries
    /\ PendingDone
    /\ UNCHANGED <<pc, closeVars, flushMu, flushVars, worker, disk, accepted, abandoned,
                   panicked>>

WriteOut ==
    /\ disk' = disk \o buffer
    /\ buffer' = <<>>

\* The ticker; the bufio writer also writes out when it is full.
Tick ==
    /\ worker = "running"
    /\ buffer # <<>>
    /\ WriteOut
    /\ UNCHANGED <<pc, closeVars, flushMu, pending, waiter, sendVars, flushVars, worker,
                   errorEntries, abandoned, panicked>>

ServeFlush ==
    /\ worker = "running"
    /\ flushReq # "none"
    /\ WriteOut
    /\ acked' = (flushReq = "live")
    /\ flushReq' = "none"
    /\ UNCHANGED <<pc, closeVars, flushMu, pending, waiter, sendVars, worker, errorEntries,
                   abandoned, panicked>>

SeeDone ==
    /\ worker = "running"
    /\ done
    /\ worker' = "draining"
    /\ UNCHANGED <<pc, closeVars, flushMu, pending, waiter, sendVars, flushVars, buffer, disk,
                   errorEntries, abandoned, panicked>>

\* Mutant: the worker stops without draining ch.
FinalizeAtOnce ==
    /\ worker = "draining"
    /\ WriteOut
    /\ worker' = "stopped"
    /\ UNCHANGED <<pc, closeVars, flushMu, pending, waiter, sendVars, flushVars, errorEntries,
                   abandoned, panicked>>

Finalize ==
    /\ worker = "draining"
    /\ ch = <<>>
    /\ WriteOut
    /\ worker' = "stopped"
    /\ UNCHANGED <<pc, closeVars, flushMu, pending, waiter, sendVars, flushVars, errorEntries,
                   abandoned, panicked>>

Worker == WriteEntry \/ Tick \/ ServeFlush \/ SeeDone \/ Finalize

-----------------------------------------------------------------------------
Call(g) ==
    \/ Len(accepted) + pending < MaxEntries /\ Log(g)   \* the bound of the model
    \/ Register(g) \/ SendEntry(g) \/ DropEntry(g)
    \/ FlushLock(g) \/ Flush(g)
    \/ CloseOnce(g) \/ CloseDone(g) \/ CloseReturns(g)
    \/ WaitReturns(g)

Next == ~panicked /\ (Worker \/ \E g \in Caller : Call(g))

Spec == Init /\ [][Next]_vars

\* Goroutines run and timers fire; a case of the worker's select that stays ready is
\* picked some time (select chooses at random). A caller that waits for flushMu is not starved
\* (sync.Mutex hands the lock over to a waiter it has kept for a millisecond).
FairSpec ==
    /\ Spec
    /\ WF_vars(~panicked /\ (WriteEntry \/ Tick \/ ServeFlush))
    /\ WF_vars(~panicked /\ (SeeDone \/ Finalize))
    /\ \A g \in Caller :
           /\ SF_vars(~panicked /\ Register(g))
           /\ WF_vars(~panicked /\ (SendEntry(g) \/ DropEntry(g)))
           /\ WF_vars(~panicked /\ Flush(g))
           /\ WF_vars(~panicked /\ (CloseDone(g) \/ CloseReturns(g)))
           /\ WF_vars(~panicked /\ WaitReturns(g))

-----------------------------------------------------------------------------
(* Properties *)

\* pendingWG counts the entries that are under way, neither more nor fewer: those
\* whose log call has registered but not sent them, and those in ch.
PendingCounts == pending = Cardinality({g \in Caller : pc[g] = "send"}) + Len(ch)

\* A Flush that was answered has put on disk every entry accepted so far, those
\* that other goroutines logged just before it too (Flush's comment).
FlushWritesAll == acked => disk = accepted

\* When the worker stops, what was accepted before done was closed is in the file,
\* in the order in which it was accepted.
CloseWritesAll == worker = "stopped" => IsPrefix(SubSeq(accepted, 1, atClose), disk)

\* Unless a Flush has given up and left its Wait behind, pendingWG is never raised
\* between the release of a Wait and its return: flushMu keeps log out.
WaitGroupNotReused == panicked => abandoned

\* errorEntries holds the last ErrorLimit warnings and errors written, in order.
RecentErrors ==
    LET written == disk \o buffer
        errors  == {i \in DOMAIN written : written[i].isError}
        kept    == IF Cardinality(errors) < ErrorLimit THEN Cardinality(errors) ELSE ErrorLimit
        passed  == Cardinality(errors) - kept
    IN  /\ Len(errorEntries) = kept
        /\ \A i \in errors :
               Rank(errors, i) > passed => errorEntries[Rank(errors, i) - passed] = written[i]

\* A log call returns: a full channel, a Flush that holds flushMu, a Close or a
\* worker that has stopped do not block it for ever.
LogReturns == \A g \in Caller : pc[g] \in {"log", "send"} ~> (pc[g] = "idle" \/ panicked)
=============================================================================
