--------------------------- MODULE SerialRun_proofs ---------------------------
(* Theorems about SerialRun, for every set of inputs, every text on stderr,   *)
(* however it is cut into chunks, every limit of a line and of the tail, and  *)
(* every choice of exit codes: what is logged of stderr, what is kept of it   *)
(* for the error message, and what the exit code of the dispatcher means.     *)
EXTENDS SerialRun, FiniteSetTheorems, SequenceTheorems, WellFoundedInduction, TLAPS

\* What t holds behind its first a characters and up to the b-th.
Slice(t, a, b) == SubSeq(t, a + 1, b)

-----------------------------------------------------------------------------
(* The invariant of the writers *)

\* How much of what has arrived logWriter has been through.
Seen == given - Len(chunk)

Breaks(c) == {i \in 1 .. c : text[i] = Newline}

\* No newline stands between j and i, and one at j unless that is the beginning.
Follows(s, j, i) ==
    /\ j \in 0 .. (i - 1)
    /\ j # 0 => s[j] = Newline
    /\ \A k \in (j + 1) .. (i - 1) : s[k] # Newline

\* As much of a line as is kept.
Kept(line) == SubSeq(line, 1, IF Len(line) < LineLimit THEN Len(line) ELSE LineLimit)

TextTyped ==
    /\ text \in Seq(ToSet(text))
    /\ given \in 0 .. Len(text)
    /\ Len(chunk) \in 0 .. given
    /\ chunk = Slice(text, Seen, given)
    /\ buf \in Seq(ToSet(text))
    /\ lines \in Seq(Seq(ToSet(text) \cup {"."}))

\* Every line that has ended is logged, and of the one under way is kept what fits.
Logging ==
    /\ Len(lines) = Cardinality(Breaks(Seen))
    /\ \A i \in Breaks(Seen) : \E j \in Nat :
           /\ Follows(text, j, i)
           /\ lines[Out!Rank(Breaks(Seen), i)] = Out!Shown(Slice(text, j, i - 1))
    /\ \E j \in Nat :
           /\ Follows(text, j, Seen + 1)
           /\ buf = Kept(Slice(text, j, Seen))
           /\ dropped <=> Seen - j > LineLimit

Flushed == run.phase = "returned" /\ run.code = 0

TextInv ==
    /\ TextTyped
    /\ Out!TailExact
    /\ ~Flushed => Logging
    /\ Flushed => chunk = <<>> /\ Out!LinesLoggedAfter(TRUE)

-----------------------------------------------------------------------------
(* The invariant of the run and of the exit code *)

RunTyped ==
    run \in [phase : {"idle", "open", "backend", "ended", "returned"},
             ctx : {"live"} \cup CtxEnds, code : (-1 .. 255) \cup {NoCode}]

\* The code that stands for the way a context ended.
EndCode(ctx) == IF ctx = "timeout" THEN 124 ELSE 130

\* A code of 0 is one of a run that its context did not end.
RunMeans ==
    run.phase = "returned" =>
        /\ run.code \in -1 .. 255
        /\ run.code = 0 => run.ctx = "live"
        /\ run.ctx # "live" => run.code \in FailCodes \cup {EndCode(run.ctx)}

\* No task is run before it is planned, nor planned unless the arguments are accepted.
StagesInOrder ==
    /\ stage \in {"args", "plan"} => run.phase = "idle" /\ plan = NoPlan
    /\ stage \in {"args", "plan", "run"} => ~printed
    /\ stage \in {"plan", "run"} => cfg.accepted

\* What the exit code will mean is settled when the deferred calls are made.
ExitSettled ==
    stage \in {"close", "exited"} /\ Inv!Mode(args) = "serial" =>
        /\ exitCode = 0 <=> printed
        /\ printed => run.phase = "returned" /\ run.code = 0 /\ run.ctx = "live"
        /\ run.phase = "returned" /\ run.ctx # "live" =>
               exitCode \in FailCodes \cup {EndCode(run.ctx)}
        /\ ~cfg.accepted => run.phase = "idle" /\ exitCode = 1

-----------------------------------------------------------------------------
(* The invariant of the arguments and of the command *)

\* What a field of the configuration may hold: an argument, or what the code puts there.
Words == ToSet(args) \cup {Inv!Empty, ".", "codex", "claude"}

Gathered ==
    /\ args \in Seq(ToSet(args))
    /\ scanned \in 0 .. Len(args)
    /\ scan \in [at : {"flags", "value", "words"}, backend : Words,
                 words : Seq(ToSet(args)), bad : BOOLEAN]
    /\ Inv!Mode(args) = "parallel" => scan.at # "words"

\* Arguments that are accepted name a task and a backend, and a session to resume it in.
Config(c) ==
    /\ c \in [accepted : BOOLEAN, backend : Words, mode : {"new", "resume"},
              session : Words, task : Words, workdir : Words]
    /\ c.accepted =>
           /\ c.backend \in {"codex", "claude"}
           /\ c.mode = "resume" <=> c.session # Inv!Empty
           /\ c.task \in ToSet(args)

ConfigRead == Config(cfg)

PlanMade ==
    plan # NoPlan =>
        cfg.accepted /\ Inv!Planned(cfg, env) /\ plan = Inv!Plan(cfg, env)

\* What the arguments say and what is made of them.
argVars == <<args, env, scanned, scan, cfg, plan>>

IInv ==
    /\ Gathered /\ ConfigRead /\ PlanMade /\ StagesInOrder
    /\ TextInv /\ RunTyped /\ RunMeans /\ ExitSettled

-----------------------------------------------------------------------------
(* Helpers *)

\* Every set of naturals that has a member has a least one.
LEMMA Least ==
    ASSUME NEW T \in SUBSET Nat, T # {}
    PROVE  \E m \in T : \A k \in T : m <= k
PROOF
  <1>1. PICK m \in T : \A k \in T : ~(<<k, m>> \in OpToRel(<, Nat))
    BY NatLessThanWellFounded, WFMin
  <1>2. \A k \in T : ~(k < m)
    BY <1>1 DEF OpToRel
  <1> QED
    BY <1>2

\* What a slice is.
LEMMA SliceFacts ==
    ASSUME NEW X, NEW t \in Seq(X), NEW a \in Nat, NEW b \in Nat, a <= b, b <= Len(t)
    PROVE  /\ Slice(t, a, b) \in Seq(X)
           /\ Len(Slice(t, a, b)) = b - a
           /\ \A i \in 1 .. (b - a) : Slice(t, a, b)[i] = t[a + i]
PROOF
  <1>1. a + 1 \in Int /\ b \in Int /\ \A i \in (a + 1) .. b : t[i] \in X
    OBVIOUS
  <1>2. /\ SubSeq(t, a + 1, b) \in Seq(X)
        /\ Len(SubSeq(t, a + 1, b)) = IF a + 1 <= b THEN b - (a + 1) + 1 ELSE 0
        /\ \A i \in 1 .. b - (a + 1) + 1 : SubSeq(t, a + 1, b)[i] = t[a + 1 + i - 1]
    BY <1>1, SubSeqProperties
  <1> QED
    BY <1>2 DEF Slice

\* The beginning of a sequence.
LEMMA FromStart ==
    ASSUME NEW X, NEW t \in Seq(X), NEW b \in Nat, b <= Len(t)
    PROVE  /\ Slice(t, 0, b) \in Seq(X) /\ Len(Slice(t, 0, b)) = b
           /\ \A i \in 1 .. b : Slice(t, 0, b)[i] = t[i]
PROOF
  <1> DEFINE zero == 0
  <1> HIDE DEF zero
  <1>1. zero \in Nat /\ zero <= b /\ b - zero = b /\ \A i \in Nat : zero + i = i
    BY DEF zero
  <1>2. /\ Slice(t, zero, b) \in Seq(X) /\ Len(Slice(t, zero, b)) = b - zero
        /\ \A i \in 1 .. (b - zero) : Slice(t, zero, b)[i] = t[zero + i]
    BY <1>1, SliceFacts
  <1>3. \A i \in 1 .. b : Slice(t, zero, b)[i] = t[i]
    BY <1>1, <1>2
  <1> QED
    BY <1>1, <1>2, <1>3 DEF zero

\* A slice of a slice is one of the whole.
LEMMA SliceOfSlice ==
    ASSUME NEW X, NEW t \in Seq(X), NEW a \in Nat, NEW b \in Nat, a <= b, b <= Len(t),
           NEW k \in Nat, NEW l \in Nat, k <= l, l <= b - a
    PROVE  Slice(Slice(t, a, b), k, l) = Slice(t, a + k, a + l)
PROOF
  <1> DEFINE s == Slice(t, a, b)
  <1>1. /\ s \in Seq(X) /\ Len(s) = b - a
        /\ \A i \in 1 .. (b - a) : s[i] = t[a + i]
    BY SliceFacts
  <1> HIDE DEF s
  <1>2. /\ Slice(s, k, l) \in Seq(X) /\ Len(Slice(s, k, l)) = l - k
        /\ \A i \in 1 .. (l - k) : Slice(s, k, l)[i] = s[k + i]
    <2>1. s \in Seq(X) /\ k \in Nat /\ l \in Nat /\ k <= l /\ l <= Len(s)
      BY <1>1
    <2> QED
      BY <2>1, SliceFacts
  <1>3. /\ Slice(t, a + k, a + l) \in Seq(X) /\ Len(Slice(t, a + k, a + l)) = l - k
        /\ \A i \in 1 .. (l - k) : Slice(t, a + k, a + l)[i] = t[a + k + i]
    <2> DEFINE ak == a + k
               al == a + l
    <2>1. /\ ak \in Nat /\ al \in Nat /\ ak <= al /\ al <= Len(t)
          /\ al - ak = l - k /\ Len(t) \in Nat
      OBVIOUS
    <2> HIDE DEF ak, al
    <2>2. /\ Slice(t, ak, al) \in Seq(X) /\ Len(Slice(t, ak, al)) = al - ak
          /\ \A i \in 1 .. (al - ak) : Slice(t, ak, al)[i] = t[ak + i]
      BY <2>1, SliceFacts
    <2> QED
      BY <2>1, <2>2 DEF ak, al
  <1>4. \A i \in 1 .. (l - k) : Slice(s, k, l)[i] = Slice(t, a + k, a + l)[i]
    <2> TAKE i \in 1 .. (l - k)
    <2>1. k + i \in 1 .. (b - a) /\ a + (k + i) = a + k + i
      OBVIOUS
    <2> QED
      BY <1>1, <1>2, <1>3, <2>1
  <1>5. Slice(s, k, l) = Slice(t, a + k, a + l)
    BY <1>2, <1>3, <1>4, SeqEqual
  <1> QED
    BY <1>5 DEF s

\* Two slices that follow each other make one.
LEMMA SliceConcat ==
    ASSUME NEW X, NEW t \in Seq(X), NEW a \in Nat, NEW b \in Nat, NEW c \in Nat,
           a <= b, b <= c, c <= Len(t)
    PROVE  Slice(t, a, b) \o Slice(t, b, c) = Slice(t, a, c)
PROOF
  <1>1. a + 1 \in 1 .. Len(t) + 1 /\ b \in (a + 1) - 1 .. Len(t) /\ c \in b .. Len(t)
    OBVIOUS
  <1> QED
    BY <1>1, ConcatAdjacentSubSeq DEF Slice

\* Cutting off the beginning of a slice.
LEMMA DropOfSlice ==
    ASSUME NEW X, NEW t \in Seq(X), NEW a \in Nat, NEW b \in Nat, a <= b, b <= Len(t),
           NEW k \in Nat, k <= b - a
    PROVE  Out!Drop(Slice(t, a, b), k) = Slice(t, a + k, b)
PROOF
  <1>1. Len(Slice(t, a, b)) = b - a /\ b - a \in Nat /\ a + (b - a) = b
    BY SliceFacts
  <1>2. Slice(Slice(t, a, b), k, b - a) = Slice(t, a + k, a + (b - a))
    BY <1>1, SliceOfSlice
  <1> QED
    BY <1>1, <1>2 DEF Out!Drop, Slice

\* The last newline before i is the one that i follows.
LEMMA BreakUnique ==
    ASSUME NEW s, NEW i \in Nat, NEW j, Follows(s, j, i)
    PROVE  Out!LineBefore(s, i) = Slice(s, j, i - 1)
PROOF
  <1>1. \A k : Follows(s, k, i) => k = j
    BY DEF Follows
  <1>2. Out!BreakBefore(s, i) = j
    BY <1>1 DEF Follows, Out!BreakBefore
  <1> QED
    BY <1>2 DEF Out!LineBefore, Slice

\* What is kept of a line is its beginning, all of it if that fits.
LEMMA KeptFacts ==
    ASSUME NEW X, NEW w \in Seq(X)
    PROVE  LET m == IF Len(w) < LineLimit THEN Len(w) ELSE LineLimit IN
           /\ Kept(w) = Slice(w, 0, m)
           /\ Kept(w) \in Seq(X) /\ Len(Kept(w)) = m
           /\ \A i \in 1 .. m : Kept(w)[i] = w[i]
PROOF
  <1> DEFINE m == IF Len(w) < LineLimit THEN Len(w) ELSE LineLimit
  <1>1. Kept(w) = Slice(w, 0, m)
    BY DEF Kept, Slice
  <1>2. m \in Nat /\ m <= Len(w)
    BY LimitsAssumption
  <1> HIDE DEF m
  <1>3. /\ Slice(w, 0, m) \in Seq(X) /\ Len(Slice(w, 0, m)) = m
        /\ \A i \in 1 .. m : Slice(w, 0, m)[i] = w[i]
    BY <1>2, FromStart
  <1> QED
    BY <1>1, <1>3 DEF m

\* A logged line is one of characters, and of the dots that mark a longer one.
LEMMA ShownTyped ==
    ASSUME NEW X, NEW w \in Seq(X)
    PROVE  Out!Shown(w) \in Seq(X \cup {"."})
PROOF
  <1> DEFINE k == Kept(w)
             Y == X \cup {"."}
  <1>1. k \in Seq(X) /\ Len(k) \in Nat /\ Len(k) <= LineLimit /\ LineLimit \in Nat
    BY KeptFacts, LimitsAssumption
  <1>2. k \in Seq(Y)
    BY <1>1, SeqMonotonic
  <1>3. Out!Shown(w) = IF Len(w) > LineLimit /\ LineLimit > 3
                       THEN SubSeq(k, 1, LineLimit - 3) \o <<".", ".", ".">> ELSE k
    BY DEF Out!Shown, Out!Cut, Kept
  <1>4. ASSUME Len(w) > LineLimit, LineLimit > 3
        PROVE  SubSeq(k, 1, LineLimit - 3) \in Seq(Y)
    <2>1. Len(k) = LineLimit
      BY <1>4, <1>1, KeptFacts
    <2>2. LineLimit - 3 \in Int /\ \A i \in 1 .. (LineLimit - 3) : k[i] \in Y
      BY <1>1, <1>2, <2>1
    <2> HIDE DEF k, Y
    <2> QED
      BY <2>2, SubSeqProperties
  <1>5. <<".", ".", ".">> \in Seq(Y)
    OBVIOUS
  <1> HIDE DEF k
  <1> QED
    BY <1>2, <1>3, <1>4, <1>5, ConcatProperties

\* What writeLimited makes of the kept part of a line is the kept part of the longer line.
LEMMA LimitedRight ==
    ASSUME NEW X, NEW l \in Seq(X), NEW p \in Seq(X),
           buf = Kept(l), dropped <=> Len(l) > LineLimit
    PROVE  /\ Out!Limited(p) = Kept(l \o p) /\ Kept(l \o p) \in Seq(X)
           /\ Out!DroppedBy(p) <=> Len(l \o p) > LineLimit
           /\ Out!Cut(Out!Limited(p), Out!DroppedBy(p)) = Out!Shown(l \o p)
PROOF
  <1> DEFINE both == l \o p
  <1>1. /\ Len(l) \in Nat /\ Len(p) \in Nat /\ LineLimit \in Nat /\ LineLimit > 0
        /\ both \in Seq(X) /\ Len(both) = Len(l) + Len(p)
        /\ \A i \in 1 .. Len(both) :
               both[i] = IF i <= Len(l) THEN l[i] ELSE p[i - Len(l)]
    BY ConcatProperties, LimitsAssumption
  <1> DEFINE least(m) == IF m < LineLimit THEN m ELSE LineLimit
  <1>2. \A m \in Nat : least(m) \in Nat /\ least(m) <= m /\ least(m) <= LineLimit
    BY <1>1
  <1>3. \A w \in Seq(X) : /\ Kept(w) = Slice(w, 0, least(Len(w)))
                          /\ Kept(w) \in Seq(X) /\ Len(Kept(w)) = least(Len(w))
                          /\ \A i \in 1 .. least(Len(w)) : Kept(w)[i] = w[i]
    BY KeptFacts
  <1> DEFINE room == Out!Room
             r == IF Len(p) < room THEN Len(p) ELSE room
  <1>4. room = LineLimit - least(Len(l)) /\ room \in Nat
    <2>1. Len(buf) = least(Len(l))
      BY <1>3
    <2>2. least(Len(l)) \in Nat /\ least(Len(l)) <= LineLimit
      BY <1>1, <1>2
    <2> HIDE DEF least
    <2> QED
      BY <1>1, <2>1, <2>2 DEF Out!Room
  <1> HIDE DEF room, both
  <1>5. r \in Nat /\ r <= Len(p) /\ least(Len(l)) + r = least(Len(both))
    <2>1. ASSUME NEW x \in Nat, NEW y \in Nat, NEW z \in Nat, z = LineLimit - least(x)
          PROVE  LET q == IF y < z THEN y ELSE z IN
                     q \in Nat /\ q <= y /\ least(x) + q = least(x + y)
      BY <1>1, <2>1
    <2>2. Len(l) \in Nat /\ Len(p) \in Nat /\ Len(both) = Len(l) + Len(p)
      BY <1>1
    <2> HIDE DEF least
    <2> QED
      BY <1>4, <2>1, <2>2
  <1>6. Out!Limited(p) = buf \o Slice(p, 0, r)
    BY DEF Out!Limited, Slice, room
  <1>7. Out!DroppedBy(p) <=> Len(both) > LineLimit
    BY <1>1, <1>4 DEF Out!DroppedBy, room
  <1> HIDE DEF r, least, both
  <1>8. /\ Slice(p, 0, r) \in Seq(X) /\ Len(Slice(p, 0, r)) = r
        /\ \A i \in 1 .. r : Slice(p, 0, r)[i] = p[i]
    <2>1. r \in Nat /\ r <= Len(p)
      BY <1>5
    <2> QED
      BY <2>1, FromStart
  <1>9. Out!Limited(p) = Kept(both)
    <2> DEFINE u == Slice(p, 0, r)
               v == Kept(l)
               m == least(Len(l))
    <2>1. /\ v \in Seq(X) /\ Len(v) = m /\ m \in Nat /\ m <= Len(l)
          /\ \A i \in 1 .. m : v[i] = l[i]
          /\ m < LineLimit => m = Len(l)
      <3>1. m \in Nat /\ m <= Len(l) /\ (m < LineLimit => m = Len(l))
        BY <1>1 DEF least
      <3> HIDE DEF m
      <3>2. v \in Seq(X) /\ Len(v) = m /\ \A i \in 1 .. m : v[i] = l[i]
        BY <1>3 DEF m
      <3> QED
        BY <3>1, <3>2
    <2>2. /\ u \in Seq(X) /\ Len(u) = r /\ \A i \in 1 .. r : u[i] = p[i]
      BY <1>8
    <2>3. /\ Kept(both) \in Seq(X) /\ Len(Kept(both)) = m + r
          /\ \A i \in 1 .. (m + r) : Kept(both)[i] = both[i]
      BY <1>1, <1>3, <1>5
    <2>4. r > 0 => m = Len(l)
      BY <1>1, <1>4, <2>1 DEF r
    <2> HIDE DEF u, v, m
    <2>5. /\ v \o u \in Seq(X) /\ Len(v \o u) = m + r
          /\ \A i \in 1 .. (m + r) : (v \o u)[i] = IF i <= m THEN v[i] ELSE u[i - m]
      <3>1. /\ v \o u \in Seq(X) /\ Len(v \o u) = Len(v) + Len(u)
            /\ \A i \in 1 .. Len(v) + Len(u) :
                   (v \o u)[i] = IF i <= Len(v) THEN v[i] ELSE u[i - Len(v)]
        <4>1. v \in Seq(X) /\ u \in Seq(X)
          BY <2>1, <2>2
        <4> QED
          BY <4>1, ConcatProperties
      <3>2. Len(v) = m /\ Len(u) = r
        BY <2>1, <2>2
      <3> QED
        BY <3>1, <3>2
    <2>6. \A i \in 1 .. (m + r) : (v \o u)[i] = Kept(both)[i]
      <3> TAKE i \in 1 .. (m + r)
      <3>1. m \in Nat /\ r \in Nat /\ m <= Len(l) /\ Len(l) \in Nat /\ m + r = Len(Kept(both))
        BY <1>1, <1>5, <2>1, <2>3
      <3>2. Kept(both)[i] = both[i] /\ i \in 1 .. Len(both)
        <4>1. m + r <= Len(both)
          BY <1>1, <1>2, <1>5 DEF m
        <4>2. Len(both) \in Nat
          BY <1>1
        <4> QED
          BY <2>3, <3>1, <4>1, <4>2
      <3>3. both[i] = IF i <= Len(l) THEN l[i] ELSE p[i - Len(l)]
        BY <1>1, <3>2
      <3>4. (v \o u)[i] = IF i <= m THEN v[i] ELSE u[i - m]
        BY <2>5
      <3>5. CASE i <= m
        <4>1. i \in 1 .. m /\ i <= Len(l)
          BY <3>1, <3>5
        <4>2. v[i] = l[i]
          BY <2>1, <4>1
        <4> QED
          BY <3>2, <3>3, <3>4, <3>5, <4>1, <4>2
      <3>6. CASE ~(i <= m)
        <4>1. i - m \in 1 .. r /\ r > 0
          BY <3>1, <3>6
        <4>2. m = Len(l)
          BY <2>4, <4>1
        <4>3. u[i - m] = p[i - m]
          BY <2>2, <4>1
        <4> QED
          BY <3>2, <3>3, <3>4, <3>6, <4>2, <4>3
      <3> QED
        BY <3>5, <3>6
    <2>7. v \o u = Kept(both)
      BY <2>3, <2>5, <2>6, SeqEqual
    <2> QED
      BY <1>6, <2>7 DEF u, v
  <1>10. Kept(both) \in Seq(X)
    BY <1>1, <1>3
  <1>11. Out!Cut(Out!Limited(p), Out!DroppedBy(p)) = Out!Shown(both)
    BY <1>7, <1>9 DEF Out!Cut, Out!Shown, Kept
  <1> QED
    BY <1>7, <1>9, <1>10, <1>11 DEF both

\* The characters of a text that can be read are read by their places.
LEMMA TextFacts ==
    ASSUME TextTyped
    PROVE  /\ Len(text) \in Nat /\ given \in Nat /\ given <= Len(text)
           /\ Seen \in Nat /\ Seen <= given /\ Len(chunk) = given - Seen
           /\ chunk \in Seq(ToSet(text))
           /\ \A i \in 1 .. Len(chunk) : chunk[i] = text[Seen + i]
PROOF
  <1>1. /\ Len(text) \in Nat /\ given \in Nat /\ given <= Len(text)
        /\ Seen \in Nat /\ Seen <= given /\ Len(chunk) = given - Seen
    BY DEF TextTyped, Seen
  <1>2. /\ Slice(text, Seen, given) \in Seq(ToSet(text))
        /\ \A i \in 1 .. (given - Seen) : Slice(text, Seen, given)[i] = text[Seen + i]
    <2>1. text \in Seq(ToSet(text))
      BY DEF TextTyped
    <2> QED
      BY <1>1, <2>1, SliceFacts
  <1> QED
    BY <1>1, <1>2 DEF TextTyped

\* The places of the newlines are finitely many, and each has a number of its own.
LEMMA BreaksFinite ==
    ASSUME NEW c \in Nat
    PROVE  IsFiniteSet(Breaks(c)) /\ Cardinality(Breaks(c)) \in Nat
PROOF
  <1>1. IsFiniteSet(1 .. c)
    BY FS_Interval
  <1>2. Breaks(c) \subseteq 1 .. c
    BY DEF Breaks
  <1> QED
    BY <1>1, <1>2, FS_Subset, FS_CardinalityType

\* The number of an element is how many there are up to it.
LEMMA SameRank == \A I, i : Out!Rank(I, i) = Cardinality({j \in I : j <= i})
PROOF
  <1>1. \A I : Out!Cardinality(I) = Cardinality(I)
    BY DEF Out!Cardinality, Cardinality
  <1> QED
    BY <1>1 DEF Out!Rank

\* A place beyond a finite set of places is the last of the set with it, and leaves the
\* numbers of the others as they are.
LEMMA LastRank ==
    ASSUME NEW I \in SUBSET Nat, IsFiniteSet(I), NEW k \in Nat, \A i \in I : i < k
    PROVE  /\ Cardinality(I \cup {k}) = Cardinality(I) + 1
           /\ Out!Rank(I \cup {k}, k) = Cardinality(I) + 1
           /\ \A i \in I : Out!Rank(I \cup {k}, i) = Out!Rank(I, i)
           /\ \A i \in I : Out!Rank(I, i) \in 1 .. Cardinality(I)
PROOF
  <1>1. k \notin I
    OBVIOUS
  <1>2. Cardinality(I \cup {k}) = Cardinality(I) + 1
    BY <1>1, FS_AddElement
  <1>3. {j \in I \cup {k} : j <= k} = I \cup {k}
    <2>1. \A j \in I \cup {k} : j <= k
      OBVIOUS
    <2> QED
      BY <2>1
  <1>4. \A i \in I : {j \in I \cup {k} : j <= i} = {j \in I : j <= i}
    OBVIOUS
  <1>5. ASSUME NEW i \in I
        PROVE  Out!Rank(I, i) \in 1 .. Cardinality(I)
    <2> DEFINE upto == {j \in I : j <= i}
    <2>1. upto \subseteq I /\ i \in upto
      OBVIOUS
    <2>2. /\ IsFiniteSet(upto) /\ Cardinality(upto) \in Nat /\ Cardinality(I) \in Nat
          /\ Cardinality(upto) <= Cardinality(I)
      BY <2>1, FS_Subset, FS_CardinalityType
    <2>3. Cardinality(upto) # 0
      BY <2>1, <2>2, FS_EmptySet
    <2>4. Out!Rank(I, i) = Cardinality(upto)
      BY SameRank
    <2> QED
      BY <2>2, <2>3, <2>4
  <1> QED
    BY <1>2, <1>3, <1>4, <1>5, SameRank

-----------------------------------------------------------------------------
(* tailBuffer *)

\* Writing a chunk of any size moves the tail on by that much.
LEMMA TailRight ==
    ASSUME TextTyped, Out!TailExact, NEW n \in 1 .. (Len(text) - given), NEW new, new = given + n
    PROVE  Out!TailWrite(Slice(text, given, new))
               = Out!Drop(Slice(text, 0, new),
                          IF new > TailLimit THEN new - TailLimit ELSE 0)
PROOF
  <1> DEFINE from  == IF given > TailLimit THEN given - TailLimit ELSE 0
             from2 == IF new > TailLimit THEN new - TailLimit ELSE 0
             p     == Slice(text, given, new)
             over  == Len(tail) + Len(p) - TailLimit
             X     == ToSet(text)
  <1>1. /\ text \in Seq(X) /\ Len(text) \in Nat /\ given \in Nat /\ new \in Nat
        /\ given <= new /\ new <= Len(text) /\ given <= Len(text)
        /\ TailLimit \in Nat /\ TailLimit > 0 /\ n \in Nat /\ n > 0 /\ new = given + n
    BY LimitsAssumption DEF TextTyped
  <1>2. /\ from \in Nat /\ from <= given /\ from2 \in Nat /\ from2 <= new
        /\ from <= from2 /\ given - from <= TailLimit
        /\ n >= TailLimit => from2 = given + (n - TailLimit)
        /\ n < TailLimit => from2 <= given
        /\ from + (from2 - from) = from2
        /\ n < TailLimit /\ (given - from) + n - TailLimit <= 0 => from2 = from
        /\ n < TailLimit /\ (given - from) + n - TailLimit > 0 =>
               from2 - from = (given - from) + n - TailLimit
    BY <1>1
  <1> HIDE DEF X, from, from2
  <1>3. Out!Drop(Slice(text, 0, new), from2) = Slice(text, from2, new)
    <2>1. /\ 0 \in Nat /\ 0 <= new /\ from2 <= new - 0 /\ 0 + from2 = from2
      BY <1>1, <1>2
    <2>2. Out!Drop(Slice(text, 0, new), from2) = Slice(text, 0 + from2, new)
      BY <1>1, <1>2, <2>1, DropOfSlice
    <2> QED
      BY <2>1, <2>2
  <1>4. tail = Slice(text, from, given)
    <2>1. tail = Out!Drop(Slice(text, 0, given), from)
      BY DEF Out!TailExact, Slice, from
    <2>2. /\ 0 \in Nat /\ 0 <= given /\ from <= given - 0 /\ 0 + from = from
      BY <1>1, <1>2
    <2>3. Out!Drop(Slice(text, 0, given), from) = Slice(text, 0 + from, given)
      BY <1>1, <1>2, <2>2, DropOfSlice
    <2> QED
      BY <2>1, <2>2, <2>3
  <1>5. Len(tail) = given - from /\ Len(p) = n
    <2>1. Len(Slice(text, from, given)) = given - from
      BY <1>1, <1>2, SliceFacts
    <2>2. Len(p) = new - given
      BY <1>1, SliceFacts
    <2> QED
      BY <1>1, <1>4, <2>1, <2>2
  <1>6. ASSUME n >= TailLimit
        PROVE  Out!TailWrite(p) = Slice(text, from2, new)
    <2> DEFINE k == n - TailLimit
    <2>1. k \in Nat /\ k <= new - given /\ given + k = from2
      BY <1>1, <1>2, <1>6
    <2> HIDE DEF k
    <2>2. Out!Drop(p, k) = Slice(text, given + k, new)
      BY <1>1, <2>1, DropOfSlice
    <2>3. Out!TailWrite(p) = Out!Drop(p, k)
      BY <1>1, <1>5, <1>6 DEF Out!TailWrite, k
    <2> QED
      BY <2>1, <2>2, <2>3
  <1>7. ASSUME n < TailLimit, over <= 0
        PROVE  Out!TailWrite(p) = Slice(text, from2, new)
    <2>1. from2 = from
      BY <1>2, <1>5, <1>7
    <2>2. Out!TailWrite(p) = tail \o p
      BY <1>1, <1>5, <1>7 DEF Out!TailWrite
    <2>3. Slice(text, from, given) \o p = Slice(text, from, new)
      BY <1>1, <1>2, SliceConcat
    <2> QED
      BY <1>4, <2>1, <2>2, <2>3
  <1>8. ASSUME n < TailLimit, over > 0
        PROVE  Out!TailWrite(p) = Slice(text, from2, new)
    <2>1. over = from2 - from /\ over \in Nat /\ over <= given - from /\ from + over = from2
          /\ from2 <= given
      BY <1>1, <1>2, <1>5, <1>8
    <2>2. Out!TailWrite(p) = Out!Drop(tail, over) \o p
      BY <1>1, <1>5, <1>8 DEF Out!TailWrite
    <2> HIDE DEF over, p
    <2>3. Out!Drop(Slice(text, from, given), over) = Slice(text, from + over, given)
      BY <1>1, <1>2, <2>1, DropOfSlice
    <2>4. Slice(text, from2, given) \o p = Slice(text, from2, new)
      BY <1>1, <1>2, <2>1, SliceConcat DEF p
    <2> QED
      BY <1>4, <2>1, <2>2, <2>3, <2>4
  <1>9. over \in Int
    BY <1>1, <1>2, <1>5
  <1>10. Out!TailWrite(p) = Slice(text, from2, new)
    BY <1>1, <1>6, <1>7, <1>8, <1>9
  <1> QED
    BY <1>3, <1>10 DEF from2

-----------------------------------------------------------------------------
(* logWriter *)

\* What has arrived, as a text of its own, has the same lines.
LEMMA SameLines ==
    ASSUME TextTyped
    PROVE  LET s == Slice(text, 0, given) IN
           /\ s \in Seq(ToSet(text)) /\ Len(s) = given
           /\ {i \in DOMAIN s : s[i] = Newline} = Breaks(given)
           /\ \A i \in 1 .. (given + 1) : \A j \in Nat :
                  Follows(text, j, i) => Out!LineBefore(s, i) = Slice(text, j, i - 1)
PROOF
  <1> DEFINE s == Slice(text, 0, given)
             X == ToSet(text)
  <1>1. /\ given \in Nat /\ given <= Len(text) /\ text \in Seq(X)
    BY TextFacts DEF TextTyped
  <1> HIDE DEF X
  <1>2. /\ s \in Seq(X) /\ Len(s) = given
        /\ \A i \in 1 .. given : s[i] = text[i]
    BY <1>1, FromStart
  <1>3. {i \in DOMAIN s : s[i] = Newline} = Breaks(given)
    <2>1. DOMAIN s = 1 .. given
      BY <1>2
    <2> QED
      BY <1>2, <2>1 DEF Breaks
  <1>4. ASSUME NEW i \in 1 .. (given + 1), NEW j \in Nat, Follows(text, j, i)
        PROVE  Out!LineBefore(s, i) = Slice(text, j, i - 1)
    <2>1. Follows(s, j, i)
      <3> HIDE DEF s
      <3>1. j \in 0 .. (i - 1) /\ i - 1 <= given /\ i \in Nat
        BY <1>1, <1>4 DEF Follows
      <3>2. j # 0 => s[j] = text[j]
        BY <1>1, <1>2, <3>1
      <3>3. \A k \in (j + 1) .. (i - 1) : s[k] = text[k]
        BY <1>1, <1>2, <3>1
      <3> QED
        BY <1>4, <3>2, <3>3 DEF Follows
    <2>2. Out!LineBefore(s, i) = Slice(s, j, i - 1)
      <3> HIDE DEF s
      <3> QED
        BY <1>1, <2>1, BreakUnique
    <2> DEFINE e == i - 1
    <2>3. /\ j <= e /\ e \in Nat /\ e <= given - 0 /\ 0 + j = j /\ 0 + e = e /\ 0 <= given
          /\ 0 \in Nat
      BY <1>1, <1>4 DEF Follows
    <2> HIDE DEF e
    <2>4. Slice(s, j, e) = Slice(text, 0 + j, 0 + e)
      BY <1>1, <2>3, SliceOfSlice
    <2> QED
      BY <2>2, <2>3, <2>4 DEF e
  <1> QED
    BY <1>2, <1>3, <1>4 DEF X

\* Once a chunk has been gone through, exactly the lines that have ended are logged.
LEMMA LoggedRight ==
    ASSUME TextTyped, Logging, chunk = <<>>
    PROVE  Out!LinesLoggedAfter(FALSE)
PROOF
  <1> DEFINE s == Slice(text, 0, given)
             ends == {i \in DOMAIN s : s[i] = Newline}
                         \cup IF FALSE /\ Out!LineBefore(s, given + 1) # <<>>
                              THEN {given + 1} ELSE {}
  <1>1. Seen = given /\ given \in Nat
    <2>1. Len(chunk) = 0
      BY DEF Seen
    <2> QED
      BY <2>1, TextFacts DEF Seen
  <1>2. ends = Breaks(given)
    BY SameLines
  <1>3. Len(lines) = Cardinality(ends)
    BY <1>1, <1>2 DEF Logging
  <1>4. ASSUME NEW i \in ends
        PROVE  lines[Out!Rank(ends, i)] = Out!Shown(Out!LineBefore(s, i))
    <2>1. i \in Breaks(given) /\ i \in 1 .. (given + 1)
      BY <1>1, <1>2, <1>4 DEF Breaks
    <2>2. PICK j \in Nat :
              /\ Follows(text, j, i)
              /\ lines[Out!Rank(Breaks(given), i)] = Out!Shown(Slice(text, j, i - 1))
      BY <1>1, <2>1 DEF Logging
    <2>3. Out!LineBefore(s, i) = Slice(text, j, i - 1)
      BY <2>1, <2>2, SameLines
    <2> HIDE DEF s, ends
    <2> QED
      BY <1>2, <2>2, <2>3
  <1>5. SubSeq(text, 1, given) = s /\ \A I : Out!Cardinality(I) = Cardinality(I)
    BY DEF Slice, Out!Cardinality, Cardinality
  <1> QED
    BY <1>3, <1>4, <1>5 DEF Out!LinesLoggedAfter

\* Flush adds what follows the last newline, unless nothing does.
LEMMA FlushRight ==
    ASSUME TextTyped, Logging, chunk = <<>>, Out!Flush
    PROVE  TextTyped' /\ Out!LinesLoggedAfter(TRUE)' /\ chunk' = <<>> /\ UNCHANGED <<text, given, tail>>
PROOF
  <1> DEFINE X == ToSet(text)
             Y == Seq(X \cup {"."})
             s == Slice(text, 0, given)
             B == Breaks(given)
  <1>1. /\ UNCHANGED <<text, given, chunk, tail>> /\ buf' = <<>>
        /\ lines' = IF buf = <<>> THEN lines ELSE Append(lines, Out!Cut(buf, dropped))
    BY DEF Out!Flush
  <1>2. Seen = given /\ given \in Nat /\ given <= Len(text) /\ text \in Seq(X) /\ lines \in Seq(Y)
    <2>1. Len(chunk) = 0
      BY DEF Seen
    <2> QED
      BY <2>1, TextFacts DEF Seen, TextTyped
  <1>3. PICK j \in Nat : /\ Follows(text, j, given + 1)
                         /\ buf = Kept(Slice(text, j, given))
                         /\ dropped <=> given - j > LineLimit
    BY <1>2 DEF Logging
  <1> DEFINE rest == Slice(text, j, given)
  <1>4. /\ j <= given /\ rest \in Seq(X) /\ Len(rest) = given - j
        /\ Out!LineBefore(s, given + 1) = rest
    <2>1. j <= given /\ given + 1 \in 1 .. (given + 1) /\ (given + 1) - 1 = given
      BY <1>2, <1>3 DEF Follows
    <2>2. rest \in Seq(X) /\ Len(rest) = given - j
      BY <1>2, <2>1, SliceFacts
    <2>3. Out!LineBefore(s, given + 1) = Slice(text, j, (given + 1) - 1)
      BY <1>3, <2>1, SameLines
    <2> QED
      BY <2>1, <2>2, <2>3
  <1> HIDE DEF rest, X
  <1>5. buf = <<>> <=> rest = <<>>
    <2>1. Len(buf) = IF Len(rest) < LineLimit THEN Len(rest) ELSE LineLimit
      BY <1>3, <1>4, KeptFacts DEF rest
    <2>2. LineLimit > 0 /\ LineLimit \in Nat /\ Len(rest) \in Nat
      BY <1>4, LimitsAssumption
    <2>3. buf \in Seq(X)
      BY <1>3, <1>4, KeptFacts DEF rest
    <2> QED
      BY <1>4, <2>1, <2>2, <2>3, EmptySeq
  <1>6. Out!Cut(buf, dropped) = Out!Shown(rest) /\ Out!Shown(rest) \in Y
    <2>1. dropped <=> Len(rest) > LineLimit
      BY <1>3, <1>4
    <2>2. buf = Kept(rest)
      BY <1>3 DEF rest
    <2> QED
      BY <1>4, <2>1, <2>2, ShownTyped DEF Out!Cut, Out!Shown, Kept
  <1>7. lines' \in Seq(Y)
    <2> HIDE DEF Y
    <2> QED
      BY <1>1, <1>2, <1>6
  <1>8. TextTyped'
    BY <1>1, <1>7 DEF TextTyped, X, Seen
  <1> DEFINE ends == B \cup IF TRUE /\ Out!LineBefore(s, given + 1) # <<>>
                            THEN {given + 1} ELSE {}
  <1>9. /\ Len(lines') = Cardinality(ends)
        /\ \A i \in ends : lines'[Out!Rank(ends, i)] = Out!Shown(Out!LineBefore(s, i))
    <2>1. /\ Len(lines) = Cardinality(B)
          /\ \A i \in B : lines[Out!Rank(B, i)] = Out!Shown(Out!LineBefore(s, i))
      <3>1. Len(lines) = Cardinality(B)
        BY <1>2 DEF Logging
      <3>2. ASSUME NEW i \in B
            PROVE  lines[Out!Rank(B, i)] = Out!Shown(Out!LineBefore(s, i))
        <4>1. i \in 1 .. (given + 1)
          BY <1>2, <3>2 DEF Breaks
        <4>2. PICK k \in Nat : /\ Follows(text, k, i)
                               /\ lines[Out!Rank(B, i)] = Out!Shown(Slice(text, k, i - 1))
          BY <1>2, <3>2 DEF Logging
        <4>3. Out!LineBefore(s, i) = Slice(text, k, i - 1)
          BY <4>1, <4>2, SameLines
        <4> HIDE DEF s, B
        <4> QED
          BY <4>2, <4>3
      <3> QED
        BY <3>1, <3>2
    <2>2. CASE rest = <<>>
      <3>1. lines' = lines /\ ends = B
        BY <1>1, <1>4, <1>5, <2>2
      <3> HIDE DEF s, B, ends
      <3> QED
        BY <2>1, <3>1
    <2>3. CASE rest # <<>>
      <3> DEFINE last == given + 1
      <3>1. lines' = Append(lines, Out!Shown(rest)) /\ ends = B \cup {last}
        BY <1>1, <1>4, <1>5, <1>6, <2>3
      <3>2. /\ B \in SUBSET Nat /\ last \in Nat /\ \A i \in B : i < last
            /\ IsFiniteSet(B) /\ Cardinality(B) \in Nat
        BY <1>2, BreaksFinite DEF Breaks
      <3>3. Out!LineBefore(s, last) = rest
        BY <1>4
      <3> HIDE DEF s, B, ends, last, Y
      <3>4. /\ Cardinality(ends) = Cardinality(B) + 1
            /\ Out!Rank(ends, last) = Cardinality(B) + 1
            /\ \A i \in B : Out!Rank(ends, i) = Out!Rank(B, i)
            /\ \A i \in B : Out!Rank(B, i) \in 1 .. Cardinality(B)
        BY <3>1, <3>2, LastRank
      <3>5. /\ Len(lines') = Len(lines) + 1
            /\ lines'[Len(lines) + 1] = Out!Shown(rest)
            /\ \A i \in 1 .. Len(lines) : lines'[i] = lines[i]
        BY <1>2, <1>6, <3>1
      <3>6. ASSUME NEW i \in ends
            PROVE  lines'[Out!Rank(ends, i)] = Out!Shown(Out!LineBefore(s, i))
        <4>1. CASE i \in B
          BY <2>1, <3>4, <3>5, <4>1
        <4>2. CASE i = last
          BY <2>1, <3>3, <3>4, <3>5, <4>2
        <4> QED
          BY <3>1, <3>6, <4>1, <4>2
      <3> QED
        BY <2>1, <3>2, <3>4, <3>5, <3>6
    <2> QED
      BY <2>2, <2>3
  <1>10. Out!LinesLoggedAfter(TRUE)'
    <2>1. B = {i \in DOMAIN s : s[i] = Newline}
      BY SameLines
    <2>2. /\ SubSeq(text, 1, given) = s /\ SubSeq(text', 1, given') = s
          /\ \A I : Out!Cardinality(I) = Cardinality(I)
      BY <1>1 DEF Slice, Out!Cardinality, Cardinality
    <2> DEFINE all == {i \in DOMAIN s : s[i] = Newline}
                          \cup IF TRUE /\ Out!LineBefore(s, given + 1) # <<>>
                               THEN {given + 1} ELSE {}
    <2>3. all = ends
      BY <2>1
    <2> HIDE DEF ends
    <2>4. /\ Len(lines') = Out!Cardinality(all)
          /\ \A i \in all : lines'[Out!Rank(all, i)] = Out!Shown(Out!LineBefore(s, i))
      BY <1>9, <2>2, <2>3
    <2> HIDE DEF s
    <2> QED
      BY <1>1, <2>2, <2>4 DEF Out!LinesLoggedAfter
  <1> QED
    BY <1>1, <1>8, <1>10

\* A chunk that arrives goes to the tail at once, and waits for logWriter.
LEMMA DeliverRight ==
    ASSUME TextTyped, Logging, Out!TailExact, Out!Deliver
    PROVE  TextTyped' /\ Logging' /\ Out!TailExact'
PROOF
  <1>1. PICK n \in 1 .. (Len(text) - given) :
            LET p == SubSeq(text, given + 1, given + n)
            IN  chunk' = p /\ tail' = Out!TailWrite(p) /\ given' = given + n
    BY DEF Out!Deliver
  <1>2. chunk = <<>> /\ UNCHANGED <<text, buf, dropped, lines>>
    BY DEF Out!Deliver
  <1>3. /\ chunk' = Slice(text, given, given') /\ given' = given + n
        /\ tail' = Out!TailWrite(Slice(text, given, given'))
    BY <1>1 DEF Slice
  <1>4. /\ Seen = given /\ given \in Nat /\ given' \in Nat /\ given <= given'
        /\ given' <= Len(text) /\ Len(text) \in Nat /\ text \in Seq(ToSet(text))
    <2>1. Len(chunk) = 0
      BY <1>2
    <2> QED
      BY <1>3, <2>1, TextFacts DEF Seen, TextTyped
  <1>5. Len(chunk') = given' - given
    BY <1>3, <1>4, SliceFacts
  <1>6. /\ given' - (given' - given) = given
        /\ given' \in 0 .. Len(text) /\ given' - given \in 0 .. given'
    <2>1. \A x, y, z \in Nat :
              x <= y /\ y <= z => y - (y - x) = x /\ y \in 0 .. z /\ y - x \in 0 .. y
      OBVIOUS
    <2> QED
      BY <1>4, <2>1
  <1>7. Seen' = given
    BY <1>5, <1>6 DEF Seen
  <1>8. TextTyped'
    <2>1. chunk' = Slice(text', Seen', given')
      BY <1>2, <1>3, <1>7
    <2>2. given' \in 0 .. Len(text') /\ Len(chunk') \in 0 .. given'
      BY <1>2, <1>5, <1>6
    <2> QED
      BY <1>2, <2>1, <2>2 DEF TextTyped, Slice
  <1>9. Logging'
    <2>1. Breaks(Seen)' = Breaks(Seen)
      BY <1>2, <1>4, <1>7 DEF Breaks
    <2> QED
      BY <1>2, <1>4, <1>7, <2>1 DEF Logging, Follows, Slice, Kept
  <1>10. Out!TailExact'
    <2>1. tail' = Out!Drop(Slice(text, 0, given'),
                           IF given' > TailLimit THEN given' - TailLimit ELSE 0)
      BY <1>3, TailRight
    <2>2. Slice(text, 0, given') = SubSeq(text', 1, given')
      BY <1>2 DEF Slice
    <2> QED
      BY <1>3, <2>1, <2>2 DEF Out!TailExact
  <1> QED
    BY <1>8, <1>9, <1>10

\* The first newline of a chunk ends the line under way.
LEMMA WriteLineRight ==
    ASSUME TextTyped, Logging, Out!TailExact, Out!WriteLine
    PROVE  TextTyped' /\ Logging' /\ Out!TailExact'
PROOF
  <1> DEFINE X == ToSet(text)
             Y == Seq(X \cup {"."})
             c == Seen
             b == Out!BreakIn(chunk)
             i == c + b
             e == i - 1
             p == SubSeq(chunk, 1, b - 1)
  <1>1. /\ Out!Contains(chunk, Newline)
        /\ lines' = Append(lines, Out!Cut(Out!Limited(p), Out!DroppedBy(p)))
        /\ buf' = <<>> /\ dropped' = FALSE
        /\ chunk' = Out!Drop(chunk, b)
        /\ UNCHANGED <<text, given, tail>>
    BY DEF Out!WriteLine
  <1>2. /\ c \in Nat /\ given \in Nat /\ Len(text) \in Nat /\ c <= given /\ given <= Len(text)
        /\ text \in Seq(X) /\ chunk \in Seq(X) /\ Len(chunk) = given - c
        /\ chunk = Slice(text, c, given)
        /\ \A k \in 1 .. Len(chunk) : chunk[k] = text[c + k]
        /\ lines \in Seq(Y)
    BY TextFacts DEF TextTyped
  <1>3. /\ b \in 1 .. Len(chunk) /\ chunk[b] = Newline
        /\ \A k \in 1 .. (b - 1) : chunk[k] # Newline
    <2> DEFINE T == {k \in 1 .. Len(chunk) : chunk[k] = Newline}
    <2>1. T \in SUBSET Nat /\ T # {}
      BY <1>1 DEF Out!Contains
    <2>2. PICK m \in T : \A k \in T : m <= k
      BY <2>1, Least
    <2>3. m \in DOMAIN chunk /\ chunk[m] = Newline /\ \A k \in 1 .. (m - 1) : chunk[k] # Newline
      BY <1>2, <2>2
    <2>4. DOMAIN chunk = 1 .. Len(chunk)
      BY <1>2, LenProperties
    <2> HIDE DEF T
    <2> QED
      BY <2>3, <2>4 DEF Out!BreakIn
  <1>4. PICK j \in Nat : /\ Follows(text, j, c + 1)
                         /\ buf = Kept(Slice(text, j, c))
                         /\ dropped <=> c - j > LineLimit
    BY DEF Logging
  <1> HIDE DEF X, c, b
  <1>5. /\ b \in Nat /\ b > 0 /\ i \in Nat /\ c < i /\ i <= given /\ j <= c /\ e \in Nat
        /\ c <= e /\ e <= Len(text) /\ j <= e /\ i <= Len(text)
    BY <1>2, <1>3, <1>4 DEF Follows
  <1>6. p = Slice(text, c, e)
    <2> DEFINE f == b - 1
    <2>1. /\ f \in Nat /\ 0 \in Nat /\ 0 <= f /\ f <= given - c /\ c + 0 = c /\ c + f = e
      BY <1>2, <1>3, <1>5
    <2> HIDE DEF f, e, i
    <2>2. Slice(Slice(text, c, given), 0, f) = Slice(text, c + 0, c + f)
      BY <1>2, <2>1, SliceOfSlice
    <2>3. p = Slice(chunk, 0, f)
      BY DEF Slice, f
    <2> QED
      BY <1>2, <2>1, <2>2, <2>3
  <1> HIDE DEF e
  <1> DEFINE line == Slice(text, j, e)
  <1>7. Slice(text, j, c) \o p = line
    <2>1. Slice(text, j, c) \o Slice(text, c, e) = Slice(text, j, e)
      <3>1. text \in Seq(X) /\ c \in Nat
        BY <1>2
      <3> QED
        BY <1>5, <3>1, SliceConcat
    <2> QED
      BY <1>6, <2>1
  <1>8. /\ Out!Cut(Out!Limited(p), Out!DroppedBy(p)) = Out!Shown(line)
        /\ Out!Shown(line) \in Y
    <2> DEFINE l == Slice(text, j, c)
    <2>0. text \in Seq(X) /\ c \in Nat /\ c <= Len(text)
      BY <1>2
    <2>1. l \in Seq(X) /\ Len(l) = c - j
      BY <1>5, <2>0, SliceFacts
    <2>2. p \in Seq(X)
      BY <1>5, <1>6, <2>0, SliceFacts
    <2>3. line \in Seq(X)
      BY <1>5, <2>0, SliceFacts
    <2>4. buf = Kept(l) /\ (dropped <=> Len(l) > LineLimit)
      BY <1>4, <2>1
    <2> HIDE DEF l, p, line
    <2>5. Out!Cut(Out!Limited(p), Out!DroppedBy(p)) = Out!Shown(l \o p)
      BY <2>1, <2>2, <2>4, LimitedRight
    <2> QED
      BY <1>7, <2>3, <2>5, ShownTyped DEF l
  <1>9. /\ chunk' = Slice(text, i, given) /\ Len(chunk') = given - i
    <2>1. b \in Nat /\ b <= given - c /\ c + b = i
      BY <1>2, <1>3
    <2>2. chunk' = Slice(text, c + b, given)
      BY <1>1, <1>2, <2>1, DropOfSlice
    <2>3. text \in Seq(X) /\ given \in Nat /\ given <= Len(text)
      BY <1>2
    <2> HIDE DEF i
    <2>4. Len(Slice(text, i, given)) = given - i
      BY <1>5, <2>3, SliceFacts
    <2> QED
      BY <2>1, <2>2, <2>4
  <1> HIDE DEF i
  <1>10. Seen' = i
    BY <1>1, <1>2, <1>5, <1>9 DEF Seen
  <1>11. lines' = Append(lines, Out!Shown(line)) /\ lines' \in Seq(Y)
    <2> HIDE DEF line, Y, p
    <2> QED
      BY <1>1, <1>2, <1>8
  <1>12. TextTyped'
    <2>1. chunk' = Slice(text', Seen', given')
      BY <1>1, <1>9, <1>10
    <2>2. given' \in 0 .. Len(text') /\ Len(chunk') \in 0 .. given' /\ buf' \in Seq(X)
      BY <1>1, <1>2, <1>5, <1>9
    <2> QED
      BY <1>1, <1>2, <1>11, <2>1, <2>2 DEF TextTyped, Slice, X
  <1>13. Follows(text, j, i) /\ text[i] = Newline
    <2>1. text[i] = Newline
      BY <1>2, <1>3 DEF i
    <2>2. ASSUME NEW k \in (j + 1) .. (i - 1)
          PROVE  text[k] # Newline
      <3>0. \A m \in (j + 1) .. ((c + 1) - 1) : text[m] # Newline
        BY <1>4 DEF Follows
      <3>1. CASE k <= c
        <4>1. k \in (j + 1) .. ((c + 1) - 1)
          BY <1>2, <1>5, <2>2, <3>1
        <4> QED
          BY <3>0, <4>1
      <3>2. CASE k > c
        <4>1. k - c \in 1 .. (b - 1) /\ c + (k - c) = k /\ k - c \in 1 .. Len(chunk)
          BY <1>2, <1>3, <1>5, <2>2, <3>2 DEF i
        <4> QED
          BY <1>2, <1>3, <4>1
      <3> QED
        BY <1>2, <1>5, <2>2, <3>1, <3>2
    <2>3. j \in 0 .. (i - 1) /\ (j # 0 => text[j] = Newline)
      BY <1>2, <1>4, <1>5 DEF Follows
    <2> QED
      BY <2>1, <2>2, <2>3 DEF Follows
  <1>14. Breaks(i) = Breaks(c) \cup {i}
    <2>1. ASSUME NEW k \in 1 .. i, text[k] = Newline
          PROVE  k \in 1 .. c \/ k = i
      BY <1>2, <1>4, <1>5, <1>13, <2>1 DEF Follows
    <2> QED
      BY <1>2, <1>5, <1>13, <2>1 DEF Breaks
  <1>15. Logging'
    <2> DEFINE B == Breaks(c)
    <2>1. /\ B \in SUBSET Nat /\ i \in Nat /\ \A k \in B : k < i
          /\ IsFiniteSet(B) /\ Cardinality(B) \in Nat
      <3>1. B \in SUBSET Nat /\ i \in Nat /\ \A k \in B : k < i
        BY <1>2, <1>5 DEF Breaks
      <3> QED
        BY <1>2, <3>1, BreaksFinite
    <2>2. Len(lines) = Cardinality(B)
      BY DEF Logging, c
    <2>3. \A k \in B : \E m \in Nat :
              /\ Follows(text, m, k)
              /\ lines[Out!Rank(B, k)] = Out!Shown(Slice(text, m, k - 1))
      BY DEF Logging, c
    <2>4. Breaks(Seen)' = B \cup {i}
      BY <1>1, <1>10, <1>14 DEF Breaks
    <2> DEFINE all == B \cup {i}
    <2> HIDE DEF B, line, Y
    <2>5. /\ Cardinality(all) = Cardinality(B) + 1
          /\ Out!Rank(all, i) = Cardinality(B) + 1
          /\ \A k \in B : Out!Rank(all, k) = Out!Rank(B, k)
          /\ \A k \in B : Out!Rank(B, k) \in 1 .. Cardinality(B)
      BY <2>1, LastRank
    <2>6. /\ Len(lines') = Len(lines) + 1
          /\ lines'[Len(lines) + 1] = Out!Shown(line)
          /\ \A k \in 1 .. Len(lines) : lines'[k] = lines[k]
      BY <1>2, <1>8, <1>11
    <2> HIDE DEF all
    <2>7. ASSUME NEW k \in all
          PROVE  \E m \in Nat : /\ Follows(text, m, k)
                                /\ lines'[Out!Rank(all, k)] = Out!Shown(Slice(text, m, k - 1))
      <3>1. CASE k \in B
        BY <2>2, <2>3, <2>5, <2>6, <3>1
      <3>2. CASE k = i
        BY <1>13, <2>2, <2>5, <2>6, <3>2 DEF line, e
      <3> QED
        BY <2>7, <3>1, <3>2 DEF all
    <2>8. Len(lines') = Cardinality(all)
      BY <2>1, <2>2, <2>5, <2>6
    <2>9. Follows(text, i, i + 1) /\ buf' = Kept(Slice(text, i, i)) /\ ~(i - i > LineLimit)
      <3>1. Follows(text, i, i + 1)
        BY <1>5, <1>13 DEF Follows
      <3>2. Slice(text, i, i) = <<>>
        BY <1>5, SubSeqEmpty DEF Slice
      <3>3. Kept(<<>>) = <<>>
        BY LimitsAssumption, SubSeqEmpty DEF Kept
      <3> QED
        BY <1>1, <1>5, <3>1, <3>2, <3>3, LimitsAssumption
    <2> HIDE DEF Logging
    <2>10. /\ Len(lines') = Cardinality(Breaks(Seen)')
           /\ \A k \in Breaks(Seen)' : \E m \in Nat :
                  /\ Follows(text, m, k)'
                  /\ lines'[Out!Rank(Breaks(Seen)', k)] = Out!Shown(Slice(text, m, k - 1)')
      BY <1>1, <2>4, <2>7, <2>8 DEF all, Follows, Slice
    <2>11. \E m \in Nat : /\ Follows(text, m, Seen + 1)'
                          /\ buf' = Kept(Slice(text, m, Seen))'
                          /\ dropped' <=> Seen' - m > LineLimit
      BY <1>1, <1>5, <1>10, <2>9 DEF Follows, Slice, Kept
    <2> QED
      BY <2>10, <2>11 DEF Logging
  <1>16. Out!TailExact'
    BY <1>1 DEF Out!TailExact, Out!Drop
  <1> QED
    BY <1>12, <1>15, <1>16

\* What no newline ends is kept until the next chunk comes.
LEMMA WriteRestRight ==
    ASSUME TextTyped, Logging, Out!TailExact, Out!WriteRest
    PROVE  TextTyped' /\ Logging' /\ Out!TailExact'
PROOF
  <1> DEFINE X == ToSet(text)
             c == Seen
  <1>1. /\ ~Out!Contains(chunk, Newline)
        /\ buf' = Out!Limited(chunk) /\ dropped' = Out!DroppedBy(chunk)
        /\ chunk' = <<>>
        /\ UNCHANGED <<text, given, lines, tail>>
    BY DEF Out!WriteRest
  <1>2. /\ c \in Nat /\ given \in Nat /\ Len(text) \in Nat /\ c <= given /\ given <= Len(text)
        /\ text \in Seq(X) /\ chunk \in Seq(X) /\ Len(chunk) = given - c
        /\ chunk = Slice(text, c, given)
        /\ \A k \in 1 .. Len(chunk) : chunk[k] = text[c + k]
    BY TextFacts DEF TextTyped
  <1>3. \A k \in (c + 1) .. given : text[k] # Newline
    <2> TAKE k \in (c + 1) .. given
    <2>1. k - c \in 1 .. Len(chunk) /\ c + (k - c) = k
      BY <1>2
    <2> QED
      BY <1>1, <1>2, <2>1 DEF Out!Contains
  <1>4. PICK j \in Nat : /\ Follows(text, j, c + 1)
                         /\ buf = Kept(Slice(text, j, c))
                         /\ dropped <=> c - j > LineLimit
    BY DEF Logging
  <1> HIDE DEF X, c
  <1>5. j <= c /\ j <= given /\ c <= Len(text)
    BY <1>2, <1>4 DEF Follows
  <1> DEFINE line == Slice(text, j, given)
             l == Slice(text, j, c)
  <1>6. l \o chunk = line
    BY <1>2, <1>5, SliceConcat
  <1>7. /\ l \in Seq(X) /\ Len(l) = c - j
        /\ line \in Seq(X) /\ Len(line) = given - j
    <2>1. l \in Seq(X) /\ Len(l) = c - j
      BY <1>2, <1>5, SliceFacts
    <2>2. line \in Seq(X) /\ Len(line) = given - j
      BY <1>2, <1>5, SliceFacts
    <2> QED
      BY <2>1, <2>2
  <1>8. /\ buf' = Kept(line) /\ Kept(line) \in Seq(X)
        /\ dropped' <=> given - j > LineLimit
    <2>1. l \in Seq(X) /\ chunk \in Seq(X) /\ buf = Kept(l) /\ (dropped <=> Len(l) > LineLimit)
      BY <1>2, <1>4, <1>7
    <2> HIDE DEF l, line
    <2>2. /\ Out!Limited(chunk) = Kept(l \o chunk) /\ Kept(l \o chunk) \in Seq(X)
          /\ Out!DroppedBy(chunk) <=> Len(l \o chunk) > LineLimit
      BY <2>1, LimitedRight
    <2> QED
      BY <1>1, <1>6, <1>7, <2>2
  <1>9. Len(chunk') = 0 /\ Seen' = given
    BY <1>1, <1>2 DEF Seen
  <1>10. TextTyped'
    <2>1. chunk' = Slice(text', Seen', given')
      BY <1>1, <1>2, <1>9, SubSeqEmpty DEF Slice
    <2>2. given' \in 0 .. Len(text') /\ Len(chunk') \in 0 .. given'
      BY <1>1, <1>2, <1>9
    <2> QED
      BY <1>1, <1>8, <2>1, <2>2 DEF TextTyped, X
  <1>11. Breaks(Seen)' = Breaks(c)
    <2>1. \A k \in 1 .. given : text[k] = Newline => k \in 1 .. c
      BY <1>2, <1>3
    <2> QED
      BY <1>1, <1>2, <1>9, <2>1 DEF Breaks
  <1>12. Follows(text, j, given + 1)
    <2>1. \A k \in (j + 1) .. ((c + 1) - 1) : text[k] # Newline
      BY <1>4 DEF Follows
    <2>2. \A k \in (j + 1) .. ((given + 1) - 1) :
              k \in (j + 1) .. ((c + 1) - 1) \/ k \in (c + 1) .. given
      BY <1>2, <1>5
    <2>3. j \in 0 .. ((given + 1) - 1) /\ (j # 0 => text[j] = Newline)
      BY <1>2, <1>4, <1>5 DEF Follows
    <2> QED
      BY <1>3, <2>1, <2>2, <2>3 DEF Follows
  <1>13. Logging'
    <2> HIDE DEF line, l
    <2>1. /\ Len(lines') = Cardinality(Breaks(Seen)')
          /\ \A k \in Breaks(Seen)' : \E m \in Nat :
                 /\ Follows(text, m, k)'
                 /\ lines'[Out!Rank(Breaks(Seen)', k)] = Out!Shown(Slice(text, m, k - 1)')
      BY <1>1, <1>11 DEF Logging, Follows, Slice, c
    <2>2. /\ Follows(text, j, Seen + 1)'
          /\ buf' = Kept(Slice(text, j, Seen))'
          /\ dropped' <=> Seen' - j > LineLimit
      BY <1>1, <1>8, <1>9, <1>12 DEF Follows, Slice, Kept, line
    <2> QED
      BY <1>4, <2>1, <2>2 DEF Logging
  <1>14. Out!TailExact'
    BY <1>1 DEF Out!TailExact, Out!Drop
  <1> QED
    BY <1>10, <1>13, <1>14

-----------------------------------------------------------------------------
(* The steps of the run *)

\* What a step of a run leaves is the state of a run, and no step follows its return.
LEMMA StepOfRun ==
    ASSUME RunTyped, RunMeans, NEW r \in Run!Steps(run), run' = r
    PROVE  /\ RunTyped' /\ RunMeans'
           /\ run.phase \in {"open", "backend", "ended"} /\ r.phase # "idle"
PROOF
  <1> USE DEF RunTyped
  <1>0. run.ctx \in {"live", "timeout", "cancelled"} /\ CtxEnds \subseteq {"timeout", "cancelled"}
    BY CtxEndsAssumption
  <1>1. CASE r \in Run!BackendStarts(run)
    BY <1>1 DEF Run!BackendStarts, RunMeans
  <1>2. CASE r \in Run!BackendEnds(run)
    BY <1>2 DEF Run!BackendEnds, RunMeans
  <1>3. CASE r \in Run!Returns(run)
    <2>1. PICK code \in Run!Codes(run) : r = [phase |-> "returned", ctx |-> run.ctx, code |-> code]
      BY <1>3 DEF Run!Returns
    <2>2. CASE run.phase = "open"
      <3>1. code \in FailCodes
        BY <2>1, <2>2 DEF Run!Codes
      <3>2. code \in 1 .. 255
        BY <3>1, CodesAssumption
      <3> QED
        BY <2>1, <2>2, <3>1, <3>2 DEF RunMeans
    <2>3. CASE run.phase = "ended" /\ run.ctx = "live"
      <3>1. code \in OwnCodes
        BY <2>1, <2>3 DEF Run!Codes
      <3>2. code \in -1 .. 255
        BY <3>1, CodesAssumption
      <3> QED
        BY <2>1, <2>3, <3>2 DEF RunMeans
    <2>4. CASE run.phase = "ended" /\ run.ctx # "live"
      <3>1. code = EndCode(run.ctx)
        BY <1>0, <2>1, <2>4 DEF Run!Codes, EndCode
      <3>2. code = 124 \/ code = 130
        BY <3>1 DEF EndCode
      <3> QED
        BY <2>1, <2>4, <3>1, <3>2 DEF RunMeans
    <2>5. CASE run.phase \in {"idle", "backend", "returned"}
      BY <2>1, <2>5 DEF Run!Codes
    <2> QED
      BY <2>2, <2>3, <2>4, <2>5
  <1>4. CASE r \in UNION {Run!ContextEnds(run, how) : how \in CtxEnds}
    <2>1. PICK how \in CtxEnds : r \in Run!ContextEnds(run, how)
      BY <1>4
    <2> QED
      BY <2>1 DEF Run!ContextEnds, Run!Listens, RunMeans
  <1> QED
    BY <1>1, <1>2, <1>3, <1>4 DEF Run!Steps

\* The last eight bits of a code are 0 only if it is.
LEMMA LastBits ==
    /\ \A code \in -1 .. 255 : code % 256 = 0 <=> code = 0
    /\ \A code \in 0 .. 255 : code % 256 = code
PROOF OBVIOUS

-----------------------------------------------------------------------------
(* The invariant of the writers is kept *)

LEMMA TextBegins ==
    ASSUME Init
    PROVE  TextInv
PROOF
  <1>1. /\ text \in Seq(ToSet(text)) /\ given = 0 /\ chunk = <<>> /\ buf = <<>>
        /\ dropped = FALSE /\ lines = <<>> /\ tail = <<>> /\ Len(chunk) = 0
    BY TextsAssumption DEF Init, Out!Init
  <1>2. Seen = 0
    <2>1. given = 0 /\ Len(chunk) = 0
      BY <1>1
    <2> QED
      BY <2>1 DEF Seen
  <1>3. Slice(text, 0, 0) = <<>> /\ Kept(<<>>) = <<>> /\ Out!Drop(<<>>, 0) = <<>>
    BY <1>1, SubSeqEmpty, LimitsAssumption DEF Slice, Kept, Out!Drop
  <1>4. TextTyped
    BY <1>1, <1>2, <1>3 DEF TextTyped
  <1>5. Out!TailExact
    <2>1. SubSeq(text, 1, given) = <<>>
      BY <1>1, <1>3 DEF Slice
    <2>2. ~(given > TailLimit)
      BY <1>1, LimitsAssumption
    <2> QED
      BY <1>1, <1>3, <2>1, <2>2 DEF Out!TailExact
  <1>6. Logging
    <2>1. Breaks(0) = {}
      BY DEF Breaks
    <2>2. Cardinality({}) = 0
      BY FS_EmptySet
    <2>3. Follows(text, 0, 0 + 1) /\ ~(0 - 0 > LineLimit)
      BY LimitsAssumption DEF Follows
    <2> QED
      BY <1>1, <1>2, <1>3, <2>1, <2>2, <2>3 DEF Logging
  <1>7. ~Flushed
    BY DEF Init, Run!Called, Flushed
  <1> QED
    BY <1>4, <1>5, <1>6, <1>7 DEF TextInv

\* What neither gives the writers a chunk nor flushes them leaves them as they are.
LEMMA TextKept ==
    ASSUME TextInv, UNCHANGED outVars, Flushed' <=> Flushed
    PROVE  TextInv'
PROOF
  <1>1. UNCHANGED <<text, given, chunk, buf, dropped, lines, tail>>
    BY DEF outVars
  <1>2. TextTyped' <=> TextTyped
    BY <1>1 DEF TextTyped, Seen, Slice
  <1>3. Logging' <=> Logging
    BY <1>1 DEF Logging, Breaks, Seen, Follows, Kept, Slice
  <1>4. Out!TailExact' <=> Out!TailExact
    BY <1>1 DEF Out!TailExact, Out!Drop
  <1>5. Out!LinesLoggedAfter(TRUE)' <=> Out!LinesLoggedAfter(TRUE)
    BY <1>1 DEF Out!LinesLoggedAfter, Out!LineBefore, Out!BreakBefore
  <1> QED
    BY <1>1, <1>2, <1>3, <1>4, <1>5 DEF TextInv

\* Every step of the writers, while the run has not returned.
LEMMA TextCopied ==
    ASSUME TextInv, ~Flushed, ~Flushed', Out!Copy
    PROVE  TextInv'
PROOF
  <1>1. TextTyped /\ Logging /\ Out!TailExact
    BY DEF TextInv
  <1>2. TextTyped' /\ Logging' /\ Out!TailExact'
    BY <1>1, DeliverRight, WriteLineRight, WriteRestRight DEF Out!Copy
  <1> QED
    BY <1>2 DEF TextInv

\* The flush of a run that succeeds.
LEMMA TextFlushed ==
    ASSUME TextInv, ~Flushed, Flushed', chunk = <<>>, Out!Flush
    PROVE  TextInv'
PROOF
  <1>1. TextTyped /\ Logging /\ Out!TailExact
    BY DEF TextInv
  <1>2. /\ TextTyped' /\ Out!LinesLoggedAfter(TRUE)' /\ chunk' = <<>>
        /\ UNCHANGED <<text, given, tail>>
    BY <1>1, FlushRight
  <1>3. Out!TailExact'
    BY <1>1, <1>2 DEF Out!TailExact, Out!Drop
  <1> QED
    BY <1>2, <1>3 DEF TextInv

-----------------------------------------------------------------------------
(* The arguments *)

\* One more argument leaves words that are arguments.
LEMMA ScanRight ==
    ASSUME Gathered, ScanArgs
    PROVE  Gathered'
PROOF
  <1> DEFINE arg == args[scanned + 1]
             A == ToSet(args)
             Scans == [at : {"flags", "value", "words"}, backend : Words,
                       words : Seq(A), bad : BOOLEAN]
  <1>1. /\ args \in Seq(A) /\ scanned \in 0 .. Len(args) /\ scanned < Len(args)
        /\ scan \in Scans /\ scanned' = scanned + 1 /\ args' = args
        /\ scan' = IF Inv!Mode(args) = "parallel" THEN Inv!ScanParallelArg(scan, arg)
                   ELSE Inv!ScanArg(scan, arg)
    BY DEF Gathered, ScanArgs, inputVars
  <1>2. arg \in A /\ Inv!Trim(arg) \in Words /\ A \subseteq Words
    <2>1. scanned + 1 \in 1 .. Len(args)
      BY <1>1
    <2> HIDE DEF A
    <2>2. arg \in A
      BY <1>1, <2>1
    <2> QED
      BY <2>2 DEF Words, Inv!Trim, A
  <1>3. \A flag \in DOMAIN Inv!BackendFlags : Inv!BackendFlags[flag] \in Words
    BY DEF Inv!BackendFlags, Words
  <1> HIDE DEF arg, A
  <1>4. Append(scan.words, arg) \in Seq(A)
    BY <1>1, <1>2
  <1>5. /\ [scan EXCEPT !.words = Append(@, arg)] \in Scans
        /\ [scan EXCEPT !.at = "words"] \in Scans
        /\ [scan EXCEPT !.at = "value"] \in Scans
        /\ [scan EXCEPT !.bad = TRUE] \in Scans
    BY <1>1, <1>4
  <1>6. \A value \in Words : Inv!GiveBackend(scan, value) \in Scans
    BY <1>1 DEF Inv!GiveBackend
  <1> HIDE DEF Words
  <1>7. Inv!ScanArg(scan, arg) \in Scans
    BY <1>1, <1>2, <1>3, <1>5, <1>6 DEF Inv!ScanArg
  <1>8. scan.at # "words" => /\ Inv!ScanParallelArg(scan, arg) \in Scans
                             /\ Inv!ScanParallelArg(scan, arg).at # "words"
    <2>1. \A value : Inv!GiveBackend(scan, value).at = "flags"
      BY <1>1 DEF Inv!GiveBackend
    <2> QED
      BY <1>1, <1>2, <1>3, <1>5, <1>6, <2>1 DEF Inv!ScanParallelArg
  <1>9. /\ scan' \in Scans
        /\ Inv!Mode(args) = "parallel" => scan'.at # "words"
    <2>1. Inv!Mode(args) = "parallel" => scan.at # "words"
      BY DEF Gathered
    <2> HIDE DEF Scans
    <2> QED
      BY <1>1, <1>7, <1>8, <2>1
  <1>10. Words' = Words /\ ToSet(args)' = A /\ scanned' \in 0 .. Len(args)
    <2>1. scanned' \in 0 .. Len(args)
      BY <1>1
    <2>2. args' = args
      BY <1>1
    <2>3. Words' = Words /\ ToSet(args)' = A
      BY <2>2 DEF Words, A
    <2> QED
      BY <2>1, <2>3
  <1> QED
    BY <1>1, <1>9, <1>10 DEF Gathered, Inv!Mode

\* What is made of the words.
LEMMA ParseRight ==
    ASSUME Gathered, NEW c, c = Inv!ParseArgs(scan)
    PROVE  Config(c)
PROOF
  <1> DEFINE A == ToSet(args)
             w == scan.words
             resumes == w # <<>> /\ Head(w) = "resume"
             own == IF resumes THEN SubSeq(w, 3, Len(w)) ELSE w
  <1>1. w \in Seq(A) /\ scan.backend \in Words /\ A \subseteq Words
    BY DEF Gathered, Words
  <1>2. own \in Seq(A)
    BY <1>1
  <1>3. own # <<>> => Head(own) \in A
    BY <1>2
  <1>4. resumes /\ own # <<>> => Inv!Trim(w[2]) \in Words
    <2>1. ASSUME resumes, own # <<>>
          PROVE  w[2] \in A
      BY <1>1, <2>1
    <2> QED
      BY <2>1 DEF Inv!Trim, Words
  <1>5. Len(own) > 1 => own[2] \in A
    BY <1>2
  <1> DEFINE ok == /\ Inv!Understood(scan)
                   /\ own # <<>>
                   /\ resumes => Inv!Trim(w[2]) # Inv!Empty
                   /\ Len(own) > 1 => own[2] # "-"
             session == IF resumes /\ own # <<>> THEN Inv!Trim(w[2]) ELSE Inv!Empty
             task == IF own = <<>> THEN Inv!Empty ELSE Head(own)
             workdir == IF Len(own) > 1 THEN own[2] ELSE "."
             mode == IF resumes THEN "resume" ELSE "new"
  <1>6. c = [accepted |-> ok, backend |-> scan.backend, mode |-> mode,
                session |-> session, task |-> task, workdir |-> workdir]
    BY DEF Inv!ParseArgs
  <1>7. /\ session \in Words /\ task \in Words /\ workdir \in Words
        /\ mode \in {"new", "resume"} /\ ok \in BOOLEAN
    BY <1>1, <1>3, <1>4, <1>5 DEF Words
  <1>8. ok => /\ scan.backend \in {"codex", "claude"}
              /\ mode = "resume" <=> session # Inv!Empty
              /\ task \in A
    BY <1>3 DEF Inv!Understood, Inv!Backends
  <1> HIDE DEF ok, session, task, workdir, mode
  <1> HIDE DEF Words, A
  <1>9. /\ c \in [accepted : BOOLEAN, backend : Words, mode : {"new", "resume"},
                      session : Words, task : Words, workdir : Words]
         /\ c.accepted = ok /\ c.backend = scan.backend /\ c.mode = mode
         /\ c.session = session /\ c.task = task
    BY <1>1, <1>6, <1>7
  <1> QED
    BY <1>8, <1>9 DEF Config, A

-----------------------------------------------------------------------------
(* The command *)

\* Where the elements of two sequences are that are put together.
LEMMA Joined ==
    ASSUME NEW X, NEW p \in Seq(X), NEW q \in Seq(X)
    PROVE  /\ p \o q \in Seq(X) /\ Len(p \o q) = Len(p) + Len(q)
           /\ \A i \in 1 .. Len(p) : (p \o q)[i] = p[i]
           /\ \A i \in 1 .. Len(q) : (p \o q)[Len(p) + i] = q[i]
PROOF
  <1>1. /\ p \o q \in Seq(X) /\ Len(p \o q) = Len(p) + Len(q)
        /\ \A i \in 1 .. Len(p) + Len(q) :
               (p \o q)[i] = IF i <= Len(p) THEN p[i] ELSE q[i - Len(p)]
    BY ConcatProperties
  <1>2. Len(p) \in Nat /\ Len(q) \in Nat
    OBVIOUS
  <1>3. ASSUME NEW i \in 1 .. Len(q)
        PROVE  (p \o q)[Len(p) + i] = q[i]
    <2>1. /\ Len(p) + i \in 1 .. Len(p) + Len(q) /\ ~(Len(p) + i <= Len(p))
          /\ (Len(p) + i) - Len(p) = i
      BY <1>2
    <2> QED
      BY <1>1, <2>1
  <1> QED
    BY <1>1, <1>2, <1>3

\* What the property asks of every command: its last argument, and where it names a
\* session.
Says(a, mode, session, target) ==
    /\ Last(a) = target
    /\ mode = "resume" <=> \E i \in 1 .. (Len(a) - 1) :
           a[i] \in {"resume", "-r"} /\ a[i + 1] = session

\* And of one that names the directory.
Enters(a, workdir) == \E i \in 1 .. (Len(a) - 1) : a[i] = "-C" /\ a[i + 1] = workdir

\* The arguments of Codex.
LEMMA CodexRight ==
    ASSUME NEW mode \in {"new", "resume"}, NEW session, NEW workdir, NEW model, NEW target,
           mode = "resume" <=> session # Inv!Empty,
           NEW a, a = <<"exec">> \o (IF model = Inv!Empty THEN <<>> ELSE <<"-m", model>>)
                      \o <<"--dangerously-bypass-approvals-and-sandbox", "--skip-git-repo-check">>
                      \o (IF mode = "resume" THEN <<"--json", "resume", session>>
                          ELSE <<"-C", workdir, "--json">>)
                      \o <<target>>
    PROVE  Says(a, mode, session, target) /\ (mode = "new" => Enters(a, workdir))
PROOF
  <1> DEFINE d == "--dangerously-bypass-approvals-and-sandbox"
             k == "--skip-git-repo-check"
             X == {"exec", "-m", model, d, k, "--json", "resume", session, "-C", workdir,
                   target}
             E == <<"exec">>
             M == IF model = Inv!Empty THEN <<>> ELSE <<"-m", model>>
             F == <<d, k>>
             R == IF mode = "resume" THEN <<"--json", "resume", session>>
                  ELSE <<"-C", workdir, "--json">>
             T == <<target>>
  <1>1. a = (((E \o M) \o F) \o R) \o T
    OBVIOUS
  <1>2. E \in Seq(X) /\ M \in Seq(X) /\ F \in Seq(X) /\ R \in Seq(X) /\ T \in Seq(X)
    <2>1. E \in Seq(X) /\ F \in Seq(X) /\ T \in Seq(X)
      OBVIOUS
    <2>2. <<>> \in Seq(X) /\ <<"-m", model>> \in Seq(X)
      OBVIOUS
    <2>3. <<"--json", "resume", session>> \in Seq(X) /\ <<"-C", workdir, "--json">> \in Seq(X)
      OBVIOUS
    <2> HIDE DEF X
    <2> QED
      BY <2>1, <2>2, <2>3
  <1>0. Inv!Empty \notin {"exec", "-m", d, k, "--json", "-C"}
    BY Zenon DEF Inv!Empty
  <1>3. Len(E) = 1 /\ E[1] # Inv!Empty /\ Len(F) = 2 /\ F[1] # Inv!Empty /\ F[2] # Inv!Empty
    <2>1. Len(E) = 1 /\ E[1] = "exec" /\ Len(F) = 2 /\ F[1] = d /\ F[2] = k
      OBVIOUS
    <2> HIDE DEF E, F
    <2> QED
      BY <1>0, <2>1
  <1>3a. Len(M) \in Nat /\ \A i \in 1 .. Len(M) : M[i] # Inv!Empty
    <2>1. CASE model = Inv!Empty
      <3>1. M = <<>> /\ Len(M) = 0
        BY <2>1
      <3> HIDE DEF M
      <3> QED
        BY <3>1
    <2>2. CASE model # Inv!Empty
      <3>1. M = <<"-m", model>>
        BY <2>2
      <3>2. Len(M) = 2 /\ M[1] = "-m" /\ M[2] = model
        BY <3>1
      <3>3. \A i \in 1 .. 2 : i = 1 \/ i = 2
        OBVIOUS
      <3> HIDE DEF M
      <3> QED
        BY <1>0, <2>2, <3>2, <3>3
    <2> QED
      BY <2>1, <2>2
  <1>4. Len(R) = 3 /\ Len(T) = 1 /\ T[1] = target
    OBVIOUS
  <1>5. /\ mode = "resume" => R[1] = "--json" /\ R[2] = "resume" /\ R[3] = session
        /\ mode # "resume" => R[1] = "-C" /\ R[2] = workdir /\ R[3] = "--json"
    OBVIOUS
  <1> HIDE DEF E, M, F, R, T, X
  <1> DEFINE EM == E \o M
             H  == EM \o F
             HR == H \o R
  <1>6. EM \in Seq(X) /\ Len(EM) \in Nat /\ \A i \in 1 .. Len(EM) : EM[i] # Inv!Empty
    <2>1. /\ EM \in Seq(X) /\ Len(EM) = Len(E) + Len(M)
          /\ \A i \in 1 .. Len(E) : EM[i] = E[i]
          /\ \A i \in 1 .. Len(M) : EM[Len(E) + i] = M[i]
      BY <1>2, Joined
    <2> HIDE DEF EM
    <2>2. ASSUME NEW i \in 1 .. Len(EM)
          PROVE  EM[i] # Inv!Empty
      <3>1. i \in 1 .. (1 + Len(M))
        BY <1>3, <2>1
      <3>2. CASE i = 1
        BY <1>3, <2>1, <3>2
      <3>3. CASE i # 1
        <4>1. i - 1 \in 1 .. Len(M) /\ 1 + (i - 1) = i
          BY <1>3a, <3>1, <3>3
        <4> QED
          BY <1>3, <1>3a, <2>1, <4>1
      <3> QED
        BY <3>2, <3>3
    <2> QED
      BY <1>3, <1>3a, <2>1, <2>2
  <1> HIDE DEF EM
  <1>7. H \in Seq(X) /\ Len(H) \in Nat /\ Len(H) > 0 /\ \A i \in 1 .. Len(H) : H[i] # Inv!Empty
    <2> DEFINE m == Len(EM)
    <2>1. /\ H \in Seq(X) /\ Len(H) = m + Len(F)
          /\ \A i \in 1 .. m : H[i] = EM[i]
          /\ \A i \in 1 .. Len(F) : H[m + i] = F[i]
      BY <1>2, <1>6, Joined
    <2>2. m \in Nat
      BY <1>6
    <2> HIDE DEF H
    <2>3. ASSUME NEW i \in 1 .. Len(H)
          PROVE  H[i] # Inv!Empty
      <3> HIDE DEF m
      <3>1. i \in 1 .. (m + 2)
        BY <1>3, <2>1
      <3>2. i \in 1 .. m \/ i = m + 1 \/ i = m + 2
        BY <2>2, <3>1
      <3>3. 1 \in 1 .. 2 /\ 2 \in 1 .. 2
        OBVIOUS
      <3>4. H[m + 1] = F[1] /\ H[m + 2] = F[2]
        BY <1>3, <2>1, <3>3
      <3> QED
        BY <1>3, <1>6, <2>1, <3>2, <3>4 DEF m
    <2> QED
      BY <1>3, <2>1, <2>2, <2>3
  <1> HIDE DEF H
  <1> DEFINE h == Len(H)
  <1>8. /\ h \in Nat /\ h > 0 /\ a \in Seq(X) /\ Len(a) = h + 4
        /\ \A i \in 1 .. h : a[i] # Inv!Empty
        /\ a[h + 1] = R[1] /\ a[h + 2] = R[2] /\ a[h + 3] = R[3] /\ a[h + 4] = target
    <2>1. /\ HR \in Seq(X) /\ Len(HR) = h + Len(R)
          /\ \A i \in 1 .. h : HR[i] = H[i]
          /\ \A i \in 1 .. Len(R) : HR[h + i] = R[i]
      BY <1>2, <1>7, Joined
    <2> DEFINE n == Len(HR)
    <2>2. a = HR \o T
      BY <1>1 DEF HR, H, EM
    <2> HIDE DEF HR
    <2>3. /\ a \in Seq(X) /\ Len(a) = n + Len(T)
          /\ \A i \in 1 .. n : a[i] = HR[i]
          /\ \A i \in 1 .. Len(T) : a[n + i] = T[i]
      <3>1. HR \in Seq(X) /\ T \in Seq(X)
        BY <1>2, <2>1
      <3>2. /\ HR \o T \in Seq(X) /\ Len(HR \o T) = n + Len(T)
            /\ \A i \in 1 .. n : (HR \o T)[i] = HR[i]
            /\ \A i \in 1 .. Len(T) : (HR \o T)[n + i] = T[i]
        BY <3>1, Joined
      <3> QED
        BY <2>2, <3>2
    <2>4. h \in Nat /\ h > 0
      BY <1>7
    <2>5. n = h + 3
      BY <1>4, <2>1
    <2> HIDE DEF h, n
    <2>6. \A i \in 1 .. h : i \in 1 .. n
      BY <2>4, <2>5
    <2>7. \A i \in 1 .. 3 : h + i \in 1 .. n
      BY <2>4, <2>5
    <2>8. 1 \in 1 .. 3 /\ 2 \in 1 .. 3 /\ 3 \in 1 .. 3 /\ 1 \in 1 .. 1
      OBVIOUS
    <2>9. \A i \in 1 .. h : a[i] # Inv!Empty
      <3>1. \A i \in 1 .. h : H[i] # Inv!Empty
        BY <1>7 DEF h
      <3> QED
        BY <2>1, <2>3, <2>6, <3>1
    <2>10. \A i \in 1 .. 3 : a[h + i] = R[i]
      BY <1>4, <2>1, <2>3, <2>7
    <2>11. a[n + 1] = target
      BY <1>4, <2>3, <2>8
    <2>12. n + 1 = h + 4
      BY <2>4, <2>5
    <2> QED
      BY <1>4, <2>3, <2>4, <2>8, <2>9, <2>10, <2>11, <2>12
  <1> HIDE DEF h
  <1> DEFINE pairs == 1 .. (Len(a) - 1)
  <1>9. /\ h + 1 \in pairs /\ h + 2 \in pairs
        /\ (h + 1) + 1 = h + 2 /\ (h + 2) + 1 = h + 3 /\ (h + 3) + 1 = h + 4
        /\ \A i \in pairs : i + 1 \in 1 .. h \/ i = h \/ i = h + 1 \/ i = h + 2 \/ i = h + 3
    <2>1. h \in Nat /\ h > 0 /\ pairs = 1 .. ((h + 4) - 1)
      BY <1>8
    <2> HIDE DEF pairs
    <2>2. (h + 4) - 1 = h + 3
      BY <2>1
    <2>3. \A i \in 1 .. (h + 3) : i + 1 \in 1 .. h \/ i = h \/ i = h + 1 \/ i = h + 2 \/ i = h + 3
      BY <2>1
    <2> QED
      BY <2>1, <2>2, <2>3
  <1>10. Last(a) = target
    BY <1>8 DEF Last
  <1> HIDE DEF pairs
  <1>11. CASE mode = "resume"
    <2>1. a[h + 2] = "resume" /\ a[(h + 2) + 1] = session
      BY <1>5, <1>8, <1>9, <1>11
    <2> QED
      BY <1>9, <1>10, <1>11, <2>1 DEF Says, Enters, pairs
  <1>12. CASE mode = "new"
    <2>1. R[1] = "-C" /\ R[2] = workdir /\ R[3] = "--json" /\ session = Inv!Empty
      BY <1>5, <1>12
    <2>2. ASSUME NEW i \in pairs, a[i] \in {"resume", "-r"}
          PROVE  a[i + 1] # Inv!Empty
      <3>1. CASE i + 1 \in 1 .. h
        BY <1>8, <3>1
      <3>2. CASE i = h
        BY <1>0, <1>8, <2>1, <3>2
      <3>3. CASE i = h + 1
        BY <1>8, <2>1, <2>2, <3>3
      <3>4. CASE i = h + 2
        BY <1>0, <1>8, <1>9, <2>1, <3>4
      <3>5. CASE i = h + 3
        BY <1>8, <2>1, <2>2, <3>5
      <3> QED
        BY <1>9, <3>1, <3>2, <3>3, <3>4, <3>5
    <2>3. a[h + 1] = "-C" /\ a[(h + 1) + 1] = workdir
      BY <1>8, <1>9, <2>1
    <2> QED
      BY <1>9, <1>10, <1>12, <2>1, <2>2, <2>3 DEF Says, Enters, pairs
  <1> QED
    BY <1>11, <1>12

\* The arguments of Claude, which says nothing of the directory.
LEMMA ClaudeRight ==
    ASSUME NEW mode \in {"new", "resume"}, NEW session, NEW target,
           mode = "resume" <=> session # Inv!Empty,
           NEW a, a = <<"-p", "--dangerously-skip-permissions">>
                      \o (IF mode = "resume" /\ session # Inv!Empty THEN <<"-r", session>>
                          ELSE <<>>)
                      \o <<"--output-format", "stream-json", "--verbose", target>>
    PROVE  Says(a, mode, session, target)
PROOF
  <1> DEFINE d == "--dangerously-skip-permissions"
             f == "--output-format"
             j == "stream-json"
             v == "--verbose"
             X == {"-p", d, "-r", session, f, j, v, target}
             P == <<"-p", d>>
             S == IF mode = "resume" THEN <<"-r", session>> ELSE <<>>
             T == <<f, j, v, target>>
  <1>1. a = (P \o S) \o T
    OBVIOUS
  <1>2. P \in Seq(X) /\ T \in Seq(X) /\ S \in Seq(X)
    <2>1. P \in Seq(X) /\ T \in Seq(X)
      OBVIOUS
    <2>2. <<"-r", session>> \in Seq(X) /\ <<>> \in Seq(X)
      OBVIOUS
    <2> HIDE DEF X
    <2> QED
      BY <2>1, <2>2
  <1>3. /\ Len(P) = 2 /\ P[1] = "-p" /\ P[2] = d
        /\ Len(T) = 4 /\ T[1] = f /\ T[2] = j /\ T[3] = v /\ T[4] = target
    OBVIOUS
  <1>4. /\ mode = "resume" => Len(S) = 2 /\ S[1] = "-r" /\ S[2] = session
        /\ mode # "resume" => Len(S) = 0
    OBVIOUS
  <1> HIDE DEF P, S, T, X
  <1>5. /\ P \o S \in Seq(X) /\ Len(P \o S) = 2 + Len(S)
        /\ \A i \in 1 .. 2 : (P \o S)[i] = P[i]
        /\ \A i \in 1 .. Len(S) : (P \o S)[2 + i] = S[i]
    <2>1. /\ P \o S \in Seq(X) /\ Len(P \o S) = Len(P) + Len(S)
          /\ \A i \in 1 .. Len(P) : (P \o S)[i] = P[i]
          /\ \A i \in 1 .. Len(S) : (P \o S)[Len(P) + i] = S[i]
      BY <1>2, Joined
    <2> QED
      BY <1>3, <2>1
  <1> DEFINE PS == P \o S
  <1> HIDE DEF PS
  <1>6. /\ PS \in Seq(X) /\ Len(a) = Len(PS) + 4
        /\ \A i \in 1 .. Len(PS) : a[i] = PS[i]
        /\ \A i \in 1 .. 4 : a[Len(PS) + i] = T[i]
    <2>1. PS \in Seq(X) /\ a = PS \o T
      BY <1>1, <1>5 DEF PS
    <2>2. /\ Len(PS \o T) = Len(PS) + Len(T)
          /\ \A i \in 1 .. Len(PS) : (PS \o T)[i] = PS[i]
          /\ \A i \in 1 .. Len(T) : (PS \o T)[Len(PS) + i] = T[i]
      BY <1>2, <2>1, Joined
    <2> QED
      BY <1>3, <2>1, <2>2
  <1>7. 1 \in 1 .. 4 /\ 2 \in 1 .. 4 /\ 3 \in 1 .. 4 /\ 4 \in 1 .. 4 /\ 1 \in 1 .. 2 /\ 2 \in 1 .. 2
    OBVIOUS
  <1>8. CASE mode = "resume"
    <2>1. Len(PS) = 4 /\ PS[2 + 1] = "-r" /\ PS[2 + 2] = session
      BY <1>4, <1>5, <1>7, <1>8 DEF PS
    <2>2. PS[3] = "-r" /\ PS[4] = session
      BY <2>1
    <2>3. Len(a) = 8 /\ a[3] = "-r" /\ a[3 + 1] = session /\ a[4 + 4] = target
      BY <1>3, <1>6, <1>7, <2>1, <2>2
    <2>4. Last(a) = target
      BY <2>3 DEF Last
    <2>5. 3 \in 1 .. (Len(a) - 1)
      BY <2>3
    <2> QED
      BY <1>8, <2>3, <2>4, <2>5 DEF Says
  <1>9. CASE mode = "new"
    <2>1. Len(PS) = 2 /\ PS[1] = "-p" /\ PS[2] = d
      <3>1. Len(S) = 0
        BY <1>4, <1>9
      <3>2. Len(PS) = 2 + Len(S) /\ \A i \in 1 .. 2 : PS[i] = P[i]
        BY <1>5 DEF PS
      <3> QED
        BY <1>3, <1>7, <3>1, <3>2
    <2>2. /\ Len(a) = 6 /\ a[1] = "-p" /\ a[2] = d
          /\ a[2 + 1] = f /\ a[2 + 2] = j /\ a[2 + 3] = v /\ a[2 + 4] = target
      BY <1>3, <1>6, <1>7, <2>1
    <2>3. Last(a) = target
      BY <2>2 DEF Last
    <2>4. ASSUME NEW i \in 1 .. (Len(a) - 1)
          PROVE  a[i] \notin {"resume", "-r"}
      <3>1. i = 1 \/ i = 2 \/ i = 2 + 1 \/ i = 2 + 2 \/ i = 2 + 3
        BY <2>2
      <3> QED
        BY <2>2, <3>1
    <2> QED
      BY <1>9, <2>3, <2>4 DEF Says
  <1> QED
    BY <1>8, <1>9

\* A command that is planned from accepted arguments carries the task.
LEMMA PlanRight ==
    ASSUME ConfigRead, cfg.accepted, Inv!Planned(cfg, env), plan = Inv!Plan(cfg, env)
    PROVE  CommandCarriesTask
PROOF
  <1> DEFINE chosen == IF env.text # Inv!Empty /\ (~env.terminal \/ cfg.task = "-")
                       THEN env.text ELSE cfg.task
             task == IF env.prompt = Inv!Empty THEN chosen ELSE env.prompt \o chosen
             use == Inv!UseStdin(cfg, env)
             target == IF use THEN "-" ELSE task
             dir == IF cfg.workdir = Inv!Empty THEN "." ELSE cfg.workdir
             set == [cfg EXCEPT !.workdir = dir]
             pairs == 1 .. (Len(plan.args) - 1)
             right == /\ Says(plan.args, cfg.mode, cfg.session, target)
                      /\ cfg.mode = "new" /\ Inv!Trim(cfg.workdir) # Inv!Empty =>
                             plan.dir = cfg.workdir \/ Enters(plan.args, cfg.workdir)
  <1>1. Inv!TaskText(cfg, env) = chosen
    BY Zenon DEF Inv!TaskText, Inv!Planned, Inv!Piped, Inv!Explicit
  <1>2. Inv!Wrapped(Inv!TaskText(cfg, env), env) = task
    BY <1>1 DEF Inv!Wrapped
  <1>3. /\ cfg \in [accepted : BOOLEAN, backend : Words, mode : {"new", "resume"},
                    session : Words, task : Words, workdir : Words]
        /\ cfg.backend \in {"codex", "claude"}
        /\ cfg.mode = "resume" <=> cfg.session # Inv!Empty
        /\ cfg.task \in ToSet(args)
    BY DEF ConfigRead, Config
  <1>4. /\ set.mode = cfg.mode /\ set.session = cfg.session /\ set.workdir = dir
        /\ cfg.mode \in {"new", "resume"}
    BY <1>3
  <1> HIDE DEF chosen, set
  <1>5. /\ plan.args = IF cfg.backend = "claude" THEN Inv!ClaudeArgs(set, target)
                       ELSE Inv!CodexArgs(set, env.model, target)
        /\ plan.dir = IF cfg.backend = "claude" THEN Inv!Trim(dir) ELSE Inv!Empty
        /\ plan.stdin = IF use THEN <<task>> ELSE <<>>
    BY <1>2, <1>4 DEF Inv!Plan, set
  <1>6. \/ plan.stdin = <<task>> /\ target = "-"
        \/ /\ plan.stdin = <<>> /\ target = task
           /\ task = cfg.task /\ task \in ToSet(args)
           /\ task \notin SpecialTexts \cup {"-"}
    <2>1. CASE use
      BY <1>5, <2>1
    <2>2. CASE ~use
      <3>1. /\ ~Inv!Explicit(cfg) /\ ~Inv!Piped(cfg, env)
            /\ env.prompt = Inv!Empty /\ Inv!TaskText(cfg, env) \notin SpecialTexts
        BY <2>2 DEF Inv!UseStdin
      <3>2. Inv!TaskText(cfg, env) = cfg.task /\ cfg.task # "-"
        BY <3>1 DEF Inv!TaskText, Inv!Explicit
      <3>3. task = cfg.task
        BY <1>1, <3>1, <3>2
      <3> HIDE DEF use, task
      <3> QED
        BY <1>3, <1>5, <2>2, <3>1, <3>2, <3>3
    <2> QED
      BY <2>1, <2>2
  <1> HIDE DEF task, use, target
  <1>7. Inv!Trim(cfg.workdir) # Inv!Empty => dir = cfg.workdir /\ Inv!Trim(dir) = cfg.workdir
    BY Zenon DEF Inv!Trim
  <1>8. ASSUME cfg.backend = "codex"
        PROVE  right
    <2>1. plan.args = Inv!CodexArgs(set, env.model, target)
      BY <1>5, <1>8
    <2>2. /\ Says(plan.args, cfg.mode, cfg.session, target)
          /\ cfg.mode = "new" => Enters(plan.args, dir)
      <3> DEFINE mode == cfg.mode
                 session == cfg.session
                 model == env.model
                 a == plan.args
      <3>1. a = <<"exec">> \o (IF model = Inv!Empty THEN <<>> ELSE <<"-m", model>>)
                \o <<"--dangerously-bypass-approvals-and-sandbox", "--skip-git-repo-check">>
                \o (IF mode = "resume" THEN <<"--json", "resume", session>>
                    ELSE <<"-C", dir, "--json">>)
                \o <<target>>
        BY <1>4, <2>1, Zenon DEF Inv!CodexArgs
      <3>2. mode \in {"new", "resume"} /\ (mode = "resume" <=> session # Inv!Empty)
        BY <1>3
      <3> HIDE DEF mode, session, model, a, dir
      <3>3. Says(a, mode, session, target) /\ (mode = "new" => Enters(a, dir))
        BY <3>1, <3>2, CodexRight
      <3> QED
        BY <3>3 DEF mode, session, a
    <2>3. cfg.mode = "new" /\ Inv!Trim(cfg.workdir) # Inv!Empty => Enters(plan.args, cfg.workdir)
      <3>1. Inv!Trim(cfg.workdir) # Inv!Empty => dir = cfg.workdir
        BY <1>7
      <3> QED
        BY <2>2, <3>1
    <2> QED
      BY <2>2, <2>3
  <1>9. ASSUME cfg.backend = "claude"
        PROVE  right
    <2>1. plan.args = Inv!ClaudeArgs(set, target) /\ plan.dir = Inv!Trim(dir)
      BY <1>5, <1>9
    <2>2. Says(plan.args, cfg.mode, cfg.session, target)
      <3> DEFINE mode == cfg.mode
                 session == cfg.session
                 a == plan.args
      <3>1. a = <<"-p", "--dangerously-skip-permissions">>
                \o (IF mode = "resume" /\ session # Inv!Empty THEN <<"-r", session>> ELSE <<>>)
                \o <<"--output-format", "stream-json", "--verbose", target>>
        BY <1>4, <2>1, Zenon DEF Inv!ClaudeArgs
      <3>2. mode \in {"new", "resume"} /\ (mode = "resume" <=> session # Inv!Empty)
        BY <1>3
      <3> HIDE DEF mode, session, a
      <3>3. Says(a, mode, session, target)
        BY <3>1, <3>2, ClaudeRight
      <3> QED
        BY <3>3 DEF mode, session, a
    <2>3. Inv!Trim(cfg.workdir) # Inv!Empty => plan.dir = cfg.workdir
      BY <1>7, <2>1
    <2> QED
      BY <2>2, <2>3
  <1>10. right
    BY <1>3, <1>8, <1>9
  <1>11. /\ \/ plan.stdin = <<task>> /\ Last(plan.args) = "-"
            \/ /\ plan.stdin = <<>> /\ Last(plan.args) = task
               /\ task = cfg.task /\ Contains(args, task)
               /\ task \notin SpecialTexts \cup {"-"}
         /\ cfg.mode = "resume" <=> (\E i \in pairs :
                plan.args[i] \in {"resume", "-r"} /\ plan.args[i + 1] = cfg.session)
         /\ cfg.mode = "new" /\ Inv!Trim(cfg.workdir) # Inv!Empty =>
                plan.dir = cfg.workdir \/ \E i \in pairs :
                    plan.args[i] = "-C" /\ plan.args[i + 1] = cfg.workdir
    <2>1. \A x \in ToSet(args) : Contains(args, x)
      BY DEF Contains, ToSet
    <2> QED
      BY <1>6, <1>10, <2>1 DEF Says, Enters
  <1> QED
    BY <1>11 DEF CommandCarriesTask, task, chosen

-----------------------------------------------------------------------------
(* The invariant *)

LEMMA InitInv ==
    ASSUME Init
    PROVE  IInv
PROOF
  <1>1. TextInv
    BY TextBegins
  <1>2. /\ stage = "args" /\ ~printed
        /\ run = [phase |-> "idle", ctx |-> "live", code |-> NoCode]
    BY DEF Init, Run!Called
  <1>3. Gathered
    <2>1. args \in Seq(ToSet(args)) /\ scanned = 0 /\ scan = Inv!NoArgs
      BY InputsAssumption DEF Init
    <2>2. Inv!Empty \in Words
      BY DEF Words
    <2> HIDE DEF Words
    <2> QED
      BY <2>1, <2>2 DEF Gathered, Inv!NoArgs
  <1>4. ConfigRead
    <2>1. cfg = Inv!ParseArgs(scan)
      BY DEF Init, NoConfig
    <2> QED
      BY <1>3, <2>1, ParseRight DEF ConfigRead
  <1>5. plan = NoPlan
    BY DEF Init
  <1> QED
    BY <1>1, <1>2, <1>3, <1>4, <1>5
       DEF IInv, PlanMade, RunTyped, RunMeans, StagesInOrder, ExitSettled

\* What a step leaves that reads no argument and plans nothing.
LEMMA ArgsKept ==
    ASSUME IInv, UNCHANGED argVars
    PROVE  Gathered' /\ ConfigRead' /\ PlanMade'
PROOF
  <1>1. Gathered'
    BY DEF IInv, argVars, Gathered, Words, Inv!Mode
  <1>2. ConfigRead'
    BY DEF IInv, argVars, ConfigRead, Config, Words
  <1>3. PlanMade'
    BY DEF IInv, argVars, PlanMade
  <1> QED
    BY <1>1, <1>2, <1>3

\* What a step leaves that changes neither the run nor the writers.
LEMMA RunKept ==
    ASSUME IInv, UNCHANGED <<run, outVars>>
    PROVE  TextInv' /\ RunTyped' /\ RunMeans'
PROOF
  <1>1. TextInv'
    BY TextKept DEF IInv, Flushed
  <1> QED
    BY <1>1 DEF IInv, RunTyped, RunMeans

\* No log was made, or none was needed.
LEMMA EndWithoutLogInv ==
    ASSUME IInv, EndWithoutLog
    PROVE  IInv'
PROOF
  <1>1. /\ stage = "args" /\ stage' = "exited"
        /\ UNCHANGED <<printed, argVars, run, outVars>>
    BY DEF EndWithoutLog, inputVars, scanVars, runVars, argVars
  <1>2. run.phase = "idle" /\ ~printed
    BY <1>1 DEF IInv, StagesInOrder
  <1>3. Inv!Mode(args) = "serial" => exitCode' = 1
    BY DEF EndWithoutLog
  <1>4. ExitSettled'
    BY <1>1, <1>2, <1>3 DEF ExitSettled, Inv!Mode, argVars
  <1>5. StagesInOrder'
    BY <1>1 DEF StagesInOrder
  <1> QED
    BY <1>1, <1>4, <1>5, ArgsKept, RunKept DEF IInv

\* A step before the plan that fails leaves with the code 1.
LEMMA LeaveInv ==
    ASSUME IInv, stage \in {"args", "plan"}, Leave(1), UNCHANGED <<printed, run, outVars>>,
           Gathered' /\ ConfigRead' /\ PlanMade'
    PROVE  IInv'
PROOF
  <1>1. stage' = "close" /\ exitCode' = 1
    BY DEF Leave
  <1>2. run.phase = "idle" /\ ~printed
    BY DEF IInv, StagesInOrder
  <1>3. ExitSettled'
    BY <1>1, <1>2 DEF ExitSettled
  <1>4. StagesInOrder'
    BY <1>1 DEF StagesInOrder
  <1> QED
    BY <1>3, <1>4, RunKept DEF IInv

\* What a run returns settles the exit code.
LEMMA ReportInv ==
    ASSUME IInv, Report
    PROVE  IInv'
PROOF
  <1>1. /\ stage = "run" /\ run.phase = "returned" /\ stage' = "close"
        /\ exitCode' = run.code % 256 /\ printed' = (run.code = 0)
        /\ UNCHANGED <<argVars, run, outVars>>
    BY DEF Report, Leave, inputVars, scanVars, runVars, argVars
  <1>2. /\ run.code \in -1 .. 255
        /\ run.code = 0 => run.ctx = "live"
        /\ run.ctx # "live" => run.code \in FailCodes \cup {EndCode(run.ctx)}
    BY <1>1 DEF IInv, RunMeans
  <1>3. exitCode' = 0 <=> printed'
    BY <1>1, <1>2, LastBits
  <1>4. ASSUME run.ctx # "live"
        PROVE  exitCode' \in FailCodes \cup {EndCode(run.ctx)}
    <2>1. run.code \in 0 .. 255
      BY <1>2, <1>4, CodesAssumption DEF EndCode
    <2>2. exitCode' = run.code
      BY <1>1, <2>1, LastBits
    <2> QED
      BY <1>2, <1>4, <2>2
  <1>5. cfg.accepted
    BY <1>1 DEF IInv, StagesInOrder
  <1>6. ExitSettled'
    BY <1>1, <1>2, <1>3, <1>4, <1>5 DEF ExitSettled, argVars
  <1>7. StagesInOrder'
    BY <1>1 DEF StagesInOrder
  <1> QED
    BY <1>1, <1>6, <1>7, ArgsKept, RunKept DEF IInv

\* A step of the run; the last one flushes the writer if the run succeeds.
LEMMA RunStepInv ==
    ASSUME IInv, RunStep
    PROVE  IInv'
PROOF
  <1>1. /\ stage = "run" /\ run' \in Run!Steps(run)
        /\ run'.phase = "returned" => chunk = <<>>
        /\ IF run'.phase = "returned" /\ run'.code = 0 THEN Out!Flush ELSE UNCHANGED outVars
        /\ UNCHANGED <<stage, printed, argVars>>
    BY DEF RunStep, inputVars, scanVars, argVars
  <1>2. RunTyped' /\ RunMeans' /\ run.phase \in {"open", "backend", "ended"}
    BY <1>1, StepOfRun DEF IInv
  <1>3. ~Flushed
    BY <1>2 DEF Flushed
  <1>4. TextInv'
    <2>1. CASE Flushed'
      BY <1>1, <1>3, <2>1, TextFlushed DEF Flushed, IInv
    <2>2. CASE ~Flushed'
      BY <1>1, <1>3, <2>2, TextKept DEF Flushed, IInv
    <2> QED
      BY <2>1, <2>2
  <1>5. StagesInOrder' /\ ExitSettled'
    BY <1>1 DEF StagesInOrder, ExitSettled, IInv, argVars
  <1> QED
    BY <1>1, <1>2, <1>4, <1>5, ArgsKept DEF IInv

\* The invariant is kept by every step.
THEOREM StepInv == IInv /\ [Next]_vars => IInv'
PROOF
  <1> SUFFICES ASSUME IInv, [Next]_vars
               PROVE  IInv'
    OBVIOUS
  <1>1. CASE EndWithoutLog
    BY <1>1, EndWithoutLogInv
  <1>2. CASE OpenLog
    <2>1. UNCHANGED <<stage, exitCode, printed, argVars, run, outVars>>
      BY <1>2 DEF OpenLog, inputVars, scanVars, runVars, argVars
    <2> QED
      BY <2>1, ArgsKept, RunKept DEF IInv, StagesInOrder, ExitSettled, argVars
  <1>3. CASE StartParallel
    <2>1. stage = "args" /\ UNCHANGED <<printed, argVars, run, outVars>>
      BY <1>3 DEF StartParallel, inputVars, scanVars, runVars, argVars
    <2>2. Gathered' /\ ConfigRead' /\ PlanMade'
      BY <2>1, ArgsKept
    <2>3. CASE Leave(1)
      BY <2>1, <2>2, <2>3, LeaveInv
    <2>4. CASE stage' = "parallel"
      BY <2>1, <2>2, <2>4, RunKept DEF IInv, StagesInOrder, ExitSettled
    <2> QED
      BY <1>3, <2>3, <2>4 DEF StartParallel
  <1>4. CASE ReadArgs
    <2>1. /\ stage = "args" /\ cfg' = Inv!ParseArgs(scan)
          /\ UNCHANGED <<printed, args, env, scanned, scan, plan, run, outVars>>
      BY <1>4 DEF ReadArgs, inputVars, scanVars, runVars
    <2>2. run.phase = "idle" /\ ~printed /\ plan = NoPlan
      BY <2>1 DEF IInv, StagesInOrder
    <2>3. Gathered'
      BY <2>1 DEF IInv, Gathered, Words, Inv!Mode
    <2>4. ConfigRead'
      <3>1. Config(cfg')
        BY <2>1, ParseRight DEF IInv
      <3> QED
        BY <2>1, <3>1 DEF ConfigRead, Config, Words
    <2>5. PlanMade'
      BY <2>1, <2>2 DEF PlanMade
    <2>6. CASE Leave(1)
      BY <2>1, <2>3, <2>4, <2>5, <2>6, LeaveInv
    <2>7. CASE cfg'.accepted /\ stage' = "plan"
      <3>1. StagesInOrder' /\ ExitSettled'
        BY <2>1, <2>2, <2>7 DEF StagesInOrder, ExitSettled
      <3> QED
        BY <2>1, <2>3, <2>4, <2>5, <3>1, RunKept DEF IInv
    <2> QED
      BY <1>4, <2>6, <2>7 DEF ReadArgs
  <1>5. CASE PlanFails
    <2>1. stage = "plan" /\ Leave(1) /\ UNCHANGED <<printed, argVars, run, outVars>>
      BY <1>5 DEF PlanFails, inputVars, scanVars, runVars, argVars
    <2> QED
      BY <2>1, ArgsKept, LeaveInv
  <1>6. CASE PlanTask
    <2>1. /\ stage = "plan" /\ stage' = "run" /\ run' = Run!Called
          /\ Inv!Planned(cfg, env) /\ plan' = Inv!Plan(cfg, env)
          /\ UNCHANGED <<printed, args, env, scanned, scan, cfg, outVars>>
      BY <1>6 DEF PlanTask, inputVars, scanVars
    <2>2. run.phase = "idle" /\ ~printed /\ cfg.accepted
      BY <2>1 DEF IInv, StagesInOrder
    <2>3. run' = [phase |-> "open", ctx |-> "live", code |-> NoCode]
      BY <2>1 DEF Run!Called
    <2>4. TextInv'
      BY <2>1, <2>2, <2>3, TextKept DEF IInv, Flushed
    <2>5. Gathered' /\ ConfigRead'
      BY <2>1 DEF IInv, Gathered, ConfigRead, Config, Words, Inv!Mode
    <2>6. PlanMade'
      BY <2>1, <2>2 DEF PlanMade, Inv!Planned, Inv!Explicit
    <2>7. RunTyped' /\ RunMeans' /\ StagesInOrder' /\ ExitSettled'
      BY <2>1, <2>2, <2>3 DEF RunTyped, RunMeans, StagesInOrder, ExitSettled
    <2> QED
      BY <2>4, <2>5, <2>6, <2>7 DEF IInv
  <1>7. CASE CopyStderr
    <2>1. /\ stage = "run" /\ run.phase \in {"backend", "ended"} /\ Out!Copy
          /\ UNCHANGED <<stage, printed, argVars, run>>
      BY <1>7 DEF CopyStderr, inputVars, scanVars, runVars, argVars
    <2>2. ~Flushed /\ ~Flushed'
      BY <2>1 DEF Flushed
    <2>3. TextInv'
      BY <2>1, <2>2, TextCopied DEF IInv
    <2>4. RunTyped' /\ RunMeans' /\ StagesInOrder' /\ ExitSettled'
      BY <2>1 DEF IInv, RunTyped, RunMeans, StagesInOrder, ExitSettled, argVars
    <2> QED
      BY <2>1, <2>3, <2>4, ArgsKept DEF IInv
  <1>8. CASE RunStep
    BY <1>8, RunStepInv
  <1>9. CASE Report
    BY <1>9, ReportInv
  <1>10. CASE CloseLog
    <2>1. UNCHANGED <<stage, exitCode, printed, argVars, run, outVars>>
      BY <1>10 DEF CloseLog, inputVars, scanVars, runVars, argVars
    <2> QED
      BY <2>1, ArgsKept, RunKept DEF IInv, StagesInOrder, ExitSettled, argVars
  <1>11. CASE Exit
    <2>1. /\ stage = "close" /\ stage' = "exited"
          /\ UNCHANGED <<exitCode, printed, argVars, run, outVars>>
      BY <1>11 DEF Exit, inputVars, scanVars, runVars, argVars
    <2> QED
      BY <2>1, ArgsKept, RunKept DEF IInv, StagesInOrder, ExitSettled, argVars
  <1>12. CASE Signal
    <2>1. /\ UNCHANGED <<exitCode, printed, argVars, run, outVars>>
          /\ stage' = stage \/ stage' = "killed"
      BY <1>12 DEF Signal, inputVars, scanVars, argVars
    <2> QED
      BY <2>1, ArgsKept, RunKept DEF IInv, StagesInOrder, ExitSettled, argVars
  <1>13. CASE UNCHANGED vars
    <2>1. UNCHANGED <<stage, exitCode, printed, argVars, run, outVars>>
      BY <1>13 DEF vars, inputVars, scanVars, runVars, argVars
    <2> QED
      BY <2>1, ArgsKept, RunKept DEF IInv, StagesInOrder, ExitSettled, argVars
  <1>14. CASE ScanArgs
    <2>1. UNCHANGED <<stage, exitCode, printed, args, env, cfg, plan, run, outVars>>
      BY <1>14 DEF ScanArgs, inputVars, runVars
    <2>2. Gathered'
      BY <1>14, ScanRight DEF IInv
    <2>3. ConfigRead'
      BY <2>1 DEF IInv, ConfigRead, Config, Words
    <2>4. PlanMade'
      BY <2>1 DEF IInv, PlanMade
    <2>5. StagesInOrder' /\ ExitSettled'
      BY <2>1 DEF IInv, StagesInOrder, ExitSettled
    <2> QED
      BY <2>1, <2>2, <2>3, <2>4, <2>5, RunKept DEF IInv
  <1> QED
    BY <1>1, <1>2, <1>3, <1>4, <1>5, <1>6, <1>7, <1>8, <1>9, <1>10, <1>11, <1>12, <1>13,
       <1>14 DEF Next, Step, Done

\* The writers keep what has arrived of stderr and nothing else, and the run and the exit
\* code go together, from the start of the dispatcher to its end.
THEOREM Invariance == Spec => []IInv
PROOF
  <1>1. Init => IInv
    BY InitInv
  <1> QED
    BY <1>1, StepInv, PTL DEF Spec

-----------------------------------------------------------------------------
(* The properties *)

\* However stderr is cut into chunks, the error message of a run ends with the last
\* characters that arrived, as many as the limit allows (tailBuffer.Write in utils.go).
THEOREM TailIsExact == Spec => []TailExact
PROOF
  <1>1. IInv => TailExact
    BY DEF IInv, TextInv, TailExact
  <1> QED
    BY <1>1, Invariance, PTL

\* However stderr is cut into chunks, its lines are logged, each once, in their order and
\* whole or cut at the limit and marked; what follows the last newline is logged as well
\* once a run that succeeds has flushed the writer (logWriter in utils.go), and never in
\* the middle of a run.
THEOREM LinesAreLogged == Spec => []LinesLogged
PROOF
  <1>1. IInv => LinesLogged
    <2> SUFFICES ASSUME IInv
                 PROVE  LinesLogged
      OBVIOUS
    <2>1. CASE Flushed
      <3>1. Out!LinesLoggedAfter(TRUE)
        BY <2>1 DEF IInv, TextInv
      <3>2. run.phase = "returned"
        BY <2>1 DEF Flushed
      <3> QED
        BY <3>1, <3>2 DEF LinesLogged
    <2>2. CASE ~Flushed
      <3>1. chunk = <<>> => Out!LinesLoggedAfter(FALSE)
        BY <2>2, LoggedRight DEF IInv, TextInv
      <3>2. Out!LinesLoggedAfter(FALSE)
        BY <3>1 DEF Out!LinesLoggedAfter
      <3>3. ~(run.phase = "returned" /\ run.code = 0)
        BY <2>2 DEF Flushed
      <3> QED
        BY <3>2, <3>3 DEF LinesLogged
    <2> QED
      BY <2>1, <2>2
  <1> QED
    BY <1>1, Invariance, PTL

\* The exit code of a serial run is 0 exactly when a message was printed, which takes a
\* run that succeeded under a live context; 124 or 130 or that of a backend that could
\* not be started when the context ended; and 1, without a run, when the arguments are
\* refused (run and runSerialInvocation in main.go).
THEOREM ExitTellsOfRun == Spec => []ExitMeansRun
PROOF
  <1>1. IInv => ExitMeansRun
    BY DEF IInv, ExitSettled, ExitMeansRun, EndCode
  <1> QED
    BY <1>1, Invariance, PTL

\* The backend gets the task it was given once, on its command line or through stdin, and
\* no text that a shell would touch on the former; it resumes a session exactly when it is
\* told to, and a new task works in the directory that was asked for (parseArgs in
\* config.go, planTaskInvocation in executor.go, and both backends in backend.go).
THEOREM CommandIsRight == Spec => []CommandCarriesTask
PROOF
  <1>1. IInv => CommandCarriesTask
    <2> SUFFICES ASSUME IInv
                 PROVE  CommandCarriesTask
      OBVIOUS
    <2>1. CASE plan = NoPlan
      BY <2>1 DEF CommandCarriesTask
    <2>2. CASE plan # NoPlan
      BY <2>2, PlanRight DEF IInv, PlanMade
    <2> QED
      BY <2>1, <2>2
  <1> QED
    BY <1>1, Invariance, PTL

=============================================================================
