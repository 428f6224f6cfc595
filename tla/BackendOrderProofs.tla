------------------------- MODULE BackendOrderProofs -------------------------
(***************************************************************************)
(* Backend delivers in order and without repeats, for every set of         *)
(* writers, every capacity and any number of packets.                      *)
(***************************************************************************)
EXTENDS BackendProofs

-----------------------------------------------------------------------------
(* The inductive invariant.                                                *)

Rising(s) == \A i, j \in 1..Len(s) : i < j => s[i] < s[j]

Below(s, t) == \A i \in 1..Len(s), j \in 1..Len(t) : s[i] < t[j]

UpTo(s, n) == \A i \in 1..Len(s) : s[i] <= n

\* What was sent, what is held and what is queued for a writer follow one
\* another, and nothing is newer than packet n.
Line(s, o, q, n) ==
    /\ Rising(s) /\ Rising(o) /\ Rising(q)
    /\ Below(s, o) /\ Below(s, q) /\ Below(o, q)
    /\ UpTo(s, n) /\ UpTo(o, n) /\ UpTo(q, n)

\* A batch is only asked for when the private queue is empty: the packets of
\* a batch, older than the rest of the stream, cannot land behind newer ones.
FetchesWhenEmpty(w) == pc[w] \in {"fetch", "dequeue"} => outbox[w] = <<>>

Lined(w) ==
    /\ Line(sent[w], outbox[w], stream[w], count)
    /\ FetchesWhenEmpty(w)

OrderInv == \A w \in Writers : Lined(w)

-----------------------------------------------------------------------------
(* What the moves of a packet do to the line.                              *)

\* A piece of a sequence, element by element.
LEMMA PieceProperties ==
    ASSUME NEW S, NEW q \in Seq(S),
           NEW m \in 1..(Len(q) + 1), NEW n \in 0..Len(q)
    PROVE  /\ Len(SubSeq(q, m, n)) = IF m <= n THEN n - m + 1 ELSE 0
           /\ SubSeq(q, m, n) \in Seq(S)
           /\ \A i \in 1..Len(SubSeq(q, m, n)) :
                /\ i + m - 1 \in 1..Len(q)
                /\ i + m - 1 \in m..n
                /\ SubSeq(q, m, n)[i] = q[i + m - 1]
<1>1. Len(q) \in Nat /\ \A i \in 1..Len(q) : q[i] \in S
  BY ElementOfSeq
<1>2. m \in Int /\ n \in Int /\ \A i \in m..n : q[i] \in S
  BY <1>1
<1>3. /\ SubSeq(q, m, n) \in Seq(S)
      /\ Len(SubSeq(q, m, n)) = IF m <= n THEN n - m + 1 ELSE 0
      /\ \A i \in 1 .. n - m + 1 : SubSeq(q, m, n)[i] = q[m + i - 1]
  BY <1>1, <1>2, SubSeqProperties
<1> QED
  BY <1>1, <1>3

\* Dropping either end of the line, or a writer's whole stream, keeps the rest
\* in line.
LEMMA LineCut ==
    ASSUME NEW s, NEW o, NEW q, NEW n, Line(s, o, q, n)
    PROVE  Line(s, o, <<>>, n) /\ Line(<<>>, <<>>, q, n)
BY EmptySeq DEF Line, Rising, Below, UpTo

\* A writer without packets is in line.
LEMMA LineGone == \A n : Line(<<>>, <<>>, <<>>, n)
BY EmptySeq DEF Line, Rising, Below, UpTo

\* What is in line up to a packet is in line up to the next: a packet that is
\* not for this subscriber changes nothing.
LEMMA LineLater ==
    ASSUME NEW S, S \subseteq Int, NEW s \in Seq(S), NEW o \in Seq(S),
           NEW q \in Seq(S), NEW c \in Int, Line(s, o, q, c)
    PROVE  Line(s, o, q, c + 1)
<1>1. ASSUME NEW t \in Seq(S), UpTo(t, c) PROVE UpTo(t, c + 1)
  <2>1. \A i \in 1..Len(t) : t[i] \in Int
    BY ElementOfSeq
  <2> QED
    BY <1>1, <2>1 DEF UpTo
<1> QED
  BY <1>1 DEF Line

\* A piece of the stream is in line wherever the stream is.
LEMMA LinePiece ==
    ASSUME NEW S, S \subseteq Int, NEW s \in Seq(S), NEW o \in Seq(S),
           NEW q \in Seq(S), NEW c, Line(s, o, q, c),
           NEW m \in 1..(Len(q) + 1), NEW n \in 0..Len(q)
    PROVE  Line(s, o, SubSeq(q, m, n), c)
<1> DEFINE r == SubSeq(q, m, n)
<1>1. /\ r \in Seq(S) /\ Len(r) \in Nat /\ Len(q) \in Nat /\ m \in Int
      /\ \A i \in 1..Len(r) : /\ i + m - 1 \in 1..Len(q)
                              /\ r[i] = q[i + m - 1]
  BY PieceProperties
<1> HIDE DEF r
<1>2. Rising(r)
  <2>1. SUFFICES ASSUME NEW i \in 1..Len(r), NEW j \in 1..Len(r), i < j
                 PROVE  r[i] < r[j]
    BY DEF Rising
  <2>2. i + m - 1 < j + m - 1
    BY <1>1, <2>1
  <2>3. q[i + m - 1] < q[j + m - 1]
    BY <1>1, <2>2 DEF Line, Rising
  <2> QED
    BY <1>1, <2>3
<1>3. Below(s, r) /\ Below(o, r)
  BY <1>1 DEF Line, Below
<1>4. UpTo(r, c)
  BY <1>1 DEF Line, UpTo
<1> QED
  BY <1>2, <1>3, <1>4 DEF Line, r

\* The eviction loop leaves the newer end of the stream.
LEMMA LineMakeRoom ==
    ASSUME NEW S, S \subseteq Int, NEW s \in Seq(S), NEW o \in Seq(S),
           NEW q \in Seq(S), NEW c, Line(s, o, q, c)
    PROVE  MakeRoom(q) \in Seq(S) /\ Line(s, o, MakeRoom(q), c)
<1> DEFINE first == MaxOf(1, Len(q) - QueueCapacity + 2)
<1>1. first \in 1..(Len(q) + 1) /\ Len(q) \in 0..Len(q)
  BY BackendAssumption DEF MaxOf
<1> HIDE DEF first
<1>2. /\ SubSeq(q, first, Len(q)) \in Seq(S)
      /\ Line(s, o, SubSeq(q, first, Len(q)), c)
  BY <1>1, PieceProperties, LinePiece
<1> QED
  BY <1>2 DEF MakeRoom, first

\* enqueuePacket: the new packet is newer than everything in line.
LEMMA LineEnqueue ==
    ASSUME NEW S, S \subseteq Int, NEW s \in Seq(S), NEW o \in Seq(S),
           NEW q \in Seq(S), NEW c \in Int, c + 1 \in S,
           Line(s, o, q, c)
    PROVE  Line(s, o, Overwrite(q, c + 1), c + 1)
<1> DEFINE r == MakeRoom(q)
           t == Append(r, c + 1)
<1>1. r \in Seq(S) /\ Line(s, o, r, c)
  BY LineMakeRoom
<1> HIDE DEF r
<1>2. /\ t \in Seq(S) /\ Len(r) \in Nat /\ Len(t) = Len(r) + 1
      /\ \A i \in 1..Len(r) : t[i] = r[i] /\ r[i] <= c /\ r[i] \in Int
      /\ t[Len(r) + 1] = c + 1
  <2>1. /\ t \in Seq(S) /\ Len(r) \in Nat /\ Len(t) = Len(r) + 1
        /\ \A i \in 1..Len(r) : t[i] = r[i]
        /\ t[Len(r) + 1] = c + 1
    BY <1>1, AppendProperties
  <2>2. \A i \in 1..Len(r) : r[i] <= c /\ r[i] \in S
    BY <1>1, ElementOfSeq DEF Line, UpTo
  <2> QED
    BY <2>1, <2>2
<1>3. /\ \A i \in 1..Len(s) : s[i] \in Int /\ s[i] <= c
      /\ \A i \in 1..Len(o) : o[i] \in Int /\ o[i] <= c
  BY ElementOfSeq DEF Line, UpTo
<1> HIDE DEF t
<1>4. \A i \in 1..Len(t) : i \in 1..Len(r) \/ i = Len(r) + 1
  BY <1>2
<1>5. Rising(t)
  <2>1. SUFFICES ASSUME NEW i \in 1..Len(t), NEW j \in 1..Len(t), i < j
                 PROVE  t[i] < t[j]
    BY DEF Rising
  <2>2. i \in 1..Len(r)
    BY <1>2, <2>1
  <2>3. CASE j \in 1..Len(r)
    BY <1>1, <1>2, <2>1, <2>2, <2>3 DEF Line, Rising
  <2>4. CASE j = Len(r) + 1
    BY <1>2, <2>2, <2>4
  <2> QED
    BY <1>4, <2>3, <2>4
<1>6. Below(s, t) /\ Below(o, t)
  <2>1. SUFFICES ASSUME NEW j \in 1..Len(t)
                 PROVE  /\ \A i \in 1..Len(s) : s[i] < t[j]
                        /\ \A i \in 1..Len(o) : o[i] < t[j]
    BY DEF Below
  <2>2. CASE j \in 1..Len(r)
    BY <1>1, <1>2, <2>2 DEF Line, Below
  <2>3. CASE j = Len(r) + 1
    BY <1>2, <1>3, <2>3
  <2> QED
    BY <1>4, <2>2, <2>3
<1>7. UpTo(s, c + 1) /\ UpTo(o, c + 1) /\ UpTo(t, c + 1)
  <2>1. UpTo(s, c + 1) /\ UpTo(o, c + 1)
    BY <1>3 DEF UpTo
  <2>2. \A i \in 1..Len(r) : t[i] <= c + 1
    BY <1>2
  <2>3. t[Len(r) + 1] <= c + 1
    BY <1>2
  <2> QED
    BY <1>4, <2>1, <2>2, <2>3 DEF UpTo
<1> QED
  BY <1>1, <1>5, <1>6, <1>7 DEF Line, Overwrite, r, t

\* getNextPackets: the batch is older than what it leaves in the stream.
LEMMA LineDequeue ==
    ASSUME NEW S, S \subseteq Int, NEW s \in Seq(S), NEW q \in Seq(S),
           NEW c, Line(s, <<>>, q, c)
    PROVE  Line(s, Batch(q), Rest(q), c)
<1> DEFINE k == MinOf(BatchSize, Len(q))
           b == SubSeq(q, 1, k)
           r == SubSeq(q, k + 1, Len(q))
<1>1. /\ k \in 0..Len(q) /\ k + 1 \in 1..(Len(q) + 1)
      /\ 1 \in 1..(Len(q) + 1) /\ Len(q) \in 0..Len(q)
  BY BackendAssumption DEF MinOf
<1>2. Batch(q) = b /\ Rest(q) = r
  BY DEF Batch, Rest
<1> HIDE DEF k
<1>3. Line(s, <<>>, b, c) /\ Line(s, <<>>, r, c)
  BY <1>1, LinePiece, EmptySeq
<1>4. /\ \A i \in 1..Len(b) : /\ i + 1 - 1 \in 1..Len(q)
                              /\ i + 1 - 1 \in 1..k
                              /\ b[i] = q[i + 1 - 1]
      /\ \A j \in 1..Len(r) : /\ j + (k + 1) - 1 \in 1..Len(q)
                              /\ j + (k + 1) - 1 \in k + 1 .. Len(q)
                              /\ r[j] = q[j + (k + 1) - 1]
  BY <1>1, PieceProperties
<1> HIDE DEF b, r
<1>5. Below(b, r)
  <2>1. SUFFICES ASSUME NEW i \in 1..Len(b), NEW j \in 1..Len(r)
                 PROVE  b[i] < r[j]
    BY DEF Below
  <2>2. i + 1 - 1 < j + (k + 1) - 1
    BY <1>1, <1>4
  <2>3. q[i + 1 - 1] < q[j + (k + 1) - 1]
    BY <1>4, <2>2 DEF Line, Rising
  <2> QED
    BY <1>4, <2>3
<1> QED
  BY <1>2, <1>3, <1>5 DEF Line

\* OnWriteDone: the packet flushed is older than what is still held, and newer
\* than all that was sent.
LEMMA LineWrite ==
    ASSUME NEW S, S \subseteq Int, NEW s \in Seq(S), NEW o \in Seq(S),
           NEW q \in Seq(S), NEW c, o # <<>>, Line(s, o, q, c)
    PROVE  Line(Append(s, Head(o)), Tail(o), q, c)
<1> DEFINE h == o[1]
           t == Append(s, h)
           r == Tail(o)
<1>1. /\ Head(o) = h /\ Len(o) \in Nat /\ 1 \in 1..Len(o) /\ h \in S
      /\ \A i \in 1..Len(o) : o[i] \in S
  BY HeadTailProperties, ElementOfSeq
<1>2. /\ Len(r) = Len(o) - 1
      /\ \A i \in 1..Len(r) : r[i] = o[i + 1] /\ i + 1 \in 1..Len(o)
  BY <1>1, HeadTailProperties
<1>3. /\ Len(s) \in Nat /\ Len(t) = Len(s) + 1
      /\ \A i \in 1..Len(s) : t[i] = s[i]
      /\ t[Len(s) + 1] = h
      /\ \A i \in 1..Len(t) : i \in 1..Len(s) \/ i = Len(s) + 1
  BY <1>1, AppendProperties
<1>4. \A i \in 1..Len(s) : s[i] < h /\ s[i] \in S
  BY <1>1, ElementOfSeq DEF Line, Below
<1> HIDE DEF h, t, r
<1>5. Rising(t)
  <2>1. SUFFICES ASSUME NEW i \in 1..Len(t), NEW j \in 1..Len(t), i < j
                 PROVE  t[i] < t[j]
    BY DEF Rising
  <2>2. i \in 1..Len(s)
    BY <1>3, <2>1
  <2>3. CASE j \in 1..Len(s)
    BY <1>3, <2>1, <2>2, <2>3 DEF Line, Rising
  <2>4. CASE j = Len(s) + 1
    BY <1>3, <1>4, <2>2, <2>4
  <2> QED
    BY <1>3, <2>3, <2>4
<1>6. Rising(r) /\ Below(r, q) /\ UpTo(r, c)
  <2>1. Rising(r)
    <3>1. SUFFICES ASSUME NEW i \in 1..Len(r), NEW j \in 1..Len(r), i < j
                   PROVE  r[i] < r[j]
      BY DEF Rising
    <3>2. i + 1 < j + 1
      BY <3>1
    <3> QED
      BY <1>2, <3>2 DEF Line, Rising
  <2>2. Below(r, q)
    BY <1>2 DEF Line, Below
  <2>3. UpTo(r, c)
    BY <1>2 DEF Line, UpTo
  <2> QED
    BY <2>1, <2>2, <2>3
<1>7. \A i \in 1..Len(r) : h < r[i]
  BY <1>1, <1>2 DEF Line, Rising, h
<1>8. Below(t, r)
  <2>1. \A i \in 1..Len(s), j \in 1..Len(r) : s[i] < r[j]
    BY <1>2 DEF Line, Below
  <2> QED
    BY <1>3, <1>7, <2>1 DEF Below
<1>9. Below(t, q) /\ UpTo(t, c)
  BY <1>1, <1>3 DEF Line, Below, UpTo, h
<1> QED
  BY <1>1, <1>5, <1>6, <1>8, <1>9 DEF Line, t, r

\* A line is in order from end to end.
LEMMA LineInOrder ==
    ASSUME NEW S, NEW s \in Seq(S), NEW o \in Seq(S), NEW q \in Seq(S),
           NEW c, Line(s, o, q, c)
    PROVE  Rising(s \o o \o q)
<1> DEFINE a == s \o o
           p == a \o q
<1>1. /\ a \in Seq(S) /\ Len(a) = Len(s) + Len(o)
      /\ \A i \in 1..Len(a) :
           a[i] = IF i <= Len(s) THEN s[i] ELSE o[i - Len(s)]
      /\ Len(s) \in Nat /\ Len(o) \in Nat /\ Len(q) \in Nat
  BY ConcatProperties
<1> HIDE DEF a
<1>2. /\ Len(p) = Len(a) + Len(q)
      /\ \A i \in 1..Len(p) :
           p[i] = IF i <= Len(a) THEN a[i] ELSE q[i - Len(a)]
  <2>1. a \in Seq(S)
    BY <1>1
  <2>2. /\ Len(p) = Len(a) + Len(q)
        /\ \A i \in 1..Len(a) + Len(q) :
             p[i] = IF i <= Len(a) THEN a[i] ELSE q[i - Len(a)]
    BY <2>1, ConcatProperties
  <2> QED
    BY <2>2
<1> HIDE DEF p
<1>3. \A i, j \in 1..Len(a) : i < j => a[i] < a[j]
  <2> SUFFICES ASSUME NEW i \in 1..Len(a), NEW j \in 1..Len(a), i < j
               PROVE  a[i] < a[j]
    OBVIOUS
  <2>1. CASE j <= Len(s)
    <3>1. i \in 1..Len(s) /\ j \in 1..Len(s) /\ a[i] = s[i] /\ a[j] = s[j]
      BY <1>1, <2>1
    <3> QED
      BY <3>1 DEF Line, Rising
  <2>2. CASE i > Len(s)
    <3>1. /\ i - Len(s) \in 1..Len(o) /\ j - Len(s) \in 1..Len(o)
          /\ i - Len(s) < j - Len(s)
      BY <1>1, <2>2
    <3>2. o[i - Len(s)] < o[j - Len(s)]
      BY <3>1 DEF Line, Rising
    <3> QED
      BY <1>1, <2>2, <3>2
  <2>3. CASE i <= Len(s) /\ j > Len(s)
    <3>1. i \in 1..Len(s) /\ j - Len(s) \in 1..Len(o)
      BY <1>1, <2>3
    <3>2. s[i] < o[j - Len(s)]
      BY <3>1 DEF Line, Below
    <3> QED
      BY <1>1, <2>3, <3>2
  <2> QED
    BY <1>1, <2>1, <2>2, <2>3
<1>4. \A i \in 1..Len(a), j \in 1..Len(q) : a[i] < q[j]
  <2> SUFFICES ASSUME NEW i \in 1..Len(a), NEW j \in 1..Len(q)
               PROVE  a[i] < q[j]
    OBVIOUS
  <2>1. CASE i <= Len(s)
    <3>1. i \in 1..Len(s)
      BY <1>1, <2>1
    <3>2. s[i] < q[j]
      BY <3>1 DEF Line, Below
    <3> QED
      BY <1>1, <2>1, <3>2
  <2>2. CASE i > Len(s)
    <3>1. i - Len(s) \in 1..Len(o)
      BY <1>1, <2>2
    <3>2. o[i - Len(s)] < q[j]
      BY <3>1 DEF Line, Below
    <3> QED
      BY <1>1, <2>2, <3>2
  <2> QED
    BY <1>1, <2>1, <2>2
<1>5. Rising(p)
  <2>1. SUFFICES ASSUME NEW i \in 1..Len(p), NEW j \in 1..Len(p), i < j
                 PROVE  p[i] < p[j]
    BY DEF Rising
  <2>2. CASE j <= Len(a)
    BY <1>1, <1>2, <1>3, <2>1, <2>2
  <2>3. CASE i > Len(a)
    <3>1. /\ i - Len(a) \in 1..Len(q) /\ j - Len(a) \in 1..Len(q)
          /\ i - Len(a) < j - Len(a)
      BY <1>1, <1>2, <2>1, <2>3
    <3>2. q[i - Len(a)] < q[j - Len(a)]
      BY <3>1 DEF Line, Rising
    <3> QED
      BY <1>1, <1>2, <2>1, <2>3, <3>2
  <2>4. CASE i <= Len(a) /\ j > Len(a)
    <3>1. j - Len(a) \in 1..Len(q) /\ i \in 1..Len(a)
      BY <1>1, <1>2, <2>4
    <3> QED
      BY <1>2, <1>4, <2>4, <3>1
  <2> QED
    BY <1>1, <1>2, <2>2, <2>3, <2>4
<1> QED
  BY <1>5 DEF p, a

-----------------------------------------------------------------------------
(* Every step keeps every writer's line.                                   *)

\* A writer's own step moves a batch, moves one packet, drops an end of the
\* line, or leaves the line alone.
LEMMA LinedWriter ==
    ASSUME IInv, NEW w \in Writers, Lined(w),
           \/ Connect(w) \/ Constructor(w) \/ PumpSteps(w)
           \/ AlarmFires(w) \/ WriteSucceeds(w) \/ WriteFails(w)
           \/ Cancel(w) \/ FinishSteps(w)
    PROVE  Lined(w)'
<1> DEFINE P == 1..MaxPackets
<1>1. /\ pc \in [Writers -> WriterStates]
      /\ stream \in [Writers -> Seq(P)]
      /\ outbox \in [Writers -> Seq(P)]
      /\ sent \in [Writers -> Seq(P)]
      /\ P \subseteq Int
      /\ Line(sent[w], outbox[w], stream[w], count)
      /\ FetchesWhenEmpty(w)
      /\ pc[w] # "parked" => pending[w] = {}
  BY BackendAssumption DEF IInv, TypeOK, Lined, OneContinuation
<1> USE DEF Goto, Finish, Park, Resume, serverVars, managerVars, feedVars,
            writerVars
<1>s. ASSUME UNCHANGED <<sent, outbox, stream, count>>,
             pc'[w] \in {"fetch", "dequeue"} => outbox[w] = <<>>
      PROVE  Lined(w)'
  BY <1>1, <1>s DEF Lined, FetchesWhenEmpty
<1>2. CASE \/ Connect(w) \/ CheckLimit(w) \/ SubscribeCheck(w)
           \/ AlarmFires(w) \/ WriteFails(w) \/ FinishUp(w)
  <2>1. UNCHANGED <<sent, outbox, stream, count>>
    BY <1>2 DEF Connect, CheckLimit, SubscribeCheck, AlarmFires, WriteFails,
       FinishUp
  <2>2. pc'[w] \notin {"fetch", "dequeue"}
    BY <1>1, <1>2 DEF Connect, CheckLimit, SubscribeCheck, AlarmFires,
       WriteFails, FinishUp
  <2> QED
    BY <1>s, <2>1, <2>2
<1>3. CASE Cancel(w)
  BY <1>1, <1>s, <1>3 DEF Cancel, FetchesWhenEmpty
<1>4. CASE Pump(w)
  <2>1. UNCHANGED <<sent, outbox, stream, count>>
    BY <1>4 DEF Pump
  <2>2. pc'[w] \in {"fetch", "dequeue"} => outbox[w] = <<>>
    BY <1>1, <1>4 DEF Pump
  <2> QED
    BY <1>s, <2>1, <2>2
<1>5. CASE Fetch(w)
  <2>1. UNCHANGED <<sent, outbox, stream, count>>
    BY <1>5 DEF Fetch
  <2>2. outbox[w] = <<>>
    BY <1>1, <1>5 DEF Fetch, FetchesWhenEmpty
  <2> QED
    BY <1>s, <2>1, <2>2
<1>6. CASE Insert(w)
  <2>1. /\ UNCHANGED <<sent, outbox, count>>
        /\ stream'[w] = <<>> /\ pc'[w] = "pump"
    BY <1>1, <1>6 DEF Insert
  <2>2. Line(sent[w], outbox[w], <<>>, count)
    BY <1>1, LineCut
  <2> QED
    BY <2>1, <2>2 DEF Lined, FetchesWhenEmpty
<1>7. CASE Dequeue(w)
  <2>1. CASE w \in subscribers /\ stream[w] # <<>>
    <3>1. /\ UNCHANGED <<sent, count>>
          /\ outbox'[w] = Batch(stream[w])
          /\ stream'[w] = Rest(stream[w])
          /\ pc'[w] = "parked"
      BY <1>1, <1>7, <2>1 DEF Dequeue
    <3>2. outbox[w] = <<>>
      BY <1>1, <1>7 DEF Dequeue, FetchesWhenEmpty
    <3>3. Line(sent[w], Batch(stream[w]), Rest(stream[w]), count)
      BY <1>1, <3>2, LineDequeue
    <3> QED
      BY <3>1, <3>3 DEF Lined, FetchesWhenEmpty
  <2>2. CASE ~(w \in subscribers /\ stream[w] # <<>>)
    <3>1. UNCHANGED <<sent, outbox, stream, count>> /\ pc'[w] = "parked"
      BY <1>1, <1>7, <2>2 DEF Dequeue
    <3> QED
      BY <1>s, <3>1
  <2> QED
    BY <2>1, <2>2
<1>8. CASE WriteSucceeds(w)
  <2>1. outbox[w] # <<>>
    BY <1>8 DEF WriteSucceeds, IInv, OneContinuation
  <2>2. /\ UNCHANGED <<stream, count>>
        /\ outbox'[w] = Tail(outbox[w])
        /\ sent'[w] = Append(sent[w], Head(outbox[w]))
        /\ pc'[w] = "pump"
    BY <1>1, <1>8 DEF WriteSucceeds
  <2>3. Line(Append(sent[w], Head(outbox[w])), Tail(outbox[w]), stream[w],
             count)
    BY <1>1, <2>1, LineWrite
  <2> QED
    BY <2>2, <2>3 DEF Lined, FetchesWhenEmpty
<1>9. CASE Erase(w)
  <2>1. /\ UNCHANGED <<sent, outbox, count>>
        /\ stream'[w] = <<>> /\ pc'[w] = "finished"
    BY <1>1, <1>9 DEF Erase, RemoveSubscriber
  <2>2. Line(sent[w], outbox[w], <<>>, count)
    BY <1>1, LineCut
  <2> QED
    BY <2>1, <2>2 DEF Lined, FetchesWhenEmpty
<1>10. CASE OnDone(w)
  <2>1. /\ UNCHANGED count
        /\ sent'[w] = <<>> /\ outbox'[w] = <<>> /\ pc'[w] = "done"
    BY <1>1, <1>10 DEF OnDone
  <2>2. stream'[w] = <<>> \/ stream'[w] = stream[w]
    BY <1>1, <1>10 DEF OnDone, RemoveSubscriber
  <2>3. Line(<<>>, <<>>, stream[w], count) /\ Line(<<>>, <<>>, <<>>, count)
    BY <1>1, LineCut, LineGone
  <2> QED
    BY <2>1, <2>2, <2>3 DEF Lined, FetchesWhenEmpty
<1> QED
  BY <1>2, <1>3, <1>4, <1>5, <1>6, <1>7, <1>8, <1>9, <1>10
  DEF Constructor, PumpSteps, FinishSteps

\* No writer touches the line of another.
LEMMA LineFrame ==
    ASSUME TypeOK, NEW w \in Writers, NEW v \in Writers, v # w,
           \/ Connect(w) \/ Constructor(w) \/ PumpSteps(w)
           \/ AlarmFires(w) \/ WriteSucceeds(w) \/ WriteFails(w)
           \/ Cancel(w) \/ FinishSteps(w)
    PROVE  sent'[v] = sent[v] /\ stream'[v] = stream[v] /\ count' = count
<1> USE DEF TypeOK, RemoveSubscriber, managerVars, feedVars, writerVars
<1>1. CASE \/ Connect(w) \/ CheckLimit(w) \/ SubscribeCheck(w) \/ Pump(w)
           \/ Fetch(w) \/ AlarmFires(w) \/ WriteFails(w) \/ Cancel(w)
           \/ FinishUp(w)
  BY <1>1 DEF Connect, CheckLimit, SubscribeCheck, Pump, Fetch, AlarmFires,
     WriteFails, Cancel, FinishUp
<1>2. CASE Insert(w) BY <1>2 DEF Insert
<1>3. CASE Dequeue(w) BY <1>3 DEF Dequeue
<1>4. CASE WriteSucceeds(w) BY <1>4 DEF WriteSucceeds
<1>5. CASE Erase(w) BY <1>5 DEF Erase
<1>6. CASE OnDone(w) BY <1>6 DEF OnDone
<1> QED
  BY <1>1, <1>2, <1>3, <1>4, <1>5, <1>6
  DEF Constructor, PumpSteps, FinishSteps

\* The propagator adds the newest packet at the end of every line; the main
\* thread cuts every line after the private queue, or leaves it alone.
LEMMA LinedOthers ==
    ASSUME IInv, NEW v \in Writers, Lined(v),
           \/ Start \/ Stop \/ StopManager \/ UnsubscribeAll \/ Destroy
           \/ BeginShutdown \/ ShutdownDeadline \/ ShutdownReturns
           \/ EnqueueCheck \/ Enqueue \/ Terminated \/ UNCHANGED vars
    PROVE  Lined(v)'
<1> DEFINE P == 1..MaxPackets
<1>1. /\ stream[v] \in Seq(P) /\ outbox[v] \in Seq(P) /\ sent[v] \in Seq(P)
      /\ P \subseteq Int /\ count \in Int
      /\ Line(sent[v], outbox[v], stream[v], count)
      /\ FetchesWhenEmpty(v)
  BY BackendAssumption DEF IInv, TypeOK, Lined
<1>2. UNCHANGED <<pc, outbox>>
  BY OtherFrame
<1>3. UNCHANGED sent
  BY DEF Start, Stop, StopManager, UnsubscribeAll, Destroy, BeginShutdown,
     ShutdownDeadline, ShutdownReturns, EnqueueCheck, Enqueue, Terminated,
     vars, writerVars
<1>4. CASE Enqueue
  <2>1. count + 1 \in P /\ count' = count + 1
    BY <1>4, BackendAssumption DEF Enqueue, IInv, FeedPhase, TypeOK
  <2>2. CASE v \in subscribers
    <3>1. stream'[v] = Overwrite(stream[v], count + 1)
      BY <1>4, <2>2 DEF Enqueue
    <3>2. Line(sent[v], outbox[v], Overwrite(stream[v], count + 1), count + 1)
      BY <1>1, <2>1, LineEnqueue
    <3> QED
      BY <1>1, <1>2, <1>3, <2>1, <3>1, <3>2 DEF Lined, FetchesWhenEmpty
  <2>3. CASE v \notin subscribers
    <3>1. stream'[v] = stream[v]
      BY <1>4, <2>3 DEF Enqueue
    <3>2. Line(sent[v], outbox[v], stream[v], count + 1)
      BY <1>1, LineLater
    <3> QED
      BY <1>1, <1>2, <1>3, <2>1, <3>1, <3>2 DEF Lined, FetchesWhenEmpty
  <2> QED
    BY <2>2, <2>3
<1>5. CASE UnsubscribeAll \/ Destroy
  <2>1. stream'[v] = <<>> /\ count' = count
    BY <1>5 DEF UnsubscribeAll, Destroy, ClearSubscribers, feedVars
  <2>2. Line(sent[v], outbox[v], <<>>, count)
    BY <1>1, LineCut
  <2> QED
    BY <1>1, <1>2, <1>3, <2>1, <2>2 DEF Lined, FetchesWhenEmpty
<1>6. CASE \/ Start \/ Stop \/ StopManager \/ BeginShutdown
           \/ ShutdownDeadline \/ ShutdownReturns \/ EnqueueCheck
           \/ Terminated \/ UNCHANGED vars
  <2>1. UNCHANGED <<stream, count>>
    BY <1>6 DEF Start, Stop, StopManager, BeginShutdown, ShutdownDeadline,
       ShutdownReturns, EnqueueCheck, Terminated, vars, managerVars, feedVars
  <2> QED
    BY <1>1, <1>2, <1>3, <2>1 DEF Lined, FetchesWhenEmpty
<1> QED
  BY <1>4, <1>5, <1>6

\* At the start no writer has packets.
LEMMA OrderInit == Init => OrderInv
BY LineGone DEF Init, OrderInv, Lined, FetchesWhenEmpty

\* Every step of any thread keeps every writer's line.
LEMMA OrderStep == IInv /\ OrderInv /\ [Next]_vars => OrderInv'
<1> SUFFICES ASSUME IInv, OrderInv, [Next]_vars, NEW v \in Writers
             PROVE  Lined(v)'
  BY DEF OrderInv
<1>1. TypeOK /\ Lined(v)
  BY DEF IInv, OrderInv
<1>2. ASSUME NEW w \in Writers,
             \/ Connect(w) \/ Constructor(w) \/ PumpSteps(w)
             \/ AlarmFires(w) \/ WriteSucceeds(w) \/ WriteFails(w)
             \/ Cancel(w) \/ FinishSteps(w)
      PROVE  Lined(v)'
  <2>1. CASE v = w
    BY <1>1, <1>2, <2>1, LinedWriter
  <2>2. CASE v # w
    <3>1. /\ pc'[v] = pc[v] /\ outbox'[v] = outbox[v]
          /\ sent'[v] = sent[v] /\ stream'[v] = stream[v] /\ count' = count
      BY <1>1, <1>2, <2>2, WriterFrame, LineFrame
    <3> QED
      BY <1>1, <3>1 DEF Lined, FetchesWhenEmpty
  <2> QED
    BY <2>1, <2>2
<1> QED
  BY <1>1, <1>2, LinedOthers DEF Next

-----------------------------------------------------------------------------
(* The theorem.                                                            *)

\* Every subscriber receives packets in the order in which they were enqueued
\* and none twice: however the propagator, the pump, the purges and the end of
\* the RPC interleave, what enqueuePacket, getNextPackets and OnWriteDone hand
\* on stays in one line.
THEOREM DeliveryInOrder == Spec => []InOrder
<1>1. IInv /\ OrderInv => InOrder
  <2> SUFFICES ASSUME IInv, OrderInv, NEW w \in Writers
               PROVE  \A i, j \in DOMAIN Pipeline(w) :
                        i < j => Pipeline(w)[i] < Pipeline(w)[j]
    BY DEF InOrder
  <2> DEFINE P == 1..MaxPackets
  <2>1. /\ sent[w] \in Seq(P) /\ outbox[w] \in Seq(P) /\ stream[w] \in Seq(P)
        /\ Line(sent[w], outbox[w], stream[w], count)
    BY DEF IInv, TypeOK, OrderInv, Lined
  <2>2. Rising(Pipeline(w)) /\ Pipeline(w) \in Seq(P)
    BY <2>1, LineInOrder, ConcatProperties DEF Pipeline
  <2>3. DOMAIN Pipeline(w) = 1..Len(Pipeline(w))
    BY <2>2
  <2> QED
    BY <2>2, <2>3 DEF Rising
<1> QED
  BY <1>1, InitIInv, NextIInv, OrderInit, OrderStep, PTL DEF Spec

=============================================================================
