----------------------- MODULE BackendBroadcastProofs -----------------------
(***************************************************************************)
(* Backend loses packets only to newer ones, and implements Broadcast, for *)
(* every set of writers, every capacity and any number of packets.         *)
(***************************************************************************)
EXTENDS BackendOrderProofs, BackendBroadcast, FiniteSetTheorems

-----------------------------------------------------------------------------
(* The inductive invariant.                                                *)

Has(s, p) == \E i \in 1..Len(s) : s[i] = p

After(s, n) == \A i \in 1..Len(s) : n < s[i]

\* Every packet after j and up to n is in s, o or q, or has Capacity newer
\* ones among the first c.
Covered(s, o, q, j, n, c) ==
    \A p \in j + 1 .. n : \/ Has(s, p) \/ Has(o, p) \/ Has(q, p)
                          \/ p + QueueCapacity <= c

\* A constructor that has not subscribed yet has nothing of an earlier RPC.
Fresh(w) ==
    pc[w] \in {"idle", "checkLimit", "subscribe", "insert"} =>
      w \notin subscribers /\ sent[w] = <<>> /\ outbox[w] = <<>>

\* A writer gets nothing from before it joined.
NothingOld(w) ==
    /\ joined[w] <= count
    /\ After(sent[w], joined[w]) /\ After(outbox[w], joined[w])
    /\ w \in subscribers => After(stream[w], joined[w])

\* LossOnlyByOverflow, of one writer and element by element.
StreamCovered(w) ==
    w \in subscribers /\ Open(w) =>
      Covered(sent[w], outbox[w], stream[w], joined[w], count, count)

\* The same of what the private queue holds; it outlives the stream, which a
\* purge takes away.
BatchCovered(w) ==
    \A p \in 1..MaxPackets :
      Has(outbox[w], p) =>
        Covered(sent[w], outbox[w], <<>>, joined[w], p - 1, count)

Lossless(w) ==
    Fresh(w) /\ NothingOld(w) /\ StreamCovered(w) /\ BatchCovered(w)

LossInv == \A w \in Writers : Lossless(w)

-----------------------------------------------------------------------------
(* What the moves of a packet do to what is covered.                       *)

LEMMA AfterHas ==
    ASSUME NEW s, NEW n
    PROVE  After(s, n) <=> \A p : Has(s, p) => n < p
BY DEF After, Has

LEMMA HasNothing == \A p : ~Has(<<>>, p)
BY EmptySeq DEF Has

\* Rising numbers up to c are at most as many as there are numbers from the
\* first of them to c.
LEMMA RisingFits ==
    ASSUME NEW S, S \subseteq Int, NEW q \in Seq(S), NEW c \in Int,
           Rising(q), UpTo(q, c), q # <<>>
    PROVE  q[1] + Len(q) <= c + 1
<1> DEFINE f == [i \in 1..Len(q) |-> q[i]]
<1>1. /\ Len(q) \in Nat /\ 1 \in 1..Len(q)
      /\ \A i \in 1..Len(q) : q[i] \in Int /\ q[i] <= c
  <2>1. Len(q) \in Nat /\ Len(q) # 0
    BY EmptySeq
  <2>2. \A i \in 1..Len(q) : q[i] \in Int
    BY ElementOfSeq
  <2> QED
    BY <2>1, <2>2 DEF UpTo
<1>2. \A i \in 1..Len(q) : q[1] <= q[i]
  <2> TAKE i \in 1..Len(q)
  <2>1. CASE i = 1
    BY <1>1, <2>1
  <2>2. CASE i # 1
    BY <1>1, <2>2 DEF Rising
  <2> QED
    BY <2>1, <2>2
<1>3. f \in [1..Len(q) -> q[1]..c]
  BY <1>1, <1>2
<1>4. \A i, j \in 1..Len(q) : f[i] = f[j] => i = j
  <2> SUFFICES ASSUME NEW i \in 1..Len(q), NEW j \in 1..Len(q), i # j
               PROVE  q[i] # q[j]
    OBVIOUS
  <2>1. i < j \/ j < i
    BY <1>1
  <2>2. q[i] < q[j] \/ q[j] < q[i]
    BY <2>1 DEF Rising
  <2> QED
    BY <1>1, <2>2
<1> HIDE DEF f
<1>5. /\ IsFiniteSet(1..Len(q)) /\ Cardinality(1..Len(q)) = Len(q)
      /\ IsFiniteSet(q[1]..c) /\ Cardinality(q[1]..c) = c - q[1] + 1
  <2>1. /\ IsFiniteSet(1..Len(q))
        /\ Cardinality(1..Len(q)) = IF 1 > Len(q) THEN 0 ELSE Len(q) - 1 + 1
    BY <1>1, FS_Interval
  <2>2. /\ IsFiniteSet(q[1]..c)
        /\ Cardinality(q[1]..c) = IF q[1] > c THEN 0 ELSE c - q[1] + 1
    BY <1>1, FS_Interval
  <2> QED
    BY <1>1, <2>1, <2>2
<1>6. ASSUME Cardinality(q[1]..c) < Cardinality(1..Len(q)) PROVE FALSE
  <2>1. \E i, j \in 1..Len(q) : i # j /\ f[i] = f[j]
    BY <1>3, <1>5, <1>6, FS_PigeonHole
  <2> QED
    BY <1>4, <2>1
<1> QED
  BY <1>1, <1>5, <1>6

\* What the eviction loop takes has Capacity packets behind it once the new
\* packet is in.
LEMMA EvictedAreOld ==
    ASSUME NEW S, S \subseteq Int, NEW q \in Seq(S), NEW c \in Int,
           Rising(q), UpTo(q, c), Len(q) <= QueueCapacity, NEW p, Has(q, p)
    PROVE  Has(MakeRoom(q), p) \/ p + QueueCapacity <= c + 1
<1> DEFINE first == MaxOf(1, Len(q) - QueueCapacity + 2)
           r == SubSeq(q, first, Len(q))
<1>1. PICK i \in 1..Len(q) : q[i] = p
  BY DEF Has
<1>2. /\ Len(q) \in Nat /\ QueueCapacity \in Nat \ {0}
      /\ first \in 1..(Len(q) + 1) /\ Len(q) \in 0..Len(q)
      /\ first = 1 \/ (first = 2 /\ Len(q) = QueueCapacity)
  BY BackendAssumption DEF MaxOf
<1> HIDE DEF first
<1>3. /\ Len(r) = IF first <= Len(q) THEN Len(q) - first + 1 ELSE 0
      /\ \A j \in 1..Len(r) : r[j] = q[j + first - 1]
  BY <1>2, PieceProperties
<1>4. MakeRoom(q) = r
  BY DEF MakeRoom, first
<1> HIDE DEF r
<1>5. CASE i >= first
  <2>1. i - first + 1 \in 1..Len(r) /\ r[i - first + 1] = q[i]
    BY <1>2, <1>3, <1>5
  <2> QED
    BY <1>1, <1>4, <2>1 DEF Has
<1>6. CASE i < first
  <2>1. i = 1 /\ Len(q) = QueueCapacity
    BY <1>2, <1>6
  <2>2. q # <<>>
    BY <1>1
  <2>3. q[1] + Len(q) <= c + 1
    BY <2>2, RisingFits
  <2> QED
    BY <1>1, <2>1, <2>3
<1> QED
  BY <1>2, <1>5, <1>6

\* enqueuePacket: the new packet is in the stream, what it displaced is old.
LEMMA CoverEnqueue ==
    ASSUME NEW S, S \subseteq Int, NEW s, NEW o, NEW q \in Seq(S),
           NEW j \in Int, NEW c \in Int, c + 1 \in S,
           Rising(q), UpTo(q, c), Len(q) <= QueueCapacity,
           Covered(s, o, q, j, c, c)
    PROVE  Covered(s, o, Overwrite(q, c + 1), j, c + 1, c + 1)
<1> DEFINE r == MakeRoom(q)
<1>1. r \in Seq(S)
  <2> DEFINE first == MaxOf(1, Len(q) - QueueCapacity + 2)
  <2>1. first \in 1..(Len(q) + 1) /\ Len(q) \in 0..Len(q)
    BY BackendAssumption DEF MaxOf
  <2> HIDE DEF first
  <2>2. SubSeq(q, first, Len(q)) \in Seq(S)
    BY <2>1, PieceProperties
  <2> QED
    BY <2>2 DEF MakeRoom, first
<1> HIDE DEF r
<1>2. /\ Len(r) \in Nat /\ Len(Append(r, c + 1)) = Len(r) + 1
      /\ \A i \in 1..Len(r) : Append(r, c + 1)[i] = r[i]
      /\ Append(r, c + 1)[Len(r) + 1] = c + 1
  BY <1>1, AppendProperties
<1>3. Has(Append(r, c + 1), c + 1)
  BY <1>2 DEF Has
<1>4. \A p : Has(r, p) => Has(Append(r, c + 1), p)
  BY <1>2 DEF Has
<1>5. \A p : Has(q, p) => Has(r, p) \/ p + QueueCapacity <= c + 1
  BY EvictedAreOld DEF r
<1> SUFFICES ASSUME NEW p \in j + 1 .. c + 1
             PROVE  \/ Has(s, p) \/ Has(o, p) \/ Has(Append(r, c + 1), p)
                    \/ p + QueueCapacity <= c + 1
  BY DEF Covered, Overwrite, r
<1>6. CASE p = c + 1
  BY <1>3, <1>6
<1>7. CASE p # c + 1
  <2>1. p \in j + 1 .. c
    BY <1>7
  <2>2. Has(s, p) \/ Has(o, p) \/ Has(q, p) \/ p + QueueCapacity <= c
    BY <2>1 DEF Covered
  <2>3. p + QueueCapacity <= c => p + QueueCapacity <= c + 1
    BY BackendAssumption
  <2> QED
    BY <1>4, <1>5, <2>2, <2>3
<1> QED
  BY <1>6, <1>7

\* enqueuePacket: what is in the stream afterwards was in it, or is new.
LEMMA AfterOverwrite ==
    ASSUME NEW S, S \subseteq Int, NEW q \in Seq(S), NEW c \in Int, c + 1 \in S,
           NEW n \in Int, After(q, n), n < c + 1
    PROVE  After(Overwrite(q, c + 1), n)
<1> DEFINE first == MaxOf(1, Len(q) - QueueCapacity + 2)
           r == SubSeq(q, first, Len(q))
<1>1. first \in 1..(Len(q) + 1) /\ Len(q) \in 0..Len(q)
  BY BackendAssumption DEF MaxOf
<1> HIDE DEF first
<1>2. /\ r \in Seq(S)
      /\ \A i \in 1..Len(r) : /\ i + first - 1 \in 1..Len(q)
                              /\ r[i] = q[i + first - 1]
  BY <1>1, PieceProperties
<1>3. MakeRoom(q) = r
  BY DEF MakeRoom, first
<1> HIDE DEF r
<1>4. /\ Len(r) \in Nat /\ Len(Append(r, c + 1)) = Len(r) + 1
      /\ \A i \in 1..Len(r) : Append(r, c + 1)[i] = r[i]
      /\ Append(r, c + 1)[Len(r) + 1] = c + 1
  BY <1>2, AppendProperties
<1>5. After(r, n)
  BY <1>2 DEF After
<1> QED
  BY <1>3, <1>4, <1>5 DEF After, Overwrite

\* What is in a part is in the whole.
LEMMA HasConcat ==
    ASSUME NEW S, NEW s \in Seq(S), NEW t \in Seq(S)
    PROVE  /\ s \o t \in Seq(S)
           /\ \A p : Has(s, p) \/ Has(t, p) => Has(s \o t, p)
<1>1. /\ s \o t \in Seq(S) /\ Len(s \o t) = Len(s) + Len(t)
      /\ \A i \in 1 .. Len(s) + Len(t) :
           (s \o t)[i] = IF i <= Len(s) THEN s[i] ELSE t[i - Len(s)]
      /\ Len(s) \in Nat /\ Len(t) \in Nat
  BY ConcatProperties
<1>2. ASSUME NEW p, NEW i \in 1..Len(s), s[i] = p PROVE Has(s \o t, p)
  BY <1>1, <1>2 DEF Has
<1>3. ASSUME NEW p, NEW i \in 1..Len(t), t[i] = p PROVE Has(s \o t, p)
  <2>1. /\ i + Len(s) \in 1..Len(s \o t) /\ ~(i + Len(s) <= Len(s))
        /\ (i + Len(s)) - Len(s) = i /\ i + Len(s) \in 1 .. Len(s) + Len(t)
    BY <1>1
  <2>2. (s \o t)[i + Len(s)] = p
    BY <1>1, <1>3, <2>1
  <2> QED
    BY <2>1, <2>2 DEF Has
<1> QED
  BY <1>1, <1>2, <1>3 DEF Has

\* What is covered stays covered while packets are enqueued elsewhere.
LEMMA CoverLater ==
    ASSUME NEW s, NEW o, NEW q, NEW j \in Int, NEW n \in Int, NEW c \in Int,
           Covered(s, o, q, j, n, c)
    PROVE  Covered(s, o, q, j, n, c + 1)
BY BackendAssumption DEF Covered

\* getNextPackets: all of the stream is in the batch or in what is left.
LEMMA BatchAndRest ==
    ASSUME NEW S, NEW q \in Seq(S)
    PROVE  /\ \A p : Has(q, p) <=> Has(Batch(q), p) \/ Has(Rest(q), p)
           /\ Batch(q) \in Seq(S) /\ Rest(q) \in Seq(S)
<1> DEFINE k == MinOf(BatchSize, Len(q))
           b == SubSeq(q, 1, k)
           r == SubSeq(q, k + 1, Len(q))
<1>1. /\ k \in 0..Len(q) /\ k + 1 \in 1..(Len(q) + 1)
      /\ 1 \in 1..(Len(q) + 1) /\ Len(q) \in 0..Len(q) /\ Len(q) \in Nat
  BY BackendAssumption DEF MinOf
<1>2. Batch(q) = b /\ Rest(q) = r
  BY DEF Batch, Rest
<1> HIDE DEF k
<1>3. /\ b \in Seq(S) /\ Len(b) = k
      /\ \A i \in 1..Len(b) : i \in 1..Len(q) /\ b[i] = q[i]
  <2>1. /\ b \in Seq(S) /\ Len(b) = IF 1 <= k THEN k - 1 + 1 ELSE 0
        /\ \A i \in 1..Len(b) : /\ i + 1 - 1 \in 1..Len(q)
                                /\ b[i] = q[i + 1 - 1]
    BY <1>1, PieceProperties
  <2> QED
    BY <1>1, <2>1
<1>4. /\ r \in Seq(S) /\ Len(r) = Len(q) - k
      /\ \A i \in 1..Len(r) : i + k \in 1..Len(q) /\ r[i] = q[i + k]
  <2>1. /\ r \in Seq(S)
        /\ Len(r) = IF k + 1 <= Len(q) THEN Len(q) - (k + 1) + 1 ELSE 0
        /\ \A i \in 1..Len(r) : /\ i + (k + 1) - 1 \in 1..Len(q)
                                /\ r[i] = q[i + (k + 1) - 1]
    BY <1>1, PieceProperties
  <2> QED
    BY <1>1, <2>1
<1> HIDE DEF b, r
<1>5. ASSUME NEW p, Has(q, p) PROVE Has(b, p) \/ Has(r, p)
  <2>1. PICK i \in 1..Len(q) : q[i] = p
    BY <1>5 DEF Has
  <2>2. CASE i <= k
    BY <1>1, <1>3, <2>1, <2>2 DEF Has
  <2>3. CASE i > k
    <3>1. i - k \in 1..Len(r) /\ (i - k) + k = i
      BY <1>1, <1>4, <2>3
    <3> QED
      BY <1>4, <2>1, <3>1 DEF Has
  <2> QED
    BY <1>1, <2>2, <2>3
<1>6. ASSUME NEW p, Has(b, p) \/ Has(r, p) PROVE Has(q, p)
  BY <1>3, <1>4, <1>6 DEF Has
<1> QED
  BY <1>2, <1>3, <1>4, <1>5, <1>6

\* OnWriteDone: the packet flushed is among those sent.
LEMMA SentAndHeld ==
    ASSUME NEW S, NEW s \in Seq(S), NEW o \in Seq(S), o # <<>>
    PROVE  \A p : Has(s, p) \/ Has(o, p)
                    <=> Has(Append(s, Head(o)), p) \/ Has(Tail(o), p)
<1> DEFINE t == Append(s, Head(o))
           r == Tail(o)
<1>1. /\ Len(o) \in Nat /\ 1 \in 1..Len(o) /\ Head(o) = o[1] /\ o[1] \in S
  BY HeadTailProperties, ElementOfSeq
<1>2. /\ Len(r) = Len(o) - 1
      /\ \A i \in 1..Len(r) : r[i] = o[i + 1] /\ i + 1 \in 1..Len(o)
  BY <1>1, HeadTailProperties
<1>3. /\ Len(s) \in Nat /\ Len(t) = Len(s) + 1
      /\ \A i \in 1..Len(s) : t[i] = s[i]
      /\ t[Len(s) + 1] = o[1]
  BY <1>1, AppendProperties
<1> HIDE DEF t, r
<1>4. \A p : Has(t, p) <=> Has(s, p) \/ p = o[1]
  BY <1>3 DEF Has
<1>5. \A p : Has(o, p) <=> Has(r, p) \/ p = o[1]
  <2>1. \A i \in 1..Len(o) : i = 1 \/ (i - 1 \in 1..Len(r) /\ (i - 1) + 1 = i)
    BY <1>1, <1>2
  <2> QED
    BY <1>1, <1>2, <2>1 DEF Has
<1> QED
  BY <1>4, <1>5 DEF t, r

-----------------------------------------------------------------------------
(* Every step keeps every writer lossless.                                 *)

\* A writer's own step moves a batch, moves one packet, starts or ends its
\* history, or leaves all it is promised alone.
LEMMA LosslessWriter ==
    ASSUME IInv, NEW w \in Writers, Lined(w), Lossless(w),
           \/ Connect(w) \/ Constructor(w) \/ PumpSteps(w)
           \/ AlarmFires(w) \/ WriteSucceeds(w) \/ WriteFails(w)
           \/ Cancel(w) \/ FinishSteps(w)
    PROVE  Lossless(w)'
<1> DEFINE P == 1..MaxPackets
<1>1. /\ pc \in [Writers -> WriterStates]
      /\ stream \in [Writers -> Seq(P)]
      /\ outbox \in [Writers -> Seq(P)]
      /\ sent \in [Writers -> Seq(P)]
      /\ joined \in [Writers -> 0..MaxPackets]
      /\ subscribers \in SUBSET Writers
      /\ P \subseteq Int /\ count \in Int /\ joined[w] \in Int
      /\ Line(sent[w], outbox[w], stream[w], count)
      /\ FetchesWhenEmpty(w)
      /\ pending[w] # {} => pc[w] = "parked"
      /\ Fresh(w) /\ NothingOld(w) /\ StreamCovered(w) /\ BatchCovered(w)
  BY BackendAssumption DEF IInv, TypeOK, Lined, OneContinuation, Lossless
<1> USE DEF Goto, Finish, Park, Resume, serverVars, managerVars, feedVars,
            writerVars
<1>s. ASSUME UNCHANGED <<sent, outbox, stream, joined, subscribers, count>>,
             pc'[w] \in {"idle", "checkLimit", "subscribe", "insert"} =>
               pc[w] \in {"idle", "checkLimit", "subscribe", "insert"},
             w \in subscribers /\ Open(w)' => Open(w)
      PROVE  Lossless(w)'
  <2>1. Fresh(w)'
    BY <1>1, <1>s DEF Fresh
  <2>2. NothingOld(w)'
    BY <1>1, <1>s DEF NothingOld
  <2>3. StreamCovered(w)'
    BY <1>1, <1>s DEF StreamCovered
  <2>4. BatchCovered(w)'
    BY <1>1, <1>s DEF BatchCovered
  <2> QED
    BY <2>1, <2>2, <2>3, <2>4 DEF Lossless
<1>2. CASE \/ Connect(w) \/ CheckLimit(w) \/ Pump(w) \/ Fetch(w)
           \/ AlarmFires(w) \/ WriteFails(w) \/ Cancel(w) \/ FinishUp(w)
  <2>1. UNCHANGED <<sent, outbox, stream, joined, subscribers, count>>
    BY <1>2 DEF Connect, CheckLimit, Pump, Fetch, AlarmFires, WriteFails,
       Cancel, FinishUp
  <2>2. pc'[w] \in {"idle", "checkLimit", "subscribe", "insert"} =>
          pc[w] \in {"idle", "checkLimit", "subscribe", "insert"}
    BY <1>1, <1>2 DEF Connect, CheckLimit, Pump, Fetch, AlarmFires,
       WriteFails, Cancel, FinishUp
  <2>3. w \in subscribers /\ Open(w)' => Open(w)
    BY <1>1, <1>2 DEF Open, Fresh, Connect, CheckLimit, Pump, Fetch,
       AlarmFires, WriteFails, Cancel, FinishUp
  <2> QED
    BY <1>s, <2>1, <2>2, <2>3
<1>3. CASE SubscribeCheck(w)
  <2>1. /\ UNCHANGED <<sent, outbox, stream, subscribers, count>>
        /\ w \notin subscribers /\ sent[w] = <<>> /\ outbox[w] = <<>>
    BY <1>1, <1>3 DEF SubscribeCheck, Fresh
  <2>2. CASE managerRunning
    BY <1>1, <1>3, <1>s, <2>1, <2>2 DEF SubscribeCheck
  <2>3. CASE ~managerRunning
    <3>1. joined'[w] = count /\ pc'[w] = "pump"
      BY <1>1, <1>3, <2>3 DEF SubscribeCheck
    <3>2. Fresh(w)' /\ StreamCovered(w)'
      BY <2>1, <3>1 DEF Fresh, StreamCovered
    <3>3. NothingOld(w)'
      BY <1>1, <2>1, <3>1, HasNothing, AfterHas DEF NothingOld
    <3>4. BatchCovered(w)'
      BY <2>1, HasNothing DEF BatchCovered
    <3> QED
      BY <3>2, <3>3, <3>4 DEF Lossless
  <2> QED
    BY <2>2, <2>3
<1>4. CASE Insert(w)
  <2>1. /\ UNCHANGED <<sent, outbox, count>>
        /\ sent[w] = <<>> /\ outbox[w] = <<>>
        /\ stream'[w] = <<>> /\ joined'[w] = count /\ pc'[w] = "pump"
    BY <1>1, <1>4 DEF Insert, Fresh
  <2>2. Fresh(w)'
    BY <2>1 DEF Fresh
  <2>3. NothingOld(w)'
    BY <1>1, <2>1, HasNothing, AfterHas DEF NothingOld
  <2>4. StreamCovered(w)'
    BY <1>1, <2>1 DEF StreamCovered, Covered
  <2>5. BatchCovered(w)'
    BY <2>1, HasNothing DEF BatchCovered
  <2> QED
    BY <2>2, <2>3, <2>4, <2>5 DEF Lossless
<1>5. CASE Dequeue(w)
  <2>1. CASE w \in subscribers /\ stream[w] # <<>>
    <3>1. /\ UNCHANGED <<sent, count, joined, subscribers>>
          /\ outbox'[w] = Batch(stream[w])
          /\ stream'[w] = Rest(stream[w])
          /\ pc'[w] = "parked"
      BY <1>1, <1>5, <2>1 DEF Dequeue
    <3>2. outbox[w] = <<>> /\ Open(w)
      BY <1>1, <1>5 DEF Dequeue, FetchesWhenEmpty, Open
    <3>3. /\ \A p : Has(stream[w], p) <=>
                      Has(Batch(stream[w]), p) \/ Has(Rest(stream[w]), p)
          /\ Batch(stream[w]) \in Seq(P) /\ Rest(stream[w]) \in Seq(P)
      BY <1>1, BatchAndRest
    <3>4. Line(sent[w], Batch(stream[w]), Rest(stream[w]), count)
      BY <1>1, <3>2, LineDequeue
    <3>5. Fresh(w)'
      BY <3>1 DEF Fresh
    <3>6. NothingOld(w)'
      <4>1. After(stream[w], joined[w])
        BY <1>1, <2>1 DEF NothingOld
      <4>2. /\ After(Batch(stream[w]), joined[w])
            /\ After(Rest(stream[w]), joined[w])
        BY <3>3, <4>1, AfterHas
      <4> QED
        BY <1>1, <3>1, <4>2 DEF NothingOld
    <3>7. \A p \in joined[w] + 1 .. count :
            \/ Has(sent[w], p) \/ Has(Batch(stream[w]), p)
            \/ Has(Rest(stream[w]), p) \/ p + QueueCapacity <= count
      BY <1>1, <2>1, <3>2, <3>3, HasNothing DEF StreamCovered, Covered
    <3>8. StreamCovered(w)'
      BY <3>1, <3>7 DEF StreamCovered, Covered
    <3>9. BatchCovered(w)'
      <4>1. SUFFICES ASSUME NEW b \in P, Has(Batch(stream[w]), b),
                            NEW p \in joined[w] + 1 .. b - 1
                     PROVE  \/ Has(sent[w], p) \/ Has(Batch(stream[w]), p)
                            \/ p + QueueCapacity <= count
        BY <3>1 DEF BatchCovered, Covered
      <4>2. b <= count /\ b \in Int
        BY <1>1, <3>4, <4>1 DEF Has, Line, UpTo
      <4>3. ~Has(Rest(stream[w]), p)
        <5> SUFFICES ASSUME Has(Rest(stream[w]), p) PROVE FALSE
          OBVIOUS
        <5>1. b < p
          BY <3>4, <4>1 DEF Has, Line, Below
        <5> QED
          BY <1>1, <4>1, <4>2, <5>1
      <4>4. p \in joined[w] + 1 .. count
        BY <1>1, <4>1, <4>2
      <4> QED
        BY <3>7, <4>3, <4>4
    <3> QED
      BY <3>5, <3>6, <3>8, <3>9 DEF Lossless
  <2>2. CASE ~(w \in subscribers /\ stream[w] # <<>>)
    <3>1. UNCHANGED <<sent, outbox, stream, joined, subscribers, count>>
      BY <1>1, <1>5, <2>2 DEF Dequeue
    <3>2. pc[w] = "dequeue" /\ pc'[w] = "parked"
      BY <1>1, <1>5, <2>2 DEF Dequeue
    <3> QED
      BY <1>s, <3>1, <3>2 DEF Open
  <2> QED
    BY <2>1, <2>2
<1>6. CASE WriteSucceeds(w)
  <2>1. outbox[w] # <<>> /\ pc[w] = "parked"
    BY <1>1, <1>6 DEF WriteSucceeds, IInv, OneContinuation
  <2>2. /\ UNCHANGED <<stream, count, joined, subscribers>>
        /\ outbox'[w] = Tail(outbox[w])
        /\ sent'[w] = Append(sent[w], Head(outbox[w]))
        /\ pc'[w] = "pump"
    BY <1>1, <1>6 DEF WriteSucceeds
  <2>3. \A p : Has(sent[w], p) \/ Has(outbox[w], p) <=>
                 Has(sent'[w], p) \/ Has(outbox'[w], p)
    BY <1>1, <2>1, <2>2, SentAndHeld
  <2>4. \A p : Has(outbox'[w], p) => Has(outbox[w], p)
    <3>1. /\ Len(outbox[w]) \in Nat
          /\ Len(Tail(outbox[w])) = Len(outbox[w]) - 1
          /\ \A i \in 1..Len(Tail(outbox[w])) :
               Tail(outbox[w])[i] = outbox[w][i + 1]
      BY <1>1, <2>1, HeadTailProperties
    <3> QED
      BY <2>2, <3>1 DEF Has
  <2>5. Fresh(w)'
    BY <2>2 DEF Fresh
  <2>6. NothingOld(w)'
    <3>1. After(sent[w], joined[w]) /\ After(outbox[w], joined[w])
      BY <1>1 DEF NothingOld
    <3>2. After(sent'[w], joined[w]) /\ After(outbox'[w], joined[w])
      BY <2>3, <3>1, AfterHas
    <3> QED
      BY <1>1, <2>2, <3>2 DEF NothingOld
  <2>7. StreamCovered(w)'
    BY <1>1, <2>1, <2>2, <2>3 DEF StreamCovered, Covered, Open
  <2>8. BatchCovered(w)'
    BY <1>1, <2>2, <2>3, <2>4 DEF BatchCovered, Covered
  <2> QED
    BY <2>5, <2>6, <2>7, <2>8 DEF Lossless
<1>7. CASE Erase(w)
  <2>1. /\ UNCHANGED <<sent, outbox, count, joined>>
        /\ w \notin subscribers' /\ pc'[w] = "finished"
    BY <1>1, <1>7 DEF Erase, RemoveSubscriber
  <2> QED
    BY <1>1, <2>1 DEF Lossless, Fresh, NothingOld, StreamCovered, BatchCovered
<1>8. CASE OnDone(w)
  <2>1. /\ UNCHANGED count
        /\ sent'[w] = <<>> /\ outbox'[w] = <<>> /\ joined'[w] = 0
        /\ pc'[w] = "done"
    BY <1>1, <1>8 DEF OnDone
  <2>2. stream'[w] = <<>> \/ stream'[w] = stream[w]
    BY <1>1, <1>8 DEF OnDone, RemoveSubscriber
  <2>3. After(stream'[w], 0)
    <3>1. After(stream[w], 0)
      <4>1. \A i \in 1..Len(stream[w]) : stream[w][i] \in P
        BY <1>1, ElementOfSeq
      <4> QED
        BY <4>1, BackendAssumption DEF After
    <3> QED
      BY <2>2, <3>1, HasNothing, AfterHas
  <2>4. NothingOld(w)'
    <3>1. 0 <= count
      BY BackendAssumption DEF IInv, TypeOK
    <3> QED
      BY <2>1, <2>3, <3>1, HasNothing, AfterHas DEF NothingOld
  <2>5. BatchCovered(w)'
    BY <2>1, HasNothing DEF BatchCovered
  <2> QED
    BY <2>1, <2>4, <2>5 DEF Lossless, Fresh, StreamCovered, Open
<1> QED
  BY <1>2, <1>3, <1>4, <1>5, <1>6, <1>7, <1>8
  DEF Constructor, PumpSteps, FinishSteps

\* No writer touches where another joined.
LEMMA JoinFrame ==
    ASSUME TypeOK, NEW w \in Writers, NEW v \in Writers, v # w,
           \/ Connect(w) \/ Constructor(w) \/ PumpSteps(w)
           \/ AlarmFires(w) \/ WriteSucceeds(w) \/ WriteFails(w)
           \/ Cancel(w) \/ FinishSteps(w)
    PROVE  joined'[v] = joined[v]
<1> USE DEF TypeOK, RemoveSubscriber, managerVars
<1>1. CASE \/ Connect(w) \/ CheckLimit(w) \/ Pump(w) \/ Fetch(w)
           \/ AlarmFires(w) \/ WriteSucceeds(w) \/ WriteFails(w) \/ Cancel(w)
           \/ FinishUp(w)
  BY <1>1 DEF Connect, CheckLimit, Pump, Fetch, AlarmFires, WriteSucceeds,
     WriteFails, Cancel, FinishUp
<1>2. CASE SubscribeCheck(w) BY <1>2 DEF SubscribeCheck
<1>3. CASE Insert(w) BY <1>3 DEF Insert
<1>4. CASE Dequeue(w) BY <1>4 DEF Dequeue
<1>5. CASE Erase(w) BY <1>5 DEF Erase
<1>6. CASE OnDone(w) BY <1>6 DEF OnDone
<1> QED
  BY <1>1, <1>2, <1>3, <1>4, <1>5, <1>6
  DEF Constructor, PumpSteps, FinishSteps

\* The propagator covers its packet in every stream; the main thread takes
\* streams away or leaves them alone.
LEMMA LosslessOthers ==
    ASSUME IInv, NEW v \in Writers, Lined(v), Lossless(v),
           \/ Start \/ Stop \/ StopManager \/ UnsubscribeAll \/ Destroy
           \/ BeginShutdown \/ ShutdownDeadline \/ ShutdownReturns
           \/ EnqueueCheck \/ Enqueue \/ Terminated \/ UNCHANGED vars
    PROVE  Lossless(v)'
<1> DEFINE P == 1..MaxPackets
<1>1. /\ stream[v] \in Seq(P) /\ P \subseteq Int
      /\ count \in Int /\ joined[v] \in Int
      /\ Len(stream[v]) <= QueueCapacity
      /\ Rising(stream[v]) /\ UpTo(stream[v], count)
      /\ Fresh(v) /\ NothingOld(v) /\ StreamCovered(v) /\ BatchCovered(v)
  BY BackendAssumption DEF IInv, TypeOK, QueueBounds, Lined, Line, Lossless
<1>2. UNCHANGED <<pc, outbox>>
  BY OtherFrame
<1>3. UNCHANGED <<sent, joined>>
  BY DEF Start, Stop, StopManager, UnsubscribeAll, Destroy, BeginShutdown,
     ShutdownDeadline, ShutdownReturns, EnqueueCheck, Enqueue, Terminated,
     ClearSubscribers, vars, writerVars, managerVars
<1>4. CASE Enqueue
  <2>1. /\ count + 1 \in P /\ count' = count + 1
        /\ UNCHANGED subscribers
        /\ stream'[v] = IF v \in subscribers THEN Overwrite(stream[v], count + 1)
                                             ELSE stream[v]
    BY <1>4, BackendAssumption DEF Enqueue, IInv, FeedPhase, TypeOK
  <2>2. Fresh(v)'
    BY <1>1, <1>2, <1>3, <2>1 DEF Fresh
  <2>3. StreamCovered(v)'
    <3>1. SUFFICES ASSUME v \in subscribers, Open(v)
                   PROVE  Covered(sent[v], outbox[v],
                                  Overwrite(stream[v], count + 1),
                                  joined[v], count + 1, count + 1)
      BY <1>2, <1>3, <2>1 DEF StreamCovered, Open
    <3>2. Covered(sent[v], outbox[v], stream[v], joined[v], count, count)
      BY <1>1, <3>1 DEF StreamCovered
    <3> QED
      BY <1>1, <2>1, <3>2, CoverEnqueue
  <2>4. BatchCovered(v)'
    <3>1. SUFFICES ASSUME NEW p \in P, Has(outbox[v], p)
                   PROVE  Covered(sent[v], outbox[v], <<>>, joined[v], p - 1,
                                  count + 1)
      BY <1>2, <1>3, <2>1 DEF BatchCovered
    <3>2. Covered(sent[v], outbox[v], <<>>, joined[v], p - 1, count)
      BY <1>1, <3>1 DEF BatchCovered
    <3> QED
      BY <1>1, <3>2, CoverLater
  <2>5. NothingOld(v)'
    <3>1. CASE v \in subscribers
      <4>1. After(stream[v], joined[v]) /\ joined[v] < count + 1
        BY <1>1, <3>1 DEF NothingOld
      <4>2. After(Overwrite(stream[v], count + 1), joined[v])
        BY <1>1, <2>1, <4>1, AfterOverwrite
      <4> QED
        BY <1>1, <1>2, <1>3, <2>1, <4>1, <4>2 DEF NothingOld
    <3>2. CASE v \notin subscribers
      BY <1>1, <1>2, <1>3, <2>1, <3>2 DEF NothingOld
    <3> QED
      BY <3>1, <3>2
  <2> QED
    BY <2>2, <2>3, <2>4, <2>5 DEF Lossless
<1>5. CASE UnsubscribeAll \/ Destroy
  <2>1. subscribers' = {} /\ count' = count
    BY <1>5 DEF UnsubscribeAll, Destroy, ClearSubscribers, feedVars
  <2> QED
    BY <1>1, <1>2, <1>3, <2>1
    DEF Lossless, Fresh, NothingOld, StreamCovered, BatchCovered
<1>6. CASE \/ Start \/ Stop \/ StopManager \/ BeginShutdown
           \/ ShutdownDeadline \/ ShutdownReturns \/ EnqueueCheck
           \/ Terminated \/ UNCHANGED vars
  <2>1. UNCHANGED <<stream, subscribers, count>>
    BY <1>6 DEF Start, Stop, StopManager, BeginShutdown, ShutdownDeadline,
       ShutdownReturns, EnqueueCheck, Terminated, vars, managerVars, feedVars
  <2> QED
    BY <1>1, <1>2, <1>3, <2>1
    DEF Lossless, Fresh, NothingOld, StreamCovered, BatchCovered, Open
<1> QED
  BY <1>4, <1>5, <1>6

\* At the start nothing is promised.
LEMMA LossInit == Init => LossInv
<1> SUFFICES ASSUME Init, NEW w \in Writers PROVE Lossless(w)
  BY DEF LossInv
<1>1. /\ sent[w] = <<>> /\ outbox[w] = <<>> /\ subscribers = {}
      /\ joined[w] = 0 /\ count = 0
  BY DEF Init
<1> QED
  BY <1>1, HasNothing, AfterHas
  DEF Lossless, Fresh, NothingOld, StreamCovered, BatchCovered

\* Every step of any thread keeps every writer lossless.
LEMMA LossStep == IInv /\ OrderInv /\ LossInv /\ [Next]_vars => LossInv'
<1> SUFFICES ASSUME IInv, OrderInv, LossInv, [Next]_vars, NEW v \in Writers
             PROVE  Lossless(v)'
  BY DEF LossInv
<1>1. TypeOK /\ Lined(v) /\ Lossless(v)
  BY DEF IInv, OrderInv, LossInv
<1>2. ASSUME NEW w \in Writers,
             \/ Connect(w) \/ Constructor(w) \/ PumpSteps(w)
             \/ AlarmFires(w) \/ WriteSucceeds(w) \/ WriteFails(w)
             \/ Cancel(w) \/ FinishSteps(w)
      PROVE  Lossless(v)'
  <2>1. CASE v = w
    BY <1>1, <1>2, <2>1, LosslessWriter
  <2>2. CASE v # w
    <3>1. /\ pc'[v] = pc[v] /\ outbox'[v] = outbox[v]
          /\ sent'[v] = sent[v] /\ stream'[v] = stream[v] /\ count' = count
          /\ joined'[v] = joined[v]
          /\ v \in subscribers' <=> v \in subscribers
      BY <1>1, <1>2, <2>2, WriterFrame, LineFrame, JoinFrame
    <3> QED
      BY <1>1, <3>1
      DEF Lossless, Fresh, NothingOld, StreamCovered, BatchCovered, Open
  <2> QED
    BY <2>1, <2>2
<1> QED
  BY <1>1, <1>2, LosslessOthers DEF Next

-----------------------------------------------------------------------------
(* The theorems.                                                           *)

\* The strengthened invariant, from the first state to every other.
LEMMA PromiseKept == Spec => [](IInv /\ OrderInv /\ LossInv)
BY InitIInv, NextIInv, OrderInit, OrderStep, LossInit, LossStep, PTL DEF Spec

\* A subscriber loses a packet only to QueueCapacity newer ones: neither the
\* hand-over from stream to private queue, nor a neighbour, nor any step of
\* another thread takes one from it.
THEOREM OnlyOverflowLoses == Spec => []LossOnlyByOverflow
<1>1. IInv /\ LossInv => LossOnlyByOverflow
  <2> SUFFICES ASSUME IInv, LossInv, NEW w \in subscribers, Open(w),
                      NEW p \in Missing(w)
               PROVE  p + QueueCapacity <= count
    BY DEF LossOnlyByOverflow
  <2> DEFINE P == 1..MaxPackets
             a == sent[w] \o outbox[w]
             line == a \o stream[w]
  <2>1. /\ w \in Writers
        /\ sent[w] \in Seq(P) /\ outbox[w] \in Seq(P) /\ stream[w] \in Seq(P)
        /\ Covered(sent[w], outbox[w], stream[w], joined[w], count, count)
    BY DEF IInv, TypeOK, LossInv, Lossless, StreamCovered
  <2>2. /\ p \in joined[w] + 1 .. count
        /\ p \notin Range(line)
    BY DEF Missing, Pipeline
  <2>3. a \in Seq(P) /\ \A q : Has(sent[w], q) \/ Has(outbox[w], q) => Has(a, q)
    BY <2>1, HasConcat
  <2>4. line \in Seq(P) /\ \A q : Has(a, q) \/ Has(stream[w], q) => Has(line, q)
    BY <2>1, <2>3, HasConcat
  <2>5. ~Has(line, p)
    <3>1. DOMAIN line = 1..Len(line)
      BY <2>4
    <3> QED
      BY <2>2, <3>1 DEF Has, Range
  <2> QED
    BY <2>1, <2>2, <2>3, <2>4, <2>5 DEF Covered
<1> QED
  BY <1>1, PromiseKept, PTL

-----------------------------------------------------------------------------
(* The refinement.                                                         *)

\* Seen from Broadcast, a writer's step concerns that writer alone.
LEMMA ViewFrame ==
    ASSUME TypeOK, NEW w \in Writers, NEW v \in Writers, v # w,
           \/ Connect(w) \/ Constructor(w) \/ PumpSteps(w)
           \/ AlarmFires(w) \/ WriteSucceeds(w) \/ WriteFails(w)
           \/ Cancel(w) \/ FinishSteps(w)
    PROVE  (v \in Served' <=> v \in Served) /\ Position'[v] = Position[v]
<1>1. pc'[v] = pc[v] /\ sent'[v] = sent[v] /\ joined'[v] = joined[v]
  BY WriterFrame, LineFrame, JoinFrame
<1> QED
  BY <1>1 DEF Served, Position, Cursor

\* The next packet a write delivers is the next for the cursor, or what lies
\* between is old.
LEMMA HeadIsNext ==
    ASSUME IInv, NEW w \in Writers, Lined(w), Lossless(w), outbox[w] # <<>>
    PROVE  /\ Head(outbox[w]) \in Cursor(w) + 1 .. count
           /\ \/ Head(outbox[w]) = Cursor(w) + 1
              \/ Head(outbox[w]) - 1 + QueueCapacity <= count
<1> DEFINE P == 1..MaxPackets
           h == outbox[w][1]
<1>1. /\ sent[w] \in Seq(P) /\ outbox[w] \in Seq(P) /\ P \subseteq Int
      /\ joined[w] \in Int /\ count \in Int /\ QueueCapacity \in Nat
      /\ Rising(sent[w]) /\ Rising(outbox[w])
      /\ Below(sent[w], outbox[w]) /\ UpTo(outbox[w], count)
      /\ After(sent[w], joined[w]) /\ After(outbox[w], joined[w])
      /\ BatchCovered(w)
  BY BackendAssumption DEF IInv, TypeOK, Lined, Line, Lossless, NothingOld
<1>2. Len(outbox[w]) \in Nat /\ 1 \in 1..Len(outbox[w]) /\ h \in P
  <2>1. Len(outbox[w]) \in Nat \ {0}
    BY <1>1, EmptySeq
  <2>2. 1 \in 1..Len(outbox[w])
    BY <2>1
  <2>3. h \in P
    BY <1>1, <2>2, ElementOfSeq
  <2> QED
    BY <2>1, <2>2, <2>3
<1>3. Head(outbox[w]) = h
  BY <1>1, <1>2
<1>4. h \in Int /\ h <= count /\ joined[w] < h
  BY <1>1, <1>2 DEF UpTo, After
<1> DEFINE c == Cursor(w)
<1>5. /\ c \in Int /\ c < h /\ joined[w] <= c
      /\ \A i \in 1..Len(sent[w]) : sent[w][i] <= c
  <2>1. CASE sent[w] = <<>>
    <3>1. c = joined[w] /\ Len(sent[w]) = 0
      BY <2>1, EmptySeq DEF Cursor
    <3> QED
      BY <1>1, <1>4, <3>1
  <2>2. CASE sent[w] # <<>>
    <3>1. Len(sent[w]) \in Nat \ {0}
      BY <1>1, <2>2, EmptySeq
    <3>2. Len(sent[w]) \in 1..Len(sent[w]) /\ c = sent[w][Len(sent[w])]
      BY <2>2, <3>1 DEF Cursor
    <3>3. \A i \in 1..Len(sent[w]) : sent[w][i] \in Int
      BY <1>1, ElementOfSeq
    <3>4. c \in Int /\ c < h /\ joined[w] < c
      BY <1>1, <1>2, <3>2, <3>3 DEF Below, After
    <3>5. ASSUME NEW i \in 1..Len(sent[w]) PROVE sent[w][i] <= c
      <4>1. CASE i = Len(sent[w])
        BY <3>2, <3>4, <4>1
      <4>2. CASE i < Len(sent[w])
        BY <1>1, <3>2, <3>3, <3>4, <4>2 DEF Rising
      <4> QED
        BY <3>1, <4>1, <4>2
    <3> QED
      BY <1>1, <3>4, <3>5
  <2> QED
    BY <2>1, <2>2
<1> HIDE DEF c
<1>6. ASSUME h # c + 1 PROVE h - 1 + QueueCapacity <= count
  <2> DEFINE p == h - 1
  <2>1. p \in Int /\ c < p /\ p < h /\ p \in joined[w] + 1 .. h - 1
    BY <1>1, <1>4, <1>5, <1>6
  <2> HIDE DEF p
  <2>2. Has(outbox[w], h)
    BY <1>2 DEF Has
  <2>3. \/ Has(sent[w], p) \/ Has(outbox[w], p) \/ Has(<<>>, p)
        \/ p + QueueCapacity <= count
    BY <1>1, <1>2, <2>1, <2>2 DEF BatchCovered, Covered
  <2>4. ~Has(sent[w], p)
    <3> SUFFICES ASSUME NEW i \in 1..Len(sent[w]), sent[w][i] = p PROVE FALSE
      BY DEF Has
    <3> QED
      BY <1>5, <2>1
  <2>5. ~Has(outbox[w], p)
    <3> SUFFICES ASSUME NEW i \in 1..Len(outbox[w]), outbox[w][i] = p
                 PROVE  FALSE
      BY DEF Has
    <3>1. i = 1 \/ h < outbox[w][i]
      BY <1>1, <1>2 DEF Rising
    <3> QED
      BY <1>4, <2>1, <3>1
  <2>6. p + QueueCapacity <= count
    BY <2>3, <2>4, <2>5, HasNothing
  <2> QED
    BY <2>6 DEF p
<1> QED
  BY <1>1, <1>3, <1>4, <1>5, <1>6 DEF c

\* Only the end of a write moves a cursor; subscribe() and the way to Finish
\* are the ways in and out; nothing else is seen.
LEMMA WriterRefines ==
    ASSUME IInv, NEW w \in Writers, Lined(w), Lossless(w),
           \/ Connect(w) \/ Constructor(w) \/ PumpSteps(w)
           \/ AlarmFires(w) \/ WriteSucceeds(w) \/ WriteFails(w)
           \/ Cancel(w) \/ FinishSteps(w)
    PROVE  Abstract!Next \/ UNCHANGED Abstract!vars
<1>1. /\ pc \in [Writers -> WriterStates]
      /\ sent \in [Writers -> Seq(1..MaxPackets)]
      /\ joined \in [Writers -> 0..MaxPackets]
      /\ pending[w] # {} => pc[w] = "parked"
      /\ TypeOK
  BY DEF IInv, TypeOK, OneContinuation
<1>2. /\ \A v \in Writers : v # w =>
           (v \in Served' <=> v \in Served) /\ Position'[v] = Position[v]
      /\ count' = count
  <2>1. \A v \in Writers : v # w =>
          (v \in Served' <=> v \in Served) /\ Position'[v] = Position[v]
    BY <1>1, ViewFrame
  <2>2. count' = count
    BY DEF Connect, Constructor, CheckLimit, SubscribeCheck, Insert, PumpSteps,
       Pump, Fetch, Dequeue, AlarmFires, WriteSucceeds, WriteFails, Cancel,
       FinishSteps, FinishUp, Erase, OnDone, feedVars
  <2> QED
    BY <2>1, <2>2
<1>3. /\ Served \subseteq Writers /\ Served' \subseteq Writers
      /\ DOMAIN Position = Writers /\ DOMAIN Position' = Writers
      /\ Position = [v \in Writers |-> Position[v]]
      /\ Position' = [v \in Writers |-> Position'[v]]
  BY DEF Served, Position
<1>a. ASSUME w \in Served' <=> w \in Served, Position'[w] = Position[w]
      PROVE  UNCHANGED Abstract!vars
  <2>1. Served' = Served
    BY <1>2, <1>3, <1>a
  <2>2. Position' = Position
    BY <1>2, <1>3, <1>a
  <2> QED
    BY <1>2, <2>1, <2>2 DEF Abstract!vars
<1>b. ASSUME NEW x, Position'[w] = x
      PROVE  Position' = [Position EXCEPT ![w] = x]
  BY <1>2, <1>3, <1>b
<1> USE DEF Goto, Finish, Park, Resume, managerVars, feedVars, writerVars
<1>4. CASE \/ Connect(w) \/ CheckLimit(w) \/ Fetch(w) \/ AlarmFires(w)
           \/ Cancel(w) \/ FinishUp(w)
  <2>1. UNCHANGED <<sent, joined>>
    BY <1>4 DEF Connect, CheckLimit, Fetch, AlarmFires, Cancel, FinishUp
  <2>2. w \in Served' <=> w \in Served
    BY <1>1, <1>4 DEF Served, Connect, CheckLimit, Fetch, AlarmFires, Cancel,
       FinishUp
  <2> QED
    BY <1>a, <2>1, <2>2 DEF Position, Cursor
<1>5. CASE Dequeue(w)
  <2>1. UNCHANGED <<sent, joined>>
    BY <1>5 DEF Dequeue
  <2>2. w \in Served /\ w \in Served'
    BY <1>1, <1>5 DEF Served, Dequeue
  <2> QED
    BY <1>a, <2>1, <2>2 DEF Position, Cursor
<1>6. CASE Erase(w) \/ OnDone(w)
  <2>1. w \notin Served /\ w \notin Served'
    BY <1>1, <1>6 DEF Served, Erase, OnDone
  <2> QED
    BY <1>a, <2>1 DEF Position
<1>7. ASSUME w \notin Served, w \in Served', sent'[w] = <<>>,
             joined'[w] = count
      PROVE  Abstract!Join(w)
  <2>1. Served' = Served \union {w}
    BY <1>2, <1>3, <1>7
  <2>2. Position'[w] = count
    BY <1>7 DEF Position, Cursor
  <2> QED
    BY <1>2, <1>7, <1>b, <2>1, <2>2 DEF Abstract!Join
<1>8. ASSUME w \in Served, w \notin Served'
      PROVE  Abstract!Leave(w)
  <2>1. Served' = Served \ {w}
    BY <1>2, <1>3, <1>8
  <2>2. Position'[w] = 0
    BY <1>8 DEF Position
  <2> QED
    BY <1>2, <1>8, <1>b, <2>1, <2>2 DEF Abstract!Leave
<1>9. CASE SubscribeCheck(w)
  <2>1. w \notin Served /\ sent'[w] = <<>>
    BY <1>9 DEF SubscribeCheck, Served, Lossless, Fresh
  <2>2. CASE managerRunning
    BY <1>1, <1>9, <1>a, <2>1, <2>2 DEF SubscribeCheck, Served, Position
  <2>3. CASE ~managerRunning
    <3>1. w \in Served' /\ joined'[w] = count
      BY <1>1, <1>9, <2>3 DEF SubscribeCheck, Served
    <3> QED
      BY <1>7, <2>1, <3>1 DEF Abstract!Next
  <2> QED
    BY <2>2, <2>3
<1>10. CASE Insert(w)
  <2>1. w \notin Served /\ sent'[w] = <<>>
    BY <1>10 DEF Insert, Served, Lossless, Fresh
  <2>2. w \in Served' /\ joined'[w] = count
    BY <1>1, <1>10 DEF Insert, Served
  <2> QED
    BY <1>7, <2>1, <2>2 DEF Abstract!Next
<1>11. CASE Pump(w)
  <2>1. w \in Served /\ UNCHANGED <<sent, joined>>
    BY <1>1, <1>11 DEF Pump, Served
  <2>2. CASE w \in Served'
    BY <1>a, <2>1, <2>2 DEF Position, Cursor
  <2>3. CASE w \notin Served'
    BY <1>8, <2>1, <2>3 DEF Abstract!Next
  <2> QED
    BY <2>2, <2>3
<1>12. CASE WriteFails(w)
  <2>1. w \in Served /\ w \notin Served'
    BY <1>1, <1>12 DEF WriteFails, Served
  <2> QED
    BY <1>8, <2>1 DEF Abstract!Next
<1>13. CASE WriteSucceeds(w)
  <2>1. /\ w \in Served /\ w \in Served' /\ outbox[w] # <<>>
        /\ sent'[w] = Append(sent[w], Head(outbox[w]))
        /\ sent[w] \in Seq(1..MaxPackets) /\ outbox[w] \in Seq(1..MaxPackets)
    BY <1>1, <1>13 DEF WriteSucceeds, Served, IInv, TypeOK, OneContinuation
  <2>2. /\ sent'[w] # <<>> /\ Len(sent'[w]) = Len(sent[w]) + 1
        /\ sent'[w][Len(sent[w]) + 1] = Head(outbox[w])
    <3>1. Head(outbox[w]) \in 1..MaxPackets
      BY <2>1, HeadTailProperties
    <3> QED
      BY <2>1, <3>1, AppendProperties
  <2>3. Position[w] = Cursor(w) /\ Position'[w] = Head(outbox[w])
    BY <2>1, <2>2 DEF Position, Cursor
  <2>4. Served' = Served
    <3>1. \A v \in Writers : v \in Served' <=> v \in Served
      BY <1>2, <2>1
    <3> QED
      BY <1>3, <3>1
  <2>5. /\ Head(outbox[w]) \in Position[w] + 1 .. count
        /\ \/ Head(outbox[w]) = Position[w] + 1
           \/ Head(outbox[w]) - 1 + QueueCapacity <= count
    BY <2>1, <2>3, HeadIsNext
  <2>6. Abstract!Deliver(w)
    BY <1>2, <1>b, <2>1, <2>3, <2>4, <2>5 DEF Abstract!Deliver
  <2> QED
    BY <2>6 DEF Abstract!Next
<1> QED
  BY <1>4, <1>5, <1>6, <1>9, <1>10, <1>11, <1>12, <1>13
  DEF Constructor, PumpSteps, FinishSteps

\* enqueuePacket publishes; the main thread is not seen.
LEMMA OthersRefine ==
    ASSUME IInv,
           \/ Start \/ Stop \/ StopManager \/ UnsubscribeAll \/ Destroy
           \/ BeginShutdown \/ ShutdownDeadline \/ ShutdownReturns
           \/ EnqueueCheck \/ Enqueue \/ Terminated \/ UNCHANGED vars
    PROVE  Abstract!Next \/ UNCHANGED Abstract!vars
<1>1. UNCHANGED <<pc, sent, joined>>
  BY DEF Start, Stop, StopManager, UnsubscribeAll, Destroy, BeginShutdown,
     ShutdownDeadline, ShutdownReturns, EnqueueCheck, Enqueue, Terminated,
     ClearSubscribers, vars, writerVars, managerVars
<1>2. UNCHANGED <<Served, Position>>
  BY <1>1 DEF Served, Position, Cursor
<1>3. count' = count + 1 \/ count' = count
  BY DEF Start, Stop, StopManager, UnsubscribeAll, Destroy, BeginShutdown,
     ShutdownDeadline, ShutdownReturns, EnqueueCheck, Enqueue, Terminated,
     vars, feedVars
<1> QED
  BY <1>2, <1>3 DEF Abstract!Next, Abstract!Publish, Abstract!vars

\* The backend implements the broadcast: whatever threads, streams, batches
\* and purges do, every subscriber sees one cursor that moves forward through
\* the packets enqueued since it joined and skips only what QueueCapacity
\* newer packets displaced.
THEOREM BackendImplementsBroadcast == Spec => ImplementsBroadcast
<1>1. Init => Abstract!Init
  BY DEF Init, Abstract!Init, Served, Position
<1>2. IInv /\ OrderInv /\ LossInv /\ [Next]_vars
        => [Abstract!Next]_(Abstract!vars)
  <2> SUFFICES ASSUME IInv, OrderInv, LossInv, [Next]_vars
               PROVE  Abstract!Next \/ UNCHANGED Abstract!vars
    OBVIOUS
  <2>1. \A w \in Writers : Lined(w) /\ Lossless(w)
    BY DEF OrderInv, LossInv
  <2> QED
    BY <2>1, WriterRefines, OthersRefine DEF Next
<1> QED
  BY <1>1, <1>2, PromiseKept, PTL DEF Spec, Abstract!Spec, ImplementsBroadcast

=============================================================================
