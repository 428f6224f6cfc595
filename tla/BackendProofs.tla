--------------------------- MODULE BackendProofs ---------------------------
(***************************************************************************)
(* Invariants of Backend, for every set of writers, every capacity and any *)
(* number of packets.                                                      *)
(***************************************************************************)
EXTENDS Backend, SequenceTheorems, TLAPS

-----------------------------------------------------------------------------
(* The inductive invariant.                                                *)

\* The labels at which the writer believes it is subscribed.
Pumping == {"pump", "fetch", "dequeue", "parked", "finishUp"}

\* mSubscribed is set when the pump starts and cleared by finishUp, so OnDone
\* never has to unsubscribe.
FlagFollowsPump == \A w \in Writers : subscribed[w] <=> pc[w] \in Pumping

\* The manager's flag is lowered once, by stop().
ManagerPhase == managerRunning <=> server \in {"created", "running", "stopping"}

\* The propagator only takes the manager's lock for a packet it may offer.
FeedPhase == feed = "enqueue" => count < MaxPackets

IInv ==
    /\ TypeOK
    /\ QueueBounds
    /\ OneContinuation
    /\ MapMatchesWriters
    /\ FlagFollowsPump
    /\ ManagerPhase
    /\ FeedPhase

-----------------------------------------------------------------------------
(* The packet stream.                                                      *)

\* A full stream gives up enough for one packet more and a stream that has
\* room is left alone: enqueuePacket never exceeds the capacity.
LEMMA OverwriteProperties ==
    ASSUME NEW S, NEW q \in Seq(S), NEW p \in S, Len(q) <= QueueCapacity
    PROVE  /\ Overwrite(q, p) \in Seq(S)
           /\ Len(Overwrite(q, p)) <= QueueCapacity
<1> DEFINE first == MaxOf(1, Len(q) - QueueCapacity + 2)
<1>1. /\ Len(q) \in Nat
      /\ QueueCapacity \in Nat \ {0}
      /\ first \in Int /\ 1 <= first
      /\ Len(q) - first + 1 <= QueueCapacity - 1
  BY BackendAssumption DEF MaxOf
<1>2. \A i \in first .. Len(q) : q[i] \in S
  BY <1>1, ElementOfSeq
<1> HIDE DEF first
<1>3. /\ SubSeq(q, first, Len(q)) \in Seq(S)
      /\ Len(SubSeq(q, first, Len(q)))
           = IF first <= Len(q) THEN Len(q) - first + 1 ELSE 0
  BY <1>1, <1>2, SubSeqProperties
<1>4. MakeRoom(q) = SubSeq(q, first, Len(q))
  BY DEF MakeRoom, first
<1>5. MakeRoom(q) \in Seq(S) /\ Len(MakeRoom(q)) <= QueueCapacity - 1
  BY <1>1, <1>3, <1>4
<1> QED
  BY <1>1, <1>5 DEF Overwrite

\* One call of getNextPackets takes at most BatchSize packets, at least one
\* when there are any, and what is left fits the stream.
LEMMA BatchProperties ==
    ASSUME NEW S, NEW q \in Seq(S)
    PROVE  /\ Batch(q) \in Seq(S) /\ Rest(q) \in Seq(S)
           /\ Len(Batch(q)) <= BatchSize
           /\ Len(Rest(q)) <= Len(q)
           /\ q # <<>> => Batch(q) # <<>>
<1> DEFINE k == MinOf(BatchSize, Len(q))
<1>1. /\ Len(q) \in Nat /\ k \in 0..Len(q) /\ k <= BatchSize
      /\ q # <<>> => k >= 1
  BY BackendAssumption DEF MinOf
<1>2. \A i \in 1 .. Len(q) : q[i] \in S
  BY ElementOfSeq
<1> HIDE DEF k
<1>3. /\ SubSeq(q, 1, k) \in Seq(S)
      /\ Len(SubSeq(q, 1, k)) = IF 1 <= k THEN k - 1 + 1 ELSE 0
  BY <1>1, <1>2, SubSeqProperties
<1>4. /\ SubSeq(q, k + 1, Len(q)) \in Seq(S)
      /\ Len(SubSeq(q, k + 1, Len(q)))
           = IF k + 1 <= Len(q) THEN Len(q) - (k + 1) + 1 ELSE 0
  BY <1>1, <1>2, SubSeqProperties
<1>5. Batch(q) = SubSeq(q, 1, k) /\ Rest(q) = SubSeq(q, k + 1, Len(q))
  BY DEF Batch, Rest, k
<1>6. Batch(q) \in Seq(S) /\ Len(Batch(q)) <= BatchSize
  BY <1>1, <1>3, <1>5, BackendAssumption
<1>7. Rest(q) \in Seq(S) /\ Len(Rest(q)) <= Len(q)
  BY <1>1, <1>4, <1>5
<1>8. ASSUME q # <<>> PROVE Batch(q) # <<>>
  <2>1. Len(Batch(q)) >= 1
    BY <1>1, <1>3, <1>5, <1>8
  <2> QED
    BY <2>1
<1> QED
  BY <1>6, <1>7, <1>8

-----------------------------------------------------------------------------
(* Every step preserves the type of every variable.                        *)

LEMMA TypeInit == Init => TypeOK
<1> SUFFICES ASSUME Init PROVE TypeOK
  OBVIOUS
<1>1. /\ server \in ServerStates /\ bound \in BOOLEAN
      /\ keepRunning \in BOOLEAN /\ managerRunning \in BOOLEAN
      /\ subscribers \in SUBSET Writers
      /\ feed \in {"idle", "enqueue"} /\ count \in 0..MaxPackets
  <2>1. count \in 0..MaxPackets
    BY BackendAssumption DEF Init
  <2>2. bound \in BOOLEAN /\ keepRunning \in BOOLEAN
        /\ managerRunning \in BOOLEAN
    BY Zenon DEF Init
  <2>3. /\ server \in ServerStates /\ subscribers \in SUBSET Writers
        /\ feed \in {"idle", "enqueue"}
    BY DEF Init, ServerStates
  <2> QED
    BY <2>1, <2>2, <2>3
<1>2. /\ pc \in [Writers -> WriterStates]
      /\ pending \in [Writers -> SUBSET {"alarm", "write"}]
      /\ cancelled \in [Writers -> BOOLEAN]
      /\ subscribed \in [Writers -> BOOLEAN]
      /\ status \in [Writers -> Statuses]
  BY DEF Init, WriterStates, Statuses
<1>3. /\ stream \in [Writers -> Seq(1..MaxPackets)]
      /\ outbox \in [Writers -> Seq(1..MaxPackets)]
      /\ joined \in [Writers -> 0..MaxPackets]
      /\ sent \in [Writers -> Seq(1..MaxPackets)]
  <2>1. <<>> \in Seq(1..MaxPackets) /\ 0 \in 0..MaxPackets
    BY BackendAssumption, EmptySeq
  <2>2. /\ stream = [w \in Writers |-> <<>>]
        /\ outbox = [w \in Writers |-> <<>>]
        /\ joined = [w \in Writers |-> 0]
        /\ sent = [w \in Writers |-> <<>>]
    BY DEF Init
  <2> QED
    BY <2>1, <2>2, Zenon
<1> QED
  BY <1>1, <1>2, <1>3 DEF TypeOK

LEMMA TypeMain ==
    ASSUME TypeOK,
           \/ Start \/ Stop \/ StopManager \/ UnsubscribeAll \/ Destroy
           \/ BeginShutdown \/ ShutdownDeadline \/ ShutdownReturns
           \/ Terminated
    PROVE  TypeOK'
<1> USE DEF TypeOK, ServerStates, serverVars, managerVars, feedVars,
            writerVars, vars
<1>1. CASE Start BY <1>1 DEF Start
<1>2. CASE Stop BY <1>2 DEF Stop
<1>3. CASE StopManager BY <1>3 DEF StopManager
<1>4. CASE UnsubscribeAll BY <1>4 DEF UnsubscribeAll, ClearSubscribers
<1>5. CASE Destroy BY <1>5 DEF Destroy, ClearSubscribers
<1>6. CASE BeginShutdown BY <1>6 DEF BeginShutdown
<1>7. CASE ShutdownDeadline
  <2>1. \A w \in Writers : (cancelled[w] \/ Open(w)) \in BOOLEAN
    BY DEF Open
  <2> QED BY <1>7, <2>1 DEF ShutdownDeadline
<1>8. CASE ShutdownReturns BY <1>8 DEF ShutdownReturns
<1>9. CASE Terminated BY <1>9 DEF Terminated
<1> QED
  BY <1>1, <1>2, <1>3, <1>4, <1>5, <1>6, <1>7, <1>8, <1>9

LEMMA TypeFeed ==
    ASSUME TypeOK, QueueBounds, FeedPhase, EnqueueCheck \/ Enqueue
    PROVE  TypeOK'
<1>1. CASE EnqueueCheck
  BY <1>1 DEF EnqueueCheck, TypeOK, serverVars, managerVars, writerVars
<1>2. CASE Enqueue
  <2>1. count < MaxPackets /\ count + 1 \in 1..MaxPackets
    BY <1>2, BackendAssumption DEF Enqueue, FeedPhase, TypeOK
  <2>2. \A w \in Writers :
          Overwrite(stream[w], count + 1) \in Seq(1..MaxPackets)
    BY <2>1, OverwriteProperties DEF TypeOK, QueueBounds
  <2>3. stream' \in [Writers -> Seq(1..MaxPackets)]
    BY <1>2, <2>2 DEF Enqueue, TypeOK
  <2>4. count' \in 0..MaxPackets
    BY <1>2, <2>1 DEF Enqueue
  <2> QED
    BY <1>2, <2>3, <2>4 DEF Enqueue, TypeOK, serverVars, writerVars
<1> QED
  BY <1>1, <1>2

LEMMA TypeWriter ==
    ASSUME TypeOK, OneContinuation, NEW w \in Writers,
           \/ Connect(w) \/ Constructor(w) \/ PumpSteps(w)
           \/ AlarmFires(w) \/ WriteSucceeds(w) \/ WriteFails(w)
           \/ Cancel(w) \/ FinishSteps(w)
    PROVE  TypeOK'
<1> USE DEF TypeOK, serverVars, managerVars, feedVars, writerVars, Finish
<1> DEFINE P == 1..MaxPackets
<1>g. ASSUME NEW label \in WriterStates, Goto(w, label)
      PROVE  pc' \in [Writers -> WriterStates]
  BY <1>g DEF Goto
<1>p. ASSUME NEW c \in {"alarm", "write"}, Park(w, c)
      PROVE  /\ pc' \in [Writers -> WriterStates]
             /\ pending' \in [Writers -> SUBSET {"alarm", "write"}]
  BY <1>p, <1>g DEF Park, WriterStates
<1>r. ASSUME NEW c \in {"alarm", "write"}, NEW label \in WriterStates,
             Resume(w, c, label)
      PROVE  /\ pc' \in [Writers -> WriterStates]
             /\ pending' \in [Writers -> SUBSET {"alarm", "write"}]
  BY <1>r, <1>g DEF Resume
<1>1. CASE Connect(w)
  BY <1>1, <1>g DEF Connect, WriterStates, Statuses
<1>2. CASE CheckLimit(w)
  BY <1>2, <1>g DEF CheckLimit, WriterStates, Statuses
<1>3. CASE SubscribeCheck(w)
  <2>1. pc' \in [Writers -> WriterStates]
    BY <1>3, <1>g DEF SubscribeCheck, WriterStates
  <2>2. subscribed' \in [Writers -> BOOLEAN]
    BY <1>3 DEF SubscribeCheck
  <2>3. joined' \in [Writers -> 0..MaxPackets]
    BY <1>3 DEF SubscribeCheck
  <2> QED
    BY <1>3, <2>1, <2>2, <2>3 DEF SubscribeCheck
<1>4. CASE Insert(w)
  BY <1>4, <1>g, EmptySeq DEF Insert, WriterStates
<1>5. CASE Pump(w)
  <2>1. /\ pc' \in [Writers -> WriterStates]
        /\ pending' \in [Writers -> SUBSET {"alarm", "write"}]
    BY <1>5, <1>g, <1>p DEF Pump, WriterStates
  <2>2. status' \in [Writers -> Statuses]
    BY <1>5 DEF Pump, Statuses
  <2> QED
    BY <1>5, <2>1, <2>2 DEF Pump
<1>6. CASE Fetch(w)
  BY <1>6, <1>g, <1>p DEF Fetch, WriterStates
<1>7. CASE Dequeue(w)
  <2>1. Batch(stream[w]) \in Seq(P) /\ Rest(stream[w]) \in Seq(P)
    BY BatchProperties
  <2>2. CASE w \in subscribers /\ stream[w] # <<>>
    <3>1. /\ pc' \in [Writers -> WriterStates]
          /\ pending' \in [Writers -> SUBSET {"alarm", "write"}]
      BY <1>7, <1>p, <2>2 DEF Dequeue
    <3>2. /\ outbox' = [outbox EXCEPT ![w] = Batch(stream[w])]
          /\ stream' = [stream EXCEPT ![w] = Rest(stream[w])]
      BY <1>7, <2>2 DEF Dequeue
    <3>4. outbox \in [Writers -> Seq(P)] /\ stream \in [Writers -> Seq(P)]
      OBVIOUS
    <3>5. outbox' \in [Writers -> Seq(P)] /\ stream' \in [Writers -> Seq(P)]
      BY <2>1, <3>2, <3>4, Zenon
    <3>3. UNCHANGED <<server, bound, keepRunning, managerRunning, subscribers,
                      feed, count, cancelled, subscribed, status, joined,
                      sent>>
      BY <1>7 DEF Dequeue
    <3> QED
      BY <3>1, <3>3, <3>5
  <2>3. CASE ~(w \in subscribers /\ stream[w] # <<>>)
    BY <1>7, <1>p, <2>3 DEF Dequeue
  <2> QED
    BY <2>2, <2>3
<1>8. CASE AlarmFires(w)
  BY <1>8, <1>r DEF AlarmFires, WriterStates
<1>9. CASE WriteSucceeds(w)
  <2>1. outbox[w] \in Seq(P) /\ outbox[w] # <<>>
    BY <1>9 DEF WriteSucceeds, OneContinuation
  <2>2. Tail(outbox[w]) \in Seq(P) /\ Head(outbox[w]) \in P
    BY <2>1, HeadTailProperties
  <2>3. Append(sent[w], Head(outbox[w])) \in Seq(P)
    BY <2>2
  <2> QED
    BY <1>9, <1>r, <2>2, <2>3 DEF WriteSucceeds, WriterStates
<1>10. CASE WriteFails(w)
  BY <1>10, <1>r DEF WriteFails, WriterStates, Statuses
<1>11. CASE Cancel(w)
  BY <1>11 DEF Cancel
<1>12. CASE FinishUp(w)
  BY <1>12, <1>g DEF FinishUp, WriterStates
<1>13. CASE Erase(w)
  BY <1>13, <1>g, EmptySeq DEF Erase, RemoveSubscriber, WriterStates
<1>14. CASE OnDone(w)
  <2>1. /\ subscribers' \in SUBSET Writers
        /\ stream' \in [Writers -> Seq(P)]
    <3>1. CASE subscribed[w] /\ managerRunning
      <4>1. RemoveSubscriber(w)
        BY <1>14, <3>1 DEF OnDone
      <4> QED
        BY <4>1, EmptySeq DEF RemoveSubscriber
    <3>2. CASE ~(subscribed[w] /\ managerRunning)
      BY <1>14, <3>2 DEF OnDone
    <3> QED
      BY <3>1, <3>2
  <2>2. /\ pc' \in [Writers -> WriterStates]
        /\ status' \in [Writers -> Statuses]
        /\ cancelled' \in [Writers -> BOOLEAN]
        /\ subscribed' \in [Writers -> BOOLEAN]
    BY <1>14, <1>g DEF OnDone, WriterStates, Statuses
  <2>3. /\ outbox' \in [Writers -> Seq(P)]
        /\ sent' \in [Writers -> Seq(P)]
        /\ joined' \in [Writers -> 0..MaxPackets]
    BY <1>14, EmptySeq, BackendAssumption DEF OnDone
  <2> QED
    BY <1>14, <2>1, <2>2, <2>3 DEF OnDone
<1> QED
  BY <1>1, <1>2, <1>3, <1>4, <1>5, <1>6, <1>7, <1>8, <1>9, <1>10, <1>11,
     <1>12, <1>13, <1>14 DEF Constructor, PumpSteps, FinishSteps

LEMMA TypeStep == IInv /\ [Next]_vars => TypeOK'
<1> SUFFICES ASSUME IInv, [Next]_vars PROVE TypeOK'
  OBVIOUS
<1>1. CASE UNCHANGED vars
  BY <1>1 DEF IInv, TypeOK, vars, serverVars, managerVars, feedVars,
              writerVars
<1>2. CASE Next
  BY <1>2, TypeMain, TypeFeed, TypeWriter DEF IInv, Next
<1> QED
  BY <1>1, <1>2

-----------------------------------------------------------------------------
(* Queues.                                                                 *)

LEMMA BoundsStep == IInv /\ [Next]_vars => QueueBounds'
<1> SUFFICES ASSUME IInv, [Next]_vars, NEW w \in Writers
             PROVE  /\ Len(stream'[w]) <= QueueCapacity
                    /\ Len(outbox'[w]) <= BatchSize
  BY DEF QueueBounds
<1> DEFINE P == 1..MaxPackets
<1>1. /\ stream \in [Writers -> Seq(P)] /\ outbox \in [Writers -> Seq(P)]
      /\ \A v \in Writers : /\ Len(stream[v]) <= QueueCapacity
                            /\ Len(outbox[v]) <= BatchSize
                            /\ Len(stream[v]) \in Nat
                            /\ Len(outbox[v]) \in Nat
      /\ QueueCapacity \in Nat \ {0} /\ BatchSize \in Nat \ {0}
      /\ Len(<<>>) = 0
  BY BackendAssumption, EmptySeq DEF IInv, TypeOK, QueueBounds
<1>2. CASE UNCHANGED <<stream, outbox>>
  BY <1>1, <1>2
<1>3. CASE UnsubscribeAll \/ Destroy
  BY <1>1, <1>3 DEF UnsubscribeAll, Destroy, ClearSubscribers, writerVars
<1>4. CASE Enqueue
  <2>1. count + 1 \in P
    BY <1>4, BackendAssumption DEF Enqueue, IInv, FeedPhase, TypeOK
  <2>2. Len(Overwrite(stream[w], count + 1)) <= QueueCapacity
    BY <1>1, <2>1, OverwriteProperties
  <2> QED
    BY <1>1, <1>4, <2>2 DEF Enqueue, writerVars
<1>5. ASSUME NEW v \in Writers, Insert(v) \/ Erase(v) \/ OnDone(v)
      PROVE  /\ Len(stream'[w]) <= QueueCapacity
             /\ Len(outbox'[w]) <= BatchSize
  BY <1>1, <1>5 DEF Insert, Erase, OnDone, RemoveSubscriber
<1>6. ASSUME NEW v \in Writers, Dequeue(v)
      PROVE  /\ Len(stream'[w]) <= QueueCapacity
             /\ Len(outbox'[w]) <= BatchSize
  <2>1. /\ Len(Batch(stream[v])) <= BatchSize
        /\ Len(Rest(stream[v])) <= Len(stream[v])
        /\ Len(Rest(stream[v])) \in Nat
    BY <1>1, BatchProperties
  <2>2. CASE v \in subscribers /\ stream[v] # <<>>
    <3>1. /\ outbox' = [outbox EXCEPT ![v] = Batch(stream[v])]
          /\ stream' = [stream EXCEPT ![v] = Rest(stream[v])]
      BY <1>6, <2>2 DEF Dequeue
    <3> QED
      BY <1>1, <2>1, <3>1
  <2>3. CASE ~(v \in subscribers /\ stream[v] # <<>>)
    BY <1>2, <1>6, <2>3 DEF Dequeue
  <2> QED
    BY <2>2, <2>3
<1>7. ASSUME NEW v \in Writers, WriteSucceeds(v)
      PROVE  /\ Len(stream'[w]) <= QueueCapacity
             /\ Len(outbox'[w]) <= BatchSize
  <2>1. outbox[v] # <<>>
    BY <1>7 DEF IInv, OneContinuation, WriteSucceeds
  <2>2. Len(Tail(outbox[v])) = Len(outbox[v]) - 1
    BY <1>1, <2>1, HeadTailProperties
  <2> QED
    BY <1>1, <1>7, <2>2 DEF WriteSucceeds, managerVars
<1> QED
  <2> USE DEF serverVars, managerVars, feedVars, writerVars, vars
  <2>1. CASE Start \/ Stop \/ StopManager \/ BeginShutdown
             \/ ShutdownDeadline \/ ShutdownReturns \/ EnqueueCheck
             \/ Terminated \/ UNCHANGED vars
    <3>1. UNCHANGED <<stream, outbox>>
      BY <2>1 DEF Start, Stop, StopManager, BeginShutdown,
         ShutdownDeadline, ShutdownReturns, EnqueueCheck, Terminated
    <3> QED
      BY <1>2, <3>1
  <2>2. ASSUME NEW v \in Writers,
               \/ Connect(v) \/ CheckLimit(v) \/ SubscribeCheck(v)
               \/ Pump(v) \/ Fetch(v) \/ AlarmFires(v) \/ WriteFails(v)
               \/ Cancel(v) \/ FinishUp(v)
        PROVE  UNCHANGED <<stream, outbox>>
    BY <2>2 DEF Connect, CheckLimit, SubscribeCheck, Pump, Fetch, AlarmFires,
       WriteFails, Cancel, FinishUp
  <2> QED
    BY <1>2, <1>3, <1>4, <1>5, <1>6, <1>7, <2>1, <2>2
    DEF Next, Constructor, PumpSteps, FinishSteps

-----------------------------------------------------------------------------
(* Continuations.                                                          *)

\* What OneContinuation says of one writer.
ParkedRight(w) ==
    /\ IF pc[w] = "parked" THEN pending[w] \in {{"alarm"}, {"write"}}
                           ELSE pending[w] = {}
    /\ "write" \in pending[w] => outbox[w] # <<>>

\* A thread that runs a writer finds nothing pending: whatever it asks for is
\* the only continuation, and what resumes it was the only one.
LEMMA ContinuationWriter ==
    ASSUME TypeOK, OneContinuation, NEW w \in Writers,
           \/ Connect(w) \/ Constructor(w) \/ PumpSteps(w)
           \/ AlarmFires(w) \/ WriteSucceeds(w) \/ WriteFails(w)
           \/ Cancel(w) \/ FinishSteps(w)
    PROVE  ParkedRight(w)'
<1>1. /\ pc \in [Writers -> WriterStates]
      /\ pending \in [Writers -> SUBSET {"alarm", "write"}]
      /\ outbox \in [Writers -> Seq(1..MaxPackets)]
      /\ ParkedRight(w)
  BY DEF TypeOK, OneContinuation, ParkedRight
<1> USE DEF ParkedRight, Goto, writerVars
<1>p. ASSUME NEW c \in {"alarm", "write"}, Park(w, c), pc[w] # "parked",
             c = "write" => outbox'[w] # <<>>
      PROVE  ParkedRight(w)'
  BY <1>1, <1>p DEF Park
<1>r. ASSUME NEW c \in {"alarm", "write"}, NEW label \in {"pump", "finishUp"},
             c \in pending[w], Resume(w, c, label)
      PROVE  ParkedRight(w)'
  BY <1>1, <1>r DEF Resume
<1>2. CASE Connect(w)
  BY <1>1, <1>2 DEF Connect, Finish
<1>3. CASE CheckLimit(w)
  BY <1>1, <1>3 DEF CheckLimit, Finish
<1>4. CASE SubscribeCheck(w)
  BY <1>1, <1>4 DEF SubscribeCheck
<1>5. CASE Insert(w)
  BY <1>1, <1>5 DEF Insert
<1>6. CASE Pump(w)
  <2>1. CASE ~keepRunning \/ cancelled[w]
    BY <1>1, <1>6, <2>1 DEF Pump
  <2>2. CASE ~(~keepRunning \/ cancelled[w]) /\ outbox[w] # <<>>
    BY <1>p, <1>6, <2>2 DEF Pump
  <2>3. CASE ~(~keepRunning \/ cancelled[w]) /\ outbox[w] = <<>>
    BY <1>1, <1>6, <2>3 DEF Pump
  <2> QED
    BY <2>1, <2>2, <2>3
<1>7. CASE Fetch(w)
  BY <1>1, <1>p, <1>7 DEF Fetch
<1>8. CASE Dequeue(w)
  <2>1. CASE w \in subscribers /\ stream[w] # <<>>
    <3>1. Batch(stream[w]) # <<>>
      BY <2>1, BatchProperties DEF TypeOK
    <3>2. outbox'[w] # <<>>
      BY <1>1, <1>8, <2>1, <3>1 DEF Dequeue
    <3> QED
      BY <1>p, <1>8, <2>1, <3>2 DEF Dequeue
  <2>2. CASE ~(w \in subscribers /\ stream[w] # <<>>)
    BY <1>p, <1>8, <2>2 DEF Dequeue
  <2> QED
    BY <2>1, <2>2
<1>9. CASE AlarmFires(w)
  BY <1>r, <1>9 DEF AlarmFires
<1>10. CASE WriteSucceeds(w)
  BY <1>r, <1>10 DEF WriteSucceeds
<1>11. CASE WriteFails(w)
  BY <1>r, <1>11 DEF WriteFails
<1>12. CASE Cancel(w)
  BY <1>1, <1>12 DEF Cancel
<1>13. CASE FinishUp(w)
  BY <1>1, <1>13 DEF FinishUp
<1>14. CASE Erase(w)
  BY <1>1, <1>14 DEF Erase
<1>15. CASE OnDone(w)
  BY <1>1, <1>15 DEF OnDone
<1> QED
  BY <1>2, <1>3, <1>4, <1>5, <1>6, <1>7, <1>8, <1>9, <1>10, <1>11, <1>12,
     <1>13, <1>14, <1>15 DEF Constructor, PumpSteps, FinishSteps

\* A step of one writer leaves the others' threads, continuations, queues and
\* flags alone.
LEMMA WriterFrame ==
    ASSUME TypeOK, NEW w \in Writers, NEW v \in Writers, v # w,
           \/ Connect(w) \/ Constructor(w) \/ PumpSteps(w)
           \/ AlarmFires(w) \/ WriteSucceeds(w) \/ WriteFails(w)
           \/ Cancel(w) \/ FinishSteps(w)
    PROVE  /\ pc'[v] = pc[v]
           /\ pending'[v] = pending[v]
           /\ outbox'[v] = outbox[v]
           /\ subscribed'[v] = subscribed[v]
           /\ v \in subscribers' <=> v \in subscribers
           /\ UNCHANGED <<server, managerRunning>>
<1> USE DEF TypeOK, Goto, Finish, Park, Resume, RemoveSubscriber, serverVars,
            managerVars, writerVars
<1>1. CASE Connect(w) BY <1>1 DEF Connect
<1>2. CASE CheckLimit(w) BY <1>2 DEF CheckLimit
<1>3. CASE SubscribeCheck(w) BY <1>3 DEF SubscribeCheck
<1>4. CASE Insert(w) BY <1>4 DEF Insert
<1>5. CASE Pump(w) BY <1>5 DEF Pump
<1>6. CASE Fetch(w) BY <1>6 DEF Fetch
<1>7. CASE Dequeue(w) BY <1>7 DEF Dequeue
<1>8. CASE AlarmFires(w) BY <1>8 DEF AlarmFires
<1>9. CASE WriteSucceeds(w) BY <1>9 DEF WriteSucceeds
<1>10. CASE WriteFails(w) BY <1>10 DEF WriteFails
<1>11. CASE Cancel(w) BY <1>11 DEF Cancel
<1>12. CASE FinishUp(w) BY <1>12 DEF FinishUp
<1>13. CASE Erase(w) BY <1>13 DEF Erase
<1>14. CASE OnDone(w) BY <1>14 DEF OnDone
<1> QED
  BY <1>1, <1>2, <1>3, <1>4, <1>5, <1>6, <1>7, <1>8, <1>9, <1>10, <1>11,
     <1>12, <1>13, <1>14 DEF Constructor, PumpSteps, FinishSteps

\* The main thread and the propagator leave the writers alone, but for their
\* streams and, at the deadline of Shutdown, IsCancelled.
LEMMA OtherFrame ==
    ASSUME \/ Start \/ Stop \/ StopManager \/ UnsubscribeAll \/ Destroy
           \/ BeginShutdown \/ ShutdownDeadline \/ ShutdownReturns
           \/ EnqueueCheck \/ Enqueue \/ Terminated \/ UNCHANGED vars
    PROVE  UNCHANGED <<pc, pending, outbox, subscribed>>
BY DEF Start, Stop, StopManager, UnsubscribeAll, Destroy, BeginShutdown,
   ShutdownDeadline, ShutdownReturns, EnqueueCheck, Enqueue, Terminated,
   vars, writerVars

LEMMA ContinuationStep == IInv /\ [Next]_vars => OneContinuation'
<1> SUFFICES ASSUME IInv, [Next]_vars, NEW v \in Writers
             PROVE  ParkedRight(v)'
  BY DEF OneContinuation, ParkedRight
<1>1. TypeOK /\ OneContinuation /\ ParkedRight(v)
  BY DEF IInv, OneContinuation, ParkedRight
<1>2. ASSUME NEW w \in Writers,
             \/ Connect(w) \/ Constructor(w) \/ PumpSteps(w)
             \/ AlarmFires(w) \/ WriteSucceeds(w) \/ WriteFails(w)
             \/ Cancel(w) \/ FinishSteps(w)
      PROVE  ParkedRight(v)'
  <2>1. CASE v = w
    BY <1>1, <1>2, <2>1, ContinuationWriter
  <2>2. CASE v # w
    BY <1>1, <1>2, <2>2, WriterFrame DEF ParkedRight
  <2> QED
    BY <2>1, <2>2
<1>3. ASSUME UNCHANGED <<pc, pending, outbox, subscribed>>
      PROVE  ParkedRight(v)'
  BY <1>1, <1>3 DEF ParkedRight
<1> QED
  BY <1>2, <1>3, OtherFrame DEF Next

-----------------------------------------------------------------------------
(* The manager's map.                                                      *)

LEMMA PhaseStep == IInv /\ [Next]_vars => ManagerPhase' /\ FeedPhase'
<1> SUFFICES ASSUME IInv, [Next]_vars PROVE ManagerPhase' /\ FeedPhase'
  OBVIOUS
<1> USE DEF IInv, ManagerPhase, FeedPhase
<1>1. CASE UNCHANGED <<serverVars, feedVars>>
  BY <1>1 DEF serverVars, feedVars
<1>2. CASE \/ Start \/ Stop \/ StopManager \/ UnsubscribeAll \/ Destroy
           \/ BeginShutdown \/ ShutdownDeadline \/ ShutdownReturns
  BY <1>2 DEF Start, Stop, StopManager, UnsubscribeAll, Destroy,
     BeginShutdown, ShutdownDeadline, ShutdownReturns, feedVars
<1>3. CASE EnqueueCheck \/ Enqueue
  BY <1>3 DEF EnqueueCheck, Enqueue, serverVars
<1>4. ASSUME NEW w \in Writers,
             \/ Connect(w) \/ Constructor(w) \/ PumpSteps(w)
             \/ AlarmFires(w) \/ WriteSucceeds(w) \/ WriteFails(w)
             \/ Cancel(w) \/ FinishSteps(w)
      PROVE  UNCHANGED <<serverVars, feedVars>>
  BY <1>4 DEF Connect, Constructor, CheckLimit, SubscribeCheck, Insert,
     PumpSteps, Pump, Fetch, Dequeue, AlarmFires, WriteSucceeds, WriteFails,
     Cancel, FinishSteps, FinishUp, Erase, OnDone
<1> QED
  BY <1>1, <1>2, <1>3, <1>4 DEF Next, Terminated, vars

\* What FlagFollowsPump and MapMatchesWriters say of one writer.
Registered(w) ==
    /\ subscribed[w] <=> pc[w] \in Pumping
    /\ managerRunning => (w \in subscribers <=> (subscribed[w] \/ pc[w] = "erase"))

\* A writer enters and leaves the map together with its own flag, except for
\* the two steps that finishUp takes.
LEMMA RegisteredWriter ==
    ASSUME IInv, NEW w \in Writers,
           \/ Connect(w) \/ Constructor(w) \/ PumpSteps(w)
           \/ AlarmFires(w) \/ WriteSucceeds(w) \/ WriteFails(w)
           \/ Cancel(w) \/ FinishSteps(w)
    PROVE  Registered(w)'
<1>1. /\ pc \in [Writers -> WriterStates]
      /\ subscribed \in [Writers -> BOOLEAN]
      /\ pending[w] # {} => pc[w] = "parked"
      /\ Registered(w)
  BY DEF IInv, TypeOK, OneContinuation, FlagFollowsPump, MapMatchesWriters,
     Registered
<1> USE DEF Registered, Pumping, Goto, Finish, Park, Resume, serverVars,
            managerVars, writerVars
<1>2. CASE Connect(w) BY <1>1, <1>2 DEF Connect
<1>3. CASE CheckLimit(w) BY <1>1, <1>3 DEF CheckLimit
<1>4. CASE SubscribeCheck(w) BY <1>1, <1>4 DEF SubscribeCheck
<1>5. CASE Insert(w) BY <1>1, <1>5 DEF Insert
<1>6. CASE Pump(w) BY <1>1, <1>6 DEF Pump
<1>7. CASE Fetch(w) BY <1>1, <1>7 DEF Fetch
<1>8. CASE Dequeue(w) BY <1>1, <1>8 DEF Dequeue
<1>9. CASE AlarmFires(w) BY <1>1, <1>9 DEF AlarmFires
<1>10. CASE WriteSucceeds(w) BY <1>1, <1>10 DEF WriteSucceeds
<1>11. CASE WriteFails(w) BY <1>1, <1>11 DEF WriteFails
<1>12. CASE Cancel(w) BY <1>1, <1>12 DEF Cancel
<1>13. CASE FinishUp(w) BY <1>1, <1>13 DEF FinishUp
<1>14. CASE Erase(w) BY <1>1, <1>14 DEF Erase, RemoveSubscriber
<1>15. CASE OnDone(w) BY <1>1, <1>15 DEF OnDone
<1> QED
  BY <1>2, <1>3, <1>4, <1>5, <1>6, <1>7, <1>8, <1>9, <1>10, <1>11, <1>12,
     <1>13, <1>14, <1>15 DEF Constructor, PumpSteps, FinishSteps

LEMMA RegisteredStep ==
    IInv /\ [Next]_vars => FlagFollowsPump' /\ MapMatchesWriters'
<1> SUFFICES ASSUME IInv, [Next]_vars, NEW v \in Writers
             PROVE  Registered(v)'
  BY DEF FlagFollowsPump, MapMatchesWriters, Registered
<1>1. TypeOK /\ Registered(v)
  BY DEF IInv, FlagFollowsPump, MapMatchesWriters, Registered
<1>2. ASSUME NEW w \in Writers,
             \/ Connect(w) \/ Constructor(w) \/ PumpSteps(w)
             \/ AlarmFires(w) \/ WriteSucceeds(w) \/ WriteFails(w)
             \/ Cancel(w) \/ FinishSteps(w)
      PROVE  Registered(v)'
  <2>1. CASE v = w
    BY <1>2, <2>1, RegisteredWriter
  <2>2. CASE v # w
    BY <1>1, <1>2, <2>2, WriterFrame DEF Registered
  <2> QED
    BY <2>1, <2>2
<1>3. ASSUME UNCHANGED <<pc, subscribed>>,
             managerRunning' => managerRunning /\ UNCHANGED subscribers
      PROVE  Registered(v)'
  BY <1>1, <1>3 DEF Registered
<1>4. ASSUME \/ Start \/ Stop \/ StopManager \/ UnsubscribeAll \/ Destroy
             \/ BeginShutdown \/ ShutdownDeadline \/ ShutdownReturns
             \/ EnqueueCheck \/ Enqueue \/ Terminated \/ UNCHANGED vars
      PROVE  managerRunning' => managerRunning /\ UNCHANGED subscribers
  BY <1>4 DEF IInv, ManagerPhase, Start, Stop, StopManager, UnsubscribeAll,
     Destroy, BeginShutdown, ShutdownDeadline, ShutdownReturns, EnqueueCheck,
     Enqueue, Terminated, vars, serverVars, managerVars
<1> QED
  BY <1>2, <1>3, <1>4, OtherFrame DEF Next

-----------------------------------------------------------------------------
(* The theorems.                                                           *)

LEMMA InitIInv == Init => IInv
<1> SUFFICES ASSUME Init PROVE IInv
  OBVIOUS
<1>1. TypeOK
  BY TypeInit
<1>2. QueueBounds
  BY BackendAssumption, EmptySeq DEF Init, QueueBounds
<1>3. OneContinuation
  BY DEF Init, OneContinuation
<1>4. MapMatchesWriters /\ FlagFollowsPump /\ ManagerPhase /\ FeedPhase
  BY DEF Init, MapMatchesWriters, FlagFollowsPump, ManagerPhase, FeedPhase,
     Pumping
<1> QED
  BY <1>1, <1>2, <1>3, <1>4 DEF IInv

LEMMA NextIInv == IInv /\ [Next]_vars => IInv'
BY TypeStep, BoundsStep, ContinuationStep, PhaseStep, RegisteredStep DEF IInv

\* The conjunction below is an invariant of the backend: no step of the main
\* thread, the propagator, a writer or gRPC leaves it.
THEOREM Invariance == Spec => []IInv
BY InitIInv, NextIInv, PTL DEF Spec

\* Type correctness.
THEOREM TypeCorrectness == Spec => []TypeOK
<1>1. IInv => TypeOK
  BY DEF IInv
<1> QED
  BY <1>1, Invariance, PTL

\* enqueuePacket and getNextPackets keep every stream within QueueCapacity and
\* every private queue within BatchSize.
THEOREM QueuesAreBounded == Spec => []QueueBounds
<1>1. IInv => QueueBounds
  BY DEF IInv
<1> QED
  BY <1>1, Invariance, PTL

\* The claim of the comment above pump(): at any instant exactly one
\* continuation is outstanding or one thread runs the writer, and nothing is
\* pending when OnDone deletes the reactor.
THEOREM PumpIsSingleThreaded == Spec => []OneContinuation
<1>1. IInv => OneContinuation
  BY DEF IInv
<1> QED
  BY <1>1, Invariance, PTL

\* The map of a running manager holds the streams of the live subscribers and
\* no others, however RPCs begin and end.
THEOREM NoStreamLeaks == Spec => []MapMatchesWriters
<1>1. IInv => MapMatchesWriters
  BY DEF IInv
<1> QED
  BY <1>1, Invariance, PTL

=============================================================================
