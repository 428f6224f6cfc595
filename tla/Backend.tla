------------------------------ MODULE Backend ------------------------------
(***************************************************************************)
(* The outbound half of the proxy (src/backend.cpp): the subscription      *)
(* manager with one bounded packet stream per subscriber, the write pump   *)
(* of each Subscribe RPC, and the start, stop and destruction of the       *)
(* server that hosts them.                                                 *)
(*                                                                         *)
(* Threads: the propagator calls enqueuePacket; gRPC threads run the       *)
(* constructors and callbacks of the writers; the main thread starts,      *)
(* stops and destroys.  A step is what one thread does between two points  *)
(* where another can see or change what it uses: the atomic flags are read *)
(* before the manager's mutex is taken, so the read of a flag and the      *)
(* critical section behind it are two steps.                               *)
(*                                                                         *)
(* Packets are numbered in the order in which they are enqueued.  An RPC   *)
(* is named by the address of its context and an address is used once.     *)
(***************************************************************************)
EXTENDS Integers, Sequences, FiniteSets, Functions

CONSTANTS
    Writers,          \* Subscribe RPCs that may reach the server
    Stalled,          \* those whose client may stop reading for good
    MaxSubscribers,   \* BackendOptions::getMaximumNumberOfSubscribers
    QueueCapacity,    \* BackendOptions::getQueueCapacity, one per stream
    BatchSize,        \* AsynchronousWriter::mMaximumWriteQueueSize
    MaxPackets        \* bound of the model: packets the propagator offers

\* The setters of BackendOptions refuse values below one.
ASSUME BackendAssumption ==
    /\ Stalled \subseteq Writers
    /\ MaxSubscribers \in Nat \ {0}
    /\ QueueCapacity \in Nat \ {0}
    /\ BatchSize \in Nat \ {0}
    /\ MaxPackets \in Nat

VARIABLES
    server,           \* how far the main thread has come, see ServerStates
    bound,            \* BackendImpl::mServer is not null
    keepRunning,      \* BackendImpl::mKeepRunning
    managerRunning,   \* SubscriptionManager::mKeepRunning
    subscribers,      \* the keys of SubscriptionManager::mSubscribers
    stream,           \* the PacketStream of every key
    feed,             \* the propagator's thread in enqueuePacket
    count,            \* packets enqueued so far
    pc,               \* the thread that runs each writer, see WriterStates
    pending,          \* continuations the writer has asked gRPC for
    cancelled,        \* ServerContext::IsCancelled
    subscribed,       \* AsynchronousWriter::mSubscribed
    outbox,           \* AsynchronousWriter::mPacketsQueue
    status,           \* what the RPC is finished with
    joined,           \* history: count when subscribe() let the writer go on
    sent              \* history: packets gRPC took, in that order

serverVars  == <<server, bound, keepRunning, managerRunning>>
managerVars == <<subscribers, stream, joined>>
feedVars    == <<feed, count>>
writerVars  == <<pc, pending, cancelled, subscribed, outbox, status, sent>>
vars        == <<serverVars, managerVars, feedVars, writerVars>>

ServerStates ==
    {"created",       \* constructed, nothing listens
     "running",       \* start() returned
     "stopping",      \* stop() cleared BackendImpl::mKeepRunning
     "purging",       \* unsubscribeAll cleared the manager's mKeepRunning
     "stopped",       \* stop() returned, the server still listens
     "destroying",    \* ~BackendImpl ran stop() again and sleeps
     "draining",      \* Shutdown(deadline): no new RPC is accepted
     "cancelling",    \* the deadline has passed, every RPC is cancelled
     "down"}          \* Shutdown returned

WriterStates ==
    {"idle",          \* the RPC has not arrived
     "checkLimit",    \* constructor: authenticated, next the limit
     "subscribe",     \* constructor: next the manager's flag
     "insert",        \* constructor: next the manager's critical section
     "pump",          \* at the top of pump()
     "fetch",         \* in getNextPackets: next the manager's flag
     "dequeue",       \* in getNextPackets: next the critical section
     "parked",        \* no thread: a continuation is outstanding
     "finishUp",      \* in finishUp: next mSubscribed and the flag
     "erase",         \* in unsubscribe: next the critical section
     "finished",      \* Finish was called, OnDone is to come
     "done"}          \* OnDone deleted the reactor

Statuses == {"none", "OK", "CANCELLED", "UNKNOWN", "UNAUTHENTICATED",
             "RESOURCE_EXHAUSTED"}

Listening == bound /\ server \in {"running", "stopping", "purging", "stopped",
                                  "destroying"}

Open(w) == pc[w] \notin {"idle", "finished", "done"}

MinOf(a, b) == IF a < b THEN a ELSE b
MaxOf(a, b) == IF a > b THEN a ELSE b

-----------------------------------------------------------------------------
(* The packet stream of a subscriber.                                      *)

\* Faults, here and below, are definitions with a bug in them: nothing uses
\* them, they show which property notices the bug.

\* Fault: the loop runs while the size exceeds the capacity.
MakeRoomTooLate(q) == SubSeq(q, MaxOf(1, Len(q) - QueueCapacity + 1), Len(q))

\* Fault: a full queue is cleared instead of relieved of its oldest packet.
MakeRoomByClearing(q) == IF Len(q) >= QueueCapacity THEN <<>> ELSE q

\* The eviction loop of enqueuePacket: pop while the queue is full.
MakeRoom(q) == SubSeq(q, MaxOf(1, Len(q) - QueueCapacity + 2), Len(q))

\* PacketStream::enqueuePacket: the oldest packets make way for a new one.
Overwrite(q, p) == Append(MakeRoom(q), p)

\* Fault: the batch is made with its full size instead of reserved, 0 standing
\* for an empty packet.
BatchPreallocated(q) ==
    [i \in 1..BatchSize |-> IF i <= Len(q) THEN q[i] ELSE 0]

\* getNextPackets: what one call takes, and what it leaves.
Batch(q) == SubSeq(q, 1, MinOf(BatchSize, Len(q)))

\* Fault: the last packet taken is left behind as well.
RestWithLast(q) == SubSeq(q, MaxOf(1, MinOf(BatchSize, Len(q))), Len(q))

Rest(q)  == SubSeq(q, MinOf(BatchSize, Len(q)) + 1, Len(q))

-----------------------------------------------------------------------------
Init ==
    /\ server = "created"
    /\ bound = FALSE
    /\ keepRunning = TRUE
    /\ managerRunning = TRUE
    /\ subscribers = {}
    /\ stream = [w \in Writers |-> <<>>]
    /\ feed = "idle"
    /\ count = 0
    /\ pc = [w \in Writers |-> "idle"]
    /\ pending = [w \in Writers |-> {}]
    /\ cancelled = [w \in Writers |-> FALSE]
    /\ subscribed = [w \in Writers |-> FALSE]
    /\ outbox = [w \in Writers |-> <<>>]
    /\ status = [w \in Writers |-> "none"]
    /\ joined = [w \in Writers |-> 0]
    /\ sent = [w \in Writers |-> <<>>]

-----------------------------------------------------------------------------
(* The main thread.                                                        *)

\* BuildAndStart returns null when it cannot bind the port, and start() does
\* not look.
Start ==
    /\ server = "created"
    /\ server' = "running"
    /\ bound' \in BOOLEAN
    /\ keepRunning' = TRUE
    /\ managerRunning' = TRUE
    /\ UNCHANGED <<managerVars, feedVars, writerVars>>

\* BackendImpl::stop, its first assignment.  Its caller stops what isRunning()
\* calls running, also a backend whose start() threw.
Stop ==
    /\ server \in {"created", "running"}
    /\ server' = "stopping"
    /\ keepRunning' = FALSE
    /\ UNCHANGED <<bound, managerRunning, managerVars, feedVars, writerVars>>

\* unsubscribeAll, outside its critical section.
StopManager ==
    /\ server = "stopping"
    /\ server' = "purging"
    /\ managerRunning' = FALSE
    /\ UNCHANGED <<bound, keepRunning, managerVars, feedVars, writerVars>>

\* unsubscribeAll, its critical section.
ClearSubscribers ==
    /\ subscribers' = {}
    /\ stream' = [w \in Writers |-> <<>>]
    /\ UNCHANGED joined

UnsubscribeAll ==
    /\ server = "purging"
    /\ server' = "stopped"
    /\ ClearSubscribers
    /\ UNCHANGED <<bound, keepRunning, managerRunning, feedVars, writerVars>>

\* ~BackendImpl calls stop() again; its caller has joined the propagator.
Destroy ==
    /\ server = "stopped"
    /\ feed = "idle"
    /\ server' = "destroying"
    /\ ClearSubscribers
    /\ UNCHANGED <<bound, keepRunning, managerRunning, feedVars, writerVars>>

BeginShutdown ==
    /\ server = "destroying"
    /\ bound
    /\ server' = "draining"
    /\ UNCHANGED <<bound, keepRunning, managerRunning, managerVars, feedVars,
                   writerVars>>

\* Fault: Shutdown() without a deadline, nothing is cancelled.
NoShutdownDeadline ==
    /\ server = "draining"
    /\ server' = "cancelling"
    /\ UNCHANGED <<bound, keepRunning, managerRunning, managerVars, feedVars,
                   writerVars>>

\* gRPC cancels what is still open one second after Shutdown was called.
ShutdownDeadline ==
    /\ server = "draining"
    /\ server' = "cancelling"
    /\ cancelled' = [w \in Writers |-> cancelled[w] \/ Open(w)]
    /\ UNCHANGED <<bound, keepRunning, managerRunning, managerVars, feedVars,
                   pc, pending, subscribed, outbox, status, sent>>

\* Shutdown returns when no RPC is left; it is not called without a server.
ShutdownReturns ==
    /\ server \in IF bound THEN {"draining", "cancelling"} ELSE {"destroying"}
    /\ \A w \in Writers : pc[w] \in {"idle", "done"}
    /\ server' = "down"
    /\ UNCHANGED <<bound, keepRunning, managerRunning, managerVars, feedVars,
                   writerVars>>

-----------------------------------------------------------------------------
(* The propagator's thread: Backend::enqueuePacket.                        *)

EnqueueCheck ==
    /\ feed = "idle"
    /\ count < MaxPackets
    /\ managerRunning
    /\ feed' = "enqueue"
    /\ UNCHANGED <<serverVars, managerVars, count, writerVars>>

Enqueue ==
    /\ feed = "enqueue"
    /\ feed' = "idle"
    /\ count' = count + 1
    /\ stream' = [w \in Writers |->
                    IF w \in subscribers THEN Overwrite(stream[w], count + 1)
                                         ELSE stream[w]]
    /\ UNCHANGED <<serverVars, subscribers, joined, writerVars>>

-----------------------------------------------------------------------------
(* The constructor of AsynchronousWriter, run by the Subscribe handler.    *)

Goto(w, label) == pc' = [pc EXCEPT ![w] = label]

Finish(w, code) ==
    /\ Goto(w, "finished")
    /\ status' = [status EXCEPT ![w] = code]

\* A new RPC; tokenValid is what validateSubscriber answers (an unsecured
\* server, or one without a token, does not ask).
Connect(w) ==
    /\ Listening
    /\ pc[w] = "idle"
    /\ \E tokenValid \in BOOLEAN :
         IF tokenValid
         THEN Goto(w, "checkLimit") /\ UNCHANGED status
         ELSE Finish(w, "UNAUTHENTICATED")
    /\ UNCHANGED <<serverVars, managerVars, feedVars, pending, cancelled,
                   subscribed, outbox, sent>>

CheckLimit(w) ==
    /\ pc[w] = "checkLimit"
    /\ IF Cardinality(subscribers) >= MaxSubscribers
       THEN Finish(w, "RESOURCE_EXHAUSTED")
       ELSE Goto(w, "subscribe") /\ UNCHANGED status
    /\ UNCHANGED <<serverVars, managerVars, feedVars, pending, cancelled,
                   subscribed, outbox, sent>>

\* subscribe() returns silently once the manager has stopped; the writer
\* believes it is subscribed all the same.
SubscribeCheck(w) ==
    /\ pc[w] = "subscribe"
    /\ IF managerRunning
       THEN Goto(w, "insert") /\ UNCHANGED <<subscribed, joined>>
       ELSE /\ Goto(w, "pump")
            /\ subscribed' = [subscribed EXCEPT ![w] = TRUE]
            /\ joined' = [joined EXCEPT ![w] = count]
    /\ UNCHANGED <<serverVars, subscribers, stream, feedVars, pending,
                   cancelled, outbox, status, sent>>

Insert(w) ==
    /\ pc[w] = "insert"
    /\ subscribers' = subscribers \union {w}
    /\ stream' = [stream EXCEPT ![w] = <<>>]
    /\ joined' = [joined EXCEPT ![w] = count]
    /\ subscribed' = [subscribed EXCEPT ![w] = TRUE]
    /\ Goto(w, "pump")
    /\ UNCHANGED <<serverVars, feedVars, pending, cancelled, outbox, status,
                   sent>>

-----------------------------------------------------------------------------
(* The write pump.                                                         *)

\* Leave the thread to gRPC until the continuation c comes back.
Park(w, c) ==
    /\ pending' = [pending EXCEPT ![w] = @ \union {c}]
    /\ Goto(w, "parked")

\* Resume in the callback of continuation c.
Resume(w, c, label) ==
    /\ pending' = [pending EXCEPT ![w] = @ \ {c}]
    /\ Goto(w, label)

\* Fault: the pump looks at the server's flag and not at IsCancelled.
PumpIgnoresCancel(w) ==
    /\ pc[w] = "pump"
    /\ \/ /\ ~keepRunning
          /\ status' = [status EXCEPT ![w] = "OK"]
          /\ Goto(w, "finishUp")
          /\ UNCHANGED pending
       \/ /\ keepRunning
          /\ outbox[w] # <<>>
          /\ Park(w, "write")
          /\ UNCHANGED status
       \/ /\ keepRunning
          /\ outbox[w] = <<>>
          /\ Goto(w, "fetch")
          /\ UNCHANGED <<pending, status>>
    /\ UNCHANGED <<serverVars, managerVars, feedVars, cancelled, subscribed,
                   outbox, sent>>

\* pump(), up to getNextPackets.
Pump(w) ==
    /\ pc[w] = "pump"
    /\ \/ /\ ~keepRunning \/ cancelled[w]
          /\ status' = [status EXCEPT ![w] =
                          IF cancelled[w] THEN "CANCELLED" ELSE "OK"]
          /\ Goto(w, "finishUp")
          /\ UNCHANGED pending
       \/ /\ keepRunning /\ ~cancelled[w]
          /\ outbox[w] # <<>>
          /\ Park(w, "write")
          /\ UNCHANGED status
       \/ /\ keepRunning /\ ~cancelled[w]
          /\ outbox[w] = <<>>
          /\ Goto(w, "fetch")
          /\ UNCHANGED <<pending, status>>
    /\ UNCHANGED <<serverVars, managerVars, feedVars, cancelled, subscribed,
                   outbox, sent>>

\* getNextPackets returns nothing once the manager has stopped: idle.
Fetch(w) ==
    /\ pc[w] = "fetch"
    /\ IF managerRunning
       THEN Goto(w, "dequeue") /\ UNCHANGED pending
       ELSE Park(w, "alarm")
    /\ UNCHANGED <<serverVars, managerVars, feedVars, cancelled, subscribed,
                   outbox, status, sent>>

\* Fault: no return after StartWrite, the alarm is armed as well.
DequeueArmsBoth(w) ==
    /\ pc[w] = "dequeue"
    /\ IF w \in subscribers /\ stream[w] # <<>>
       THEN /\ outbox' = [outbox EXCEPT ![w] = Batch(stream[w])]
            /\ stream' = [stream EXCEPT ![w] = Rest(@)]
            /\ pending' = [pending EXCEPT ![w] = @ \union {"write", "alarm"}]
            /\ Goto(w, "parked")
       ELSE /\ Park(w, "alarm")
            /\ UNCHANGED <<outbox, stream>>
    /\ UNCHANGED <<serverVars, subscribers, joined, feedVars, cancelled,
                   subscribed, status, sent>>

\* Fault: the stream is left alone while it holds a single packet.
DequeueWaitsForMore(w) ==
    /\ pc[w] = "dequeue"
    /\ IF w \in subscribers /\ Len(stream[w]) > 1
       THEN /\ outbox' = [outbox EXCEPT ![w] = Batch(stream[w])]
            /\ stream' = [stream EXCEPT ![w] = Rest(@)]
            /\ Park(w, "write")
       ELSE /\ Park(w, "alarm")
            /\ UNCHANGED <<outbox, stream>>
    /\ UNCHANGED <<serverVars, subscribers, joined, feedVars, cancelled,
                   subscribed, status, sent>>

\* A batch goes from the stream to the private queue, which is empty here, so
\* the pump's own overflow branch is never taken.  A writer that is not in the
\* map gets an exception, logs it and goes idle.
Dequeue(w) ==
    /\ pc[w] = "dequeue"
    /\ IF w \in subscribers /\ stream[w] # <<>>
       THEN /\ outbox' = [outbox EXCEPT ![w] = Batch(stream[w])]
            /\ stream' = [stream EXCEPT ![w] = Rest(@)]
            /\ Park(w, "write")
       ELSE /\ Park(w, "alarm")
            /\ UNCHANGED <<outbox, stream>>
    /\ UNCHANGED <<serverVars, subscribers, joined, feedVars, cancelled,
                   subscribed, status, sent>>

\* The alarm's callback.
AlarmFires(w) ==
    /\ "alarm" \in pending[w]
    /\ Resume(w, "alarm", "pump")
    /\ UNCHANGED <<serverVars, managerVars, feedVars, cancelled, subscribed,
                   outbox, status, sent>>

\* OnWriteDone(true): the packet is flushed, go on.
WriteSucceeds(w) ==
    /\ "write" \in pending[w]
    /\ Resume(w, "write", "pump")
    /\ outbox' = [outbox EXCEPT ![w] = Tail(@)]
    /\ sent' = [sent EXCEPT ![w] = Append(@, Head(outbox[w]))]
    /\ UNCHANGED <<serverVars, managerVars, feedVars, cancelled, subscribed,
                   status>>

\* OnWriteDone(false): the stream is broken.
WriteFails(w) ==
    /\ "write" \in pending[w]
    /\ Resume(w, "write", "finishUp")
    /\ status' = [status EXCEPT ![w] =
                    IF cancelled[w] THEN "CANCELLED" ELSE "UNKNOWN"]
    /\ UNCHANGED <<serverVars, managerVars, feedVars, cancelled, subscribed,
                   outbox, sent>>

\* The client cancels, or its connection breaks.  OnCancel only logs.
Cancel(w) ==
    /\ Open(w)
    /\ ~cancelled[w]
    /\ cancelled' = [cancelled EXCEPT ![w] = TRUE]
    /\ UNCHANGED <<serverVars, managerVars, feedVars, pc, pending, subscribed,
                   outbox, status, sent>>

-----------------------------------------------------------------------------
(* The end of an RPC.                                                      *)

\* Fault: the RPC is finished and its stream stays in the map.
FinishUpForgets(w) ==
    /\ pc[w] = "finishUp"
    /\ subscribed' = [subscribed EXCEPT ![w] = FALSE]
    /\ Goto(w, "finished")
    /\ UNCHANGED <<serverVars, managerVars, feedVars, pending, cancelled,
                   outbox, status, sent>>

\* finishUp up to unsubscribe's critical section: a stopped manager is not
\* told, it has been or will be purged.
FinishUp(w) ==
    /\ pc[w] = "finishUp"
    /\ subscribed' = [subscribed EXCEPT ![w] = FALSE]
    /\ IF subscribed[w] /\ managerRunning THEN Goto(w, "erase")
                                          ELSE Goto(w, "finished")
    /\ UNCHANGED <<serverVars, managerVars, feedVars, pending, cancelled,
                   outbox, status, sent>>

RemoveSubscriber(w) ==
    /\ subscribers' = subscribers \ {w}
    /\ stream' = [stream EXCEPT ![w] = <<>>]

\* unsubscribe's critical section, then Finish(status).
Erase(w) ==
    /\ pc[w] = "erase"
    /\ RemoveSubscriber(w)
    /\ Goto(w, "finished")
    /\ UNCHANGED <<serverVars, joined, feedVars, pending, cancelled,
                   subscribed, outbox, status, sent>>

\* gRPC calls OnDone once Finish was called and no write is in flight.  It
\* knows nothing of the alarm.  The reactor is deleted with all it holds, and
\* the histories of its RPC are forgotten with it.
OnDone(w) ==
    /\ pc[w] = "finished"
    /\ "write" \notin pending[w]
    /\ Goto(w, "done")
    /\ subscribed' = [subscribed EXCEPT ![w] = FALSE]
    /\ outbox' = [outbox EXCEPT ![w] = <<>>]
    /\ cancelled' = [cancelled EXCEPT ![w] = FALSE]
    /\ status' = [status EXCEPT ![w] = "none"]
    /\ joined' = [joined EXCEPT ![w] = 0]
    /\ sent' = [sent EXCEPT ![w] = <<>>]
    /\ IF subscribed[w] /\ managerRunning
       THEN RemoveSubscriber(w)
       ELSE UNCHANGED <<subscribers, stream>>
    /\ UNCHANGED <<serverVars, feedVars, pending>>

-----------------------------------------------------------------------------
Constructor(w) == CheckLimit(w) \/ SubscribeCheck(w) \/ Insert(w)

PumpSteps(w) == Pump(w) \/ Fetch(w) \/ Dequeue(w)

FinishSteps(w) == FinishUp(w) \/ Erase(w) \/ OnDone(w)

\* The destructor has returned and nothing is left to do.
Terminated == server = "down" /\ UNCHANGED vars

Next ==
    \/ Start \/ Stop \/ StopManager \/ UnsubscribeAll \/ Destroy
    \/ BeginShutdown \/ ShutdownDeadline \/ ShutdownReturns
    \/ EnqueueCheck \/ Enqueue
    \/ \E w \in Writers :
          \/ Connect(w) \/ Constructor(w) \/ PumpSteps(w)
          \/ AlarmFires(w) \/ WriteSucceeds(w) \/ WriteFails(w)
          \/ Cancel(w) \/ FinishSteps(w)
    \/ Terminated

Spec == Init /\ [][Next]_vars

-----------------------------------------------------------------------------
(* Fairness: a thread that is in a function of this code goes on, alarms    *)
(* fire, gRPC reports the end of a write to a client that reads, and the    *)
(* end of any write once the RPC is cancelled.  The main thread goes on to  *)
(* destruction once it has called stop.  Nothing obliges a client to        *)
(* connect or to cancel, the operator to stop, or the propagator to offer.  *)

WriteEnds(w) == WriteSucceeds(w) \/ WriteFails(w)

Stopping == StopManager \/ UnsubscribeAll \/ Destroy \/ BeginShutdown
            \/ ShutdownDeadline \/ ShutdownReturns

Running(w) == Constructor(w) \/ PumpSteps(w) \/ AlarmFires(w) \/ FinishSteps(w)

Fairness ==
    /\ WF_vars(Stopping)
    /\ WF_vars(Enqueue)
    /\ \A w \in Writers : WF_vars(Running(w))
    /\ \A w \in Writers :
         WF_vars((w \in Stalled => cancelled[w]) /\ WriteEnds(w))

FairSpec == Spec /\ Fairness

-----------------------------------------------------------------------------
(* Properties.                                                             *)

\* Every variable has its type.
TypeOK ==
    /\ server \in ServerStates
    /\ bound \in BOOLEAN
    /\ keepRunning \in BOOLEAN /\ managerRunning \in BOOLEAN
    /\ subscribers \in SUBSET Writers
    /\ stream \in [Writers -> Seq(1..MaxPackets)]
    /\ feed \in {"idle", "enqueue"}
    /\ count \in 0..MaxPackets
    /\ pc \in [Writers -> WriterStates]
    /\ pending \in [Writers -> SUBSET {"alarm", "write"}]
    /\ cancelled \in [Writers -> BOOLEAN]
    /\ subscribed \in [Writers -> BOOLEAN]
    /\ outbox \in [Writers -> Seq(1..MaxPackets)]
    /\ status \in [Writers -> Statuses]
    /\ joined \in [Writers -> 0..MaxPackets]
    /\ sent \in [Writers -> Seq(1..MaxPackets)]

\* Whatever the interleaving of the propagator, the pumps and the end of RPCs,
\* a stream holds at most QueueCapacity packets and a private queue at most one
\* batch: memory per subscriber is bounded (PacketStream::enqueuePacket, pump).
QueueBounds ==
    \A w \in Writers : /\ Len(stream[w]) <= QueueCapacity
                       /\ Len(outbox[w]) <= BatchSize

\* The comment above pump(): exactly one continuation is outstanding while no
\* thread runs the writer, and none otherwise.  So pump() never runs twice at
\* once, nothing is pending when OnDone deletes the reactor, and the packet
\* gRPC is writing stays at the front of the private queue.
OneContinuation ==
    \A w \in Writers :
      /\ IF pc[w] = "parked" THEN pending[w] \in {{"alarm"}, {"write"}}
                             ELSE pending[w] = {}
      /\ "write" \in pending[w] => outbox[w] # <<>>

\* While the manager runs, its map holds exactly the writers that believe they
\* are subscribed, plus the one that is about to erase itself: no RPC ends and
\* leaves its stream behind, and none polls a stream that is not there.
MapMatchesWriters ==
    managerRunning =>
      \A w \in Writers :
        w \in subscribers <=> (subscribed[w] \/ pc[w] = "erase")

\* What a subscriber got, holds and is about to get, in that order.
Pipeline(w) == sent[w] \o outbox[w] \o stream[w]

\* Every subscriber receives packets in the order in which they were enqueued
\* and none twice, across streams, batches and writes.
InOrder ==
    \A w \in Writers :
      \A i, j \in DOMAIN Pipeline(w) :
        i < j => Pipeline(w)[i] < Pipeline(w)[j]

\* Packets enqueued since w joined that are neither sent nor held for it.
Missing(w) == (joined[w] + 1 .. count) \ Range(Pipeline(w))

\* A subscriber only loses a packet to QueueCapacity newer ones: nothing is
\* lost for another reason (not a slow neighbour, not an RPC that joins or
\* leaves, not the hand-over from stream to private queue), and never the
\* newest.
LossOnlyByOverflow ==
    \A w \in subscribers :
      Open(w) => \A p \in Missing(w) : p + QueueCapacity <= count

\* BackendOptions: "Sets the maximum number of subscribers."
SubscriberLimit == Cardinality(subscribers) <= MaxSubscribers

\* The comment in OnCancel: a cancelled RPC is noticed by a write's end or by
\* the alarm, and finishes, without any wake-up.
CancelledEnds == \A w \in Writers : cancelled[w] ~> pc[w] = "done"

\* stop() and destruction terminate although clients may have stopped reading
\* and others still connect: the deadline of Shutdown ends what is left.
StopTerminates == server = "stopping" ~> server = "down"

\* A packet in the stream of a client that reads is sent, or overwritten by
\* QueueCapacity newer ones, or the RPC ends: the pump never goes to sleep for
\* good on a stream that holds packets, whatever other clients do.
Delivered ==
    \A w \in Writers \ Stalled : \A p \in 1..MaxPackets :
      p \in Range(stream[w]) ~>
        (p \in Range(sent[w]) \/ p \in Missing(w) \/ pc[w] = "done")

=============================================================================
