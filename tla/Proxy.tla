------------------------------- MODULE Proxy -------------------------------
(***************************************************************************)
(* The middle of the proxy (src/proxy.cpp): the import queue between the   *)
(* readers of the frontend and the propagator thread, and the order in     *)
(* which the parts are started and stopped.                                *)
(*                                                                         *)
(* Threads: one gRPC thread per publisher is in addPacketCallback at a     *)
(* time; the propagator drains the queue; the main thread starts and       *)
(* stops.  The queue is a oneapi::tbb::concurrent_bounded_queue: size,     *)
(* try_pop and try_push are atomic one by one, and what happens between    *)
(* two of them is anybody's.                                               *)
(*                                                                         *)
(* The frontend, the duplicate detector and the backend appear only as     *)
(* what this code sees of them: callbacks while the frontend is up, a      *)
(* verdict, and a call that takes the packet.  Their own modules are       *)
(* Frontend, DuplicateDetector and Backend.                                *)
(***************************************************************************)
EXTENDS Integers, Sequences, FiniteSets, Functions

CONSTANTS
    Publishers,         \* Publish RPCs
    QueueCapacity,      \* ProxyOptions::getQueueCapacity
    RemoveDuplicates,   \* ProxyImpl::mRemoveDuplicates
    MaxPackets          \* bound of the model: packets per publisher

\* ProxyOptions::setQueueCapacity refuses values below one.
ASSUME ProxyAssumption ==
    /\ QueueCapacity \in Nat \ {0}
    /\ RemoveDuplicates \in BOOLEAN
    /\ MaxPackets \in Nat

VARIABLES
    main,               \* how far the main thread has come
    running,            \* ProxyImpl::mKeepRunning
    queue,              \* mImportExportQueue
    caller,             \* each publisher's thread in addPacketCallback
    made,               \* number of the last packet of each publisher
    worker,             \* the propagator's thread
    hand,               \* the packet it holds: a sequence of at most one
    relayed,            \* history: packets the backend was given, in order
    suppressed,         \* history: packets the detector did not allow
    evicted,            \* history: packets popped to make room
    refused,            \* history: packets try_push failed to add
    wasFull             \* history: the queue has been at its capacity

queueVars   == <<queue, wasFull>>
callerVars  == <<caller, made, evicted, refused>>
workerVars  == <<worker, hand, relayed, suppressed>>
vars        == <<main, running, queueVars, callerVars, workerVars>>

\* The n-th packet of publisher p.
Packet == Publishers \X (1..MaxPackets)

MainStates ==
    {"created", "startBackend", "startFrontend", "started",
     "stopFrontend", "unwind", "join", "stopBackend", "stopped"}

\* "measure" is about to read the size, "evict" to pop, "push" to push.
CallerStates == {"idle", "measure", "evict", "push"}

\* "top" is about to read mKeepRunning, "pop" to pop, "judge" to ask the
\* detector and "send" to call the backend.
WorkerStates == {"none", "top", "pop", "judge", "send", "exited"}

\* While the frontend serves, its readers call back; stop() only returns when
\* the last of them has ended.  In "unwind" start() has thrown, and the
\* destructor stops a frontend that never served.
FrontendUp == main \in {"started", "stopFrontend"}

Init ==
    /\ main = "created"
    /\ running = TRUE
    /\ queue = <<>>
    /\ caller = [p \in Publishers |-> "idle"]
    /\ made = [p \in Publishers |-> 0]
    /\ worker = "none"
    /\ hand = <<>>
    /\ relayed = <<>>
    /\ suppressed = {}
    /\ evicted = {}
    /\ refused = {}
    /\ wasFull = FALSE

-----------------------------------------------------------------------------
(* ProxyImpl::addPacketCallback.                                           *)

Goto(p, label) == caller' = [caller EXCEPT ![p] = label]

\* A reader has a valid packet.
Callback(p) ==
    /\ FrontendUp
    /\ caller[p] = "idle"
    /\ made[p] < MaxPackets
    /\ made' = [made EXCEPT ![p] = @ + 1]
    /\ Goto(p, "measure")
    /\ UNCHANGED <<main, running, queueVars, workerVars, evicted, refused>>

\* Fault: room is made one packet early.
MeasureTooEarly(p) ==
    /\ caller[p] = "measure"
    /\ Goto(p, IF queue # <<>> /\ Len(queue) >= QueueCapacity - 1
               THEN "evict" ELSE "push")
    /\ UNCHANGED <<main, running, queueVars, workerVars, made, evicted,
                   refused>>

\* size(), and the test of the loop.
Measure(p) ==
    /\ caller[p] = "measure"
    /\ Goto(p, IF Len(queue) >= QueueCapacity THEN "evict" ELSE "push")
    /\ UNCHANGED <<main, running, queueVars, workerVars, made, evicted,
                   refused>>

\* Fault: the newest packet of the queue makes way.
EvictNewest(p) ==
    /\ caller[p] = "evict"
    /\ IF queue = <<>>
       THEN Goto(p, "push") /\ UNCHANGED <<queue, evicted>>
       ELSE /\ queue' = SubSeq(queue, 1, Len(queue) - 1)
            /\ evicted' = evicted \union {queue[Len(queue)]}
            /\ Goto(p, "measure")
    /\ UNCHANGED <<main, running, wasFull, workerVars, made, refused>>

\* try_pop in the loop: the oldest packet makes way.  The queue may have been
\* drained since its size was read.
Evict(p) ==
    /\ caller[p] = "evict"
    /\ IF queue = <<>>
       THEN Goto(p, "push") /\ UNCHANGED <<queue, evicted>>
       ELSE /\ queue' = Tail(queue)
            /\ evicted' = evicted \union {Head(queue)}
            /\ Goto(p, "measure")
    /\ UNCHANGED <<main, running, wasFull, workerVars, made, refused>>

\* Fault: a queue without a capacity (tbb::concurrent_queue).
PushUnbounded(p) ==
    /\ caller[p] = "push"
    /\ queue' = Append(queue, <<p, made[p]>>)
    /\ wasFull' = (wasFull \/ Len(queue') = QueueCapacity)
    /\ Goto(p, "idle")
    /\ UNCHANGED <<main, running, workerVars, made, evicted, refused>>

\* try_push.  It fails when others have filled the queue since the size was
\* read: the failure is logged, the call returns and the reader counts the
\* packet as accepted.  (An exception of a queue operation ends the same way:
\* it is caught, logged and the packet gone.  They throw when memory runs out,
\* which is outside the model.)
Push(p) ==
    /\ caller[p] = "push"
    /\ IF Len(queue) < QueueCapacity
       THEN queue' = Append(queue, <<p, made[p]>>) /\ UNCHANGED refused
       ELSE refused' = refused \union {<<p, made[p]>>} /\ UNCHANGED queue
    /\ wasFull' = (wasFull \/ Len(queue') = QueueCapacity)
    /\ Goto(p, "idle")
    /\ UNCHANGED <<main, running, workerVars, made, evicted>>

-----------------------------------------------------------------------------
(* ProxyImpl::propagatePacketToBackend.                                    *)

\* The condition of the loop.
WorkerTop ==
    /\ worker = "top"
    /\ worker' = IF running THEN "pop" ELSE "exited"
    /\ UNCHANGED <<main, running, queueVars, callerVars, hand, relayed,
                   suppressed>>

\* Fault: the thread ends when it finds the queue empty.
WorkerPopOrExit ==
    /\ worker = "pop"
    /\ IF queue = <<>>
       THEN worker' = "exited" /\ UNCHANGED <<queue, hand>>
       ELSE /\ hand' = <<Head(queue)>>
            /\ queue' = Tail(queue)
            /\ worker' = IF RemoveDuplicates THEN "judge" ELSE "send"
    /\ UNCHANGED <<main, running, wasFull, callerVars, relayed, suppressed>>

\* Fault: the thread looks at the oldest packet and leaves it in the queue.
WorkerPopKeeps ==
    /\ worker = "pop"
    /\ IF queue = <<>>
       THEN worker' = "top" /\ UNCHANGED hand
       ELSE /\ hand' = <<Head(queue)>>
            /\ worker' = IF RemoveDuplicates THEN "judge" ELSE "send"
    /\ UNCHANGED <<main, running, queueVars, callerVars, relayed, suppressed>>

\* Fault: the newest packet is taken, as from a stack.
WorkerPopNewest ==
    /\ worker = "pop"
    /\ IF queue = <<>>
       THEN worker' = "top" /\ UNCHANGED <<queue, hand>>
       ELSE /\ hand' = <<queue[Len(queue)]>>
            /\ queue' = SubSeq(queue, 1, Len(queue) - 1)
            /\ worker' = IF RemoveDuplicates THEN "judge" ELSE "send"
    /\ UNCHANGED <<main, running, wasFull, callerVars, relayed, suppressed>>

\* try_pop; an empty queue lets the thread sleep for 15 ms and look again.
WorkerPop ==
    /\ worker = "pop"
    /\ IF queue = <<>>
       THEN worker' = "top" /\ UNCHANGED <<queue, hand>>
       ELSE /\ hand' = <<Head(queue)>>
            /\ queue' = Tail(queue)
            /\ worker' = IF RemoveDuplicates THEN "judge" ELSE "send"
    /\ UNCHANGED <<main, running, wasFull, callerVars, relayed, suppressed>>

\* The detector allows the packet, or does not (an exception counts as no).
WorkerJudge ==
    /\ worker = "judge"
    /\ \/ worker' = "send" /\ UNCHANGED <<hand, suppressed>>
       \/ /\ worker' = "top"
          /\ suppressed' = suppressed \union Range(hand)
          /\ hand' = <<>>
    /\ UNCHANGED <<main, running, queueVars, callerVars, relayed>>

WorkerSend ==
    /\ worker = "send"
    /\ relayed' = relayed \o hand
    /\ hand' = <<>>
    /\ worker' = "top"
    /\ UNCHANGED <<main, running, queueVars, callerVars, suppressed>>

-----------------------------------------------------------------------------
(* ProxyImpl::start and ProxyImpl::stop.                                   *)

mainFrame == <<queueVars, callerVars, hand, relayed, suppressed>>

\* The propagator first, then the backend, then the frontend.
Start ==
    /\ main = "created"
    /\ main' = "startBackend"
    /\ running' = TRUE
    /\ worker' = "top"
    /\ UNCHANGED mainFrame

StartBackend ==
    /\ main = "startBackend"
    /\ main' = "startFrontend"
    /\ UNCHANGED <<running, worker, mainFrame>>

StartFrontend ==
    /\ main = "startFrontend"
    /\ main' = "started"
    /\ UNCHANGED <<running, worker, mainFrame>>

\* "start constructs the callback server so this can throw": of either server.
\* The destructor then calls stop().
StartThrows ==
    /\ main \in {"startBackend", "startFrontend"}
    /\ main' = "unwind"
    /\ UNCHANGED <<running, worker, mainFrame>>

\* Frontend::stop: no new callback once it has returned.
Stop ==
    /\ main = "started"
    /\ main' = "stopFrontend"
    /\ UNCHANGED <<running, worker, mainFrame>>

\* Fault: mKeepRunning is not lowered before the join.
JoinWithoutFlag ==
    /\ main \in {"stopFrontend", "unwind"}
    /\ \A p \in Publishers : caller[p] = "idle"
    /\ main' = "join"
    /\ UNCHANGED <<running, worker, mainFrame>>

FrontendStopped ==
    /\ main \in {"stopFrontend", "unwind"}
    /\ \A p \in Publishers : caller[p] = "idle"
    /\ main' = "join"
    /\ running' = FALSE
    /\ UNCHANGED <<worker, mainFrame>>

\* mProxyThread.join().
Join ==
    /\ main = "join"
    /\ worker = "exited"
    /\ main' = "stopBackend"
    /\ UNCHANGED <<running, worker, mainFrame>>

StopBackend ==
    /\ main = "stopBackend"
    /\ main' = "stopped"
    /\ UNCHANGED <<running, worker, mainFrame>>

Terminated == main = "stopped" /\ UNCHANGED vars

-----------------------------------------------------------------------------
InCallback(p) == Measure(p) \/ Evict(p) \/ Push(p)

Propagator == WorkerTop \/ WorkerPop \/ WorkerJudge \/ WorkerSend

Stopping == FrontendStopped \/ Join \/ StopBackend

Next ==
    \/ \E p \in Publishers : Callback(p) \/ InCallback(p)
    \/ Propagator
    \/ Start \/ StartBackend \/ StartFrontend \/ StartThrows \/ Stop
    \/ Stopping
    \/ Terminated

Spec == Init /\ [][Next]_vars

\* Threads that are in this code go on.  (That Frontend::stop returns is an
\* assumption here; module Frontend looks into it.)
Fairness ==
    /\ \A p \in Publishers : WF_vars(InCallback(p))
    /\ WF_vars(Propagator)
    /\ WF_vars(Stopping)

FairSpec == Spec /\ Fairness

-----------------------------------------------------------------------------
(* Properties.                                                             *)

\* Every variable has its type, and the queue its capacity.
TypeOK ==
    /\ main \in MainStates
    /\ running \in BOOLEAN /\ wasFull \in BOOLEAN
    /\ queue \in Seq(Packet) /\ Len(queue) <= QueueCapacity
    /\ caller \in [Publishers -> CallerStates]
    /\ made \in [Publishers -> 0..MaxPackets]
    /\ worker \in WorkerStates
    /\ hand \in Seq(Packet) /\ Len(hand) <= 1
    /\ relayed \in Seq(Packet)
    /\ suppressed \in SUBSET Packet
    /\ evicted \in SUBSET Packet
    /\ refused \in SUBSET Packet

\* Packets the callbacks have been given.
Offered == {k \in Packet : k[2] <= made[k[1]]}

\* The packet a callback still holds.
InCall == {k \in Packet : caller[k[1]] # "idle" /\ k[2] = made[k[1]]}

\* Where a packet can be that no queue holds any more.
Fate(k) == (IF k \in InCall THEN 1 ELSE 0)
         + (IF k \in suppressed THEN 1 ELSE 0)
         + (IF k \in evicted THEN 1 ELSE 0)
         + (IF k \in refused THEN 1 ELSE 0)

Copies(k) ==
    LET line == relayed \o hand \o queue
    IN  Cardinality({i \in DOMAIN line : line[i] = k})

\* Every packet given to addPacketCallback is in exactly one place, whatever
\* callbacks and propagator do at once: in a call, queued, in the propagator's
\* hand, relayed, suppressed, evicted or refused.  None is relayed twice and
\* none disappears without a trace.
Accounted == \A k \in Packet :
    Copies(k) + Fate(k) = IF k \in Offered THEN 1 ELSE 0

\* Packets of one publisher leave the queue in the order in which they were
\* published: what has gone, by whichever exit, is older than what is queued.
PublisherOrder ==
    LET line == relayed \o hand \o queue
    IN  /\ \A i, j \in DOMAIN line :
             i < j /\ line[i][1] = line[j][1] => line[i][2] < line[j][2]
        /\ \A k \in suppressed \union evicted : \A i \in DOMAIN queue :
             k[1] = queue[i][1] => k[2] < queue[i][2]

\* Packets are only thrown away by a queue that has been at its capacity.
LossNeedsPressure == evicted \union refused # {} => wasFull

\* stop() returns, given that the frontend's does, also when start() threw.
StopTerminates == main \in {"stopFrontend", "unwind"} ~> main = "stopped"

\* A packet does not stay in the queue while the proxy runs: the propagator
\* takes it or a newer one displaces it.
QueueDrains ==
    \A k \in Packet :
      k \in Range(queue) ~> (k \notin Range(queue) \/ ~running)

=============================================================================
