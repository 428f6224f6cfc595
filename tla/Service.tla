------------------------------ MODULE Service ------------------------------
(***************************************************************************)
(* The whole process (src/main.cpp): the frontend, the proxy and the       *)
(* backend, driven by the main thread from start to exit.                  *)
(*                                                                         *)
(* Each component is an instance of its module.  A call from one component *)
(* to another is one joint step of both: OnReadDone runs the proxy's       *)
(* callback, the propagator calls enqueuePacket, the main thread's start   *)
(* and stop of the proxy call those of the servers.  What the modules      *)
(* assume of their callers is left out of the joint steps, so that the     *)
(* properties ProxySpec and BackendSpec show that the rest of the process  *)
(* keeps to it.  Of its callers the frontend assumes nothing but the order *)
(* of start and stop.                                                      *)
(*                                                                         *)
(* The second stop() of each destructor finds everything stopped and       *)
(* changes nothing; only ~BackendImpl, where the server is shut down, has  *)
(* steps of its own.                                                       *)
(***************************************************************************)
EXTENDS Integers, Sequences, FiniteSets, Functions

CONSTANTS
    Publishers,         \* Publish RPCs
    Subscribers,        \* Subscribe RPCs
    Stalled,            \* subscribers that may stop reading for good
    MaxPublishers, MaxInvalid, ImportCapacity, RemoveDuplicates,
    MaxSubscribers, ExportCapacity, BatchSize,
    MaxPackets          \* bound of the model: messages of each publisher

\* What the setters of the three components' options refuse, they refuse here.
ASSUME ServiceAssumption ==
    /\ IsFiniteSet(Publishers)
    /\ Stalled \subseteq Subscribers
    /\ {MaxPublishers, ImportCapacity, MaxSubscribers, ExportCapacity,
         BatchSize} \subseteq Nat \ {0}
    /\ {MaxInvalid, MaxPackets} \subseteq Nat
    /\ RemoveDuplicates \in BOOLEAN

VARIABLES
    process,            \* where main() is
    handling,           \* catchSignals has installed the handlers
    interrupted,        \* mInterrupted
    providers,          \* the telemetry providers are set
    phase, feBound, feKeepRunning, numberOfPublishers, reader, readerStatus,
    consecutive, total, rejected, response, inbox, late,
    main, running, queue, caller, made, worker, hand, relayed, suppressed,
    evicted, refused, wasFull,
    server, beBound, beKeepRunning, managerRunning, subscribers, stream, feed,
    count, writer, pending, cancelled, subscribed, outbox, writerStatus,
    joined, sent

FE == INSTANCE Frontend WITH
    Strangers <- {}, MaxPackets <- [p \in Publishers |-> MaxPackets],
    bound <- feBound, keepRunning <- feKeepRunning,
    pc <- reader, status <- readerStatus

PX == INSTANCE Proxy WITH QueueCapacity <- ImportCapacity

BE == INSTANCE Backend WITH
    Writers <- Subscribers, QueueCapacity <- ExportCapacity,
    MaxPackets <- Cardinality(Publishers) * MaxPackets,
    bound <- beBound, keepRunning <- beKeepRunning,
    pc <- writer, status <- writerStatus

processVars == <<process, handling, interrupted, providers>>
readers     == <<reader, readerStatus, consecutive, total, rejected, response,
                 inbox, late>>
feVars      == <<phase, feBound, feKeepRunning, numberOfPublishers, readers>>
queueVars   == <<queue, caller, made, hand, relayed, suppressed, evicted,
                 refused, wasFull>>
pxVars      == <<main, running, worker, queueVars>>
writers     == <<feed, count, writer, pending, cancelled, subscribed, outbox,
                 writerStatus, sent>>
beVars      == <<server, beBound, beKeepRunning, managerRunning, subscribers,
                 stream, joined, writers>>
vars        == <<processVars, feVars, pxVars, beVars>>

Processes ==
    {"launching",     \* the ServerImpl has been constructed
     "starting",      \* in mProxy->start()
     "waiting",       \* in the loop of handleMainThread
     "stopping",      \* in mProxy->stop()
     "cleaning",      \* at Metrics::cleanup and Logger::cleanup
     "destroying",    \* the block ends: ~ServerImpl
     "unwinding",     \* the same, because start() threw
     "exited", "failed", "killed"}

Ended == process \in {"exited", "failed", "killed"}

Init ==
    /\ process = "launching"
    /\ handling = FALSE
    /\ interrupted = FALSE
    /\ providers = TRUE
    /\ FE!Init /\ PX!Init /\ BE!Init

-----------------------------------------------------------------------------
(* A publisher's RPC.                                                      *)

\* OnReadDone has a valid packet and has not counted it yet.
InHandler(p) == made[p] > total[p] - rejected[p]

\* What a reader does without the proxy.
ReaderAlone(p) ==
    /\ FE!Constructing(p) \/ FE!Ending(p)
    /\ UNCHANGED <<processVars, pxVars, beVars>>

\* What its client does: call, send an invalid packet, close.
ClientAlone(p) ==
    /\ ~InHandler(p)
    /\ FE!Publish(p) \/ FE!ReadPacket(p, "invalid") \/ FE!EndOfStream(p)
    /\ UNCHANGED <<processVars, pxVars, beVars>>

\* A valid packet comes, and OnReadDone calls addPacketCallback.
OnPacket(p) ==
    /\ reader[p] = "reading" /\ ~InHandler(p)
    /\ total[p] < MaxPackets
    /\ made' = [made EXCEPT ![p] = @ + 1]
    /\ caller' = [caller EXCEPT ![p] = "measure"]
    /\ UNCHANGED <<processVars, feVars, main, running, queue, wasFull, evicted,
                   refused, worker, hand, relayed, suppressed, beVars>>

InCallback(p) ==
    /\ PX!InCallback(p)
    /\ UNCHANGED <<processVars, feVars, beVars>>

\* Fault: OnReadDone goes on before the callback has returned.
CallbackRunsOn(p) ==
    /\ InHandler(p)
    /\ FE!ReadPacket(p, "taken")
    /\ UNCHANGED <<processVars, pxVars, beVars>>

\* addPacketCallback swallows its exceptions: the packet counts as taken.
CallbackReturned(p) ==
    /\ InHandler(p) /\ caller[p] = "idle"
    /\ FE!ReadPacket(p, "taken")
    /\ UNCHANGED <<processVars, pxVars, beVars>>

-----------------------------------------------------------------------------
(* The propagator.                                                         *)

PropagatorAlone ==
    /\ PX!WorkerTop \/ PX!WorkerPop \/ PX!WorkerJudge
    /\ UNCHANGED <<processVars, feVars, beVars>>

\* enqueuePacket returns at once when the manager does not run.
EnqueueCheck ==
    /\ worker = "send" /\ feed = "idle"
    /\ IF managerRunning THEN BE!EnqueueCheck /\ UNCHANGED pxVars
                         ELSE PX!WorkerSend /\ UNCHANGED beVars
    /\ UNCHANGED <<processVars, feVars>>

Enqueue ==
    /\ BE!Enqueue /\ PX!WorkerSend
    /\ UNCHANGED <<processVars, feVars>>

-----------------------------------------------------------------------------
(* A subscriber's RPC.                                                     *)

WriterRuns(w) ==
    /\ BE!Running(w)
    /\ UNCHANGED <<processVars, feVars, pxVars>>

WriteEnds(w) ==
    /\ BE!WriteEnds(w)
    /\ UNCHANGED <<processVars, feVars, pxVars>>

SubscriberActs(w) ==
    /\ BE!Connect(w) \/ BE!Cancel(w)
    /\ UNCHANGED <<processVars, feVars, pxVars>>

-----------------------------------------------------------------------------
(* The main thread: ServerImpl::start.                                     *)

Main(from, to) == process = from /\ process' = to

MainFrame == UNCHANGED <<handling, interrupted, providers>>

StartProxy ==
    /\ Main("launching", "starting") /\ MainFrame
    /\ PX!Start
    /\ UNCHANGED <<feVars, beVars>>

StartBackend ==
    /\ PX!StartBackend /\ BE!Start
    /\ UNCHANGED <<processVars, feVars>>

StartFrontend ==
    /\ PX!StartFrontend /\ FE!Start
    /\ UNCHANGED <<processVars, beVars>>

\* Either server's start() throws: the block is left.
StartThrows ==
    /\ Main("starting", "unwinding") /\ MainFrame
    /\ PX!StartThrows
    /\ UNCHANGED <<feVars, beVars>>

CatchSignals ==
    /\ Main("starting", "waiting")
    /\ main = "started"
    /\ handling' = TRUE
    /\ UNCHANGED <<interrupted, providers, feVars, pxVars, beVars>>

\* Fault: the providers are reset when the signal is noticed.
NoticeSignalCleaning ==
    /\ Main("waiting", "stopping")
    /\ interrupted
    /\ providers' = FALSE
    /\ UNCHANGED <<handling, interrupted, feVars, pxVars, beVars>>

\* The loop looks at mInterrupted every 100 ms.
NoticeSignal ==
    /\ Main("waiting", "stopping") /\ MainFrame
    /\ interrupted
    /\ UNCHANGED <<feVars, pxVars, beVars>>

\* SIGINT or SIGTERM: before the handlers are installed it ends the process.
Signal ==
    /\ ~Ended /\ ~interrupted
    /\ IF handling THEN interrupted' = TRUE /\ UNCHANGED process
                   ELSE process' = "killed" /\ UNCHANGED interrupted
    /\ UNCHANGED <<handling, providers, feVars, pxVars, beVars>>

-----------------------------------------------------------------------------
(* The main thread: Proxy::stop, called by ServerImpl::stop, or by the     *)
(* destructor when start() threw.                                          *)

InStop == process \in {"stopping", "unwinding"}

\* isRunning() is true of a frontend that never started.
StopFrontend ==
    /\ InStop
    /\ FE!Stop
    /\ PX!Stop \/ (main = "unwind" /\ UNCHANGED pxVars)
    /\ UNCHANGED <<processVars, beVars>>

ShutdownFrontend ==
    /\ FE!Shutdown
    /\ UNCHANGED <<processVars, pxVars, beVars>>

\* Fault: the propagator's flag stays up.
FlagLeftUp ==
    /\ FE!ShutdownReturns
    /\ main' = "join"
    /\ UNCHANGED <<running, worker, queueVars, processVars, beVars>>

\* Frontend::stop returns and the propagator's flag is lowered.
FrontendStopped ==
    /\ FE!ShutdownReturns
    /\ main' = "join" /\ running' = FALSE
    /\ UNCHANGED <<worker, queueVars>>
    /\ UNCHANGED <<processVars, beVars>>

\* Fault: the propagator is not joined.
JoinSkipped ==
    /\ main = "join"
    /\ main' = "stopBackend"
    /\ UNCHANGED <<running, worker, queueVars, processVars, feVars, beVars>>

Join ==
    /\ PX!Join
    /\ UNCHANGED <<processVars, feVars, beVars>>

StopBackend ==
    /\ main = "stopBackend"
    /\ \/ BE!Stop /\ UNCHANGED pxVars
       \/ BE!StopManager /\ UNCHANGED pxVars
       \/ BE!UnsubscribeAll /\ PX!StopBackend
    /\ UNCHANGED <<processVars, feVars>>

-----------------------------------------------------------------------------
(* The main thread: the way out of main().                                 *)

\* handleMainThread and start() return.
StartReturns ==
    /\ Main("stopping", "cleaning") /\ MainFrame
    /\ main = "stopped"
    /\ UNCHANGED <<feVars, pxVars, beVars>>

\* Metrics::cleanup and Logger::cleanup, the last statements of the block.
Cleanup ==
    /\ Main("cleaning", "destroying")
    /\ providers' = FALSE
    /\ UNCHANGED <<handling, interrupted, feVars, pxVars, beVars>>

InDestructor == main = "stopped" /\ process \in {"destroying", "unwinding"}

\* ~ServerImpl, ~ProxyImpl, ~BackendImpl.
DestroyBackend ==
    /\ InDestructor
    /\ server = "stopped"
    /\ server' = "destroying"
    /\ BE!ClearSubscribers
    /\ UNCHANGED <<beBound, beKeepRunning, managerRunning, writers,
                   processVars, feVars, pxVars>>

ShutdownBackend ==
    /\ InDestructor
    /\ BE!BeginShutdown \/ BE!ShutdownDeadline \/ BE!ShutdownReturns
    /\ UNCHANGED <<processVars, feVars, pxVars>>

\* EXIT_SUCCESS; or the handler of the exception, which cleans up only now.
Exit ==
    /\ server = "down"
    /\ \/ Main("destroying", "exited") /\ UNCHANGED providers
       \/ Main("unwinding", "failed") /\ providers' = FALSE
    /\ UNCHANGED <<handling, interrupted, feVars, pxVars, beVars>>

-----------------------------------------------------------------------------
ReaderSteps(p) == ReaderAlone(p) \/ InCallback(p) \/ CallbackReturned(p)

ClientSteps(p) == ClientAlone(p) \/ OnPacket(p)

Propagator == PropagatorAlone \/ EnqueueCheck \/ Enqueue

MainSteps ==
    \/ StartProxy \/ StartBackend \/ StartFrontend \/ StartThrows
    \/ CatchSignals \/ NoticeSignal
    \/ StopFrontend \/ ShutdownFrontend \/ FrontendStopped \/ Join
    \/ StopBackend \/ StartReturns \/ Cleanup
    \/ DestroyBackend \/ ShutdownBackend \/ Exit

Threads ==
    \/ \E p \in Publishers : ReaderSteps(p) \/ ClientSteps(p)
    \/ Propagator
    \/ \E w \in Subscribers : WriterRuns(w) \/ WriteEnds(w) \/ SubscriberActs(w)
    \/ MainSteps

Terminated == Ended /\ UNCHANGED vars

Next == (~Ended /\ Threads) \/ Signal \/ Terminated

Spec == Init /\ [][Next]_vars

\* Threads inside the code go on, publishers send or close, subscribers read
\* unless they have stalled; nothing makes a client call or a signal come.
Fairness ==
    /\ \A p \in Publishers :
         /\ WF_vars(~Ended /\ ReaderSteps(p))
         /\ WF_vars(~Ended /\ reader[p] = "reading" /\ ClientSteps(p))
    /\ WF_vars(~Ended /\ Propagator)
    /\ WF_vars(~Ended /\ MainSteps)
    /\ \A w \in Subscribers :
         /\ WF_vars(~Ended /\ WriterRuns(w))
         /\ WF_vars(/\ ~Ended /\ w \in Stalled => cancelled[w]
                    /\ WriteEnds(w))

FairSpec == Spec /\ Fairness

-----------------------------------------------------------------------------
(* Properties.                                                             *)

\* The process calls the proxy and the backend as their modules assume:
\* callbacks only from readers that are open, the frontend down before the
\* propagator is joined, the propagator joined before the backend is purged and
\* destroyed, also when a start() throws.  What is checked of the two modules
\* holds in the process.
ProxySpec   == PX!Spec
BackendSpec == BE!Spec

\* The packets a subscriber got, under the names their publishers gave them.
Received(w) == [i \in DOMAIN sent[w] |-> relayed[sent[w][i]]]

\* A publisher's packets arrive in the order in which it sent them, none twice.
ReceivedInOrder ==
    \A w \in Subscribers : \A i, j \in DOMAIN Received(w) :
      i < j /\ Received(w)[i][1] = Received(w)[j][1] =>
        Received(w)[i][2] < Received(w)[j][2]

\* Packets a reader has counted as taken, and tells its publisher of.
Taken == {k \in PX!Packet : k[2] <= total[k[1]] - rejected[k[1]]}

\* Of what publishers were told was taken, the duplicates and what is on its
\* way to the backend excepted, a subscriber was sent all or has it in store,
\* but what came before it joined, what was thrown away by an import queue that
\* had been full, and what ExportCapacity newer packets displaced.
NoSilentLoss ==
    \A w \in subscribers : BE!Open(w) =>
      \A k \in Taken \ (Range(queue) \union Range(hand) \union suppressed) :
        \/ wasFull /\ k \in evicted \union refused
        \/ \E n \in DOMAIN relayed :
             /\ relayed[n] = k
             /\ \/ n \in Range(BE!Pipeline(w))
                \/ n <= joined[w]
                \/ n + ExportCapacity <= count

\* From publisher to subscriber, through both queues, the stream and the pump.
EndToEnd == ReceivedInOrder /\ NoSilentLoss

\* The manager never turns the propagator away: every packet that is relayed
\* is enqueued, from the first moment of start() to the last of stop().
NoneTurnedAway == Len(relayed) = count

\* main() returns when no callback, propagator or pump is left that could use
\* what has been destroyed, on the way out of a failed start() as well.
ExitIsOrderly ==
    process \in {"exited", "failed"} =>
      /\ \A p \in Publishers : reader[p] \in {"idle", "done"} /\ caller[p] = "idle"
      /\ worker = "exited"
      /\ \A w \in Subscribers : writer[w] \in {"idle", "done"}

\* A signal that the handler has taken ends the process with EXIT_SUCCESS,
\* whatever subscribers do, as long as publishers go on sending or close.
SignalStops == interrupted ~> process = "exited"

\* The providers of metrics and logs outlive all that is at work in the
\* process: once they are reset no reader and no propagator is left, and what
\* RPCs of subscribers remain have been told to end.
ProvidersOutlive ==
    ~providers =>
      /\ \A p \in Publishers : reader[p] \in {"idle", "done"} /\ caller[p] = "idle"
      /\ worker = "exited"
      /\ ~managerRunning /\ ~beKeepRunning

=============================================================================
