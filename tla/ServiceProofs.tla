--------------------------- MODULE ServiceProofs ---------------------------
(***************************************************************************)
(* The process calls each component as the component's module assumes, so  *)
(* that what is proved of the modules holds in the process; a publisher's  *)
(* packets reach a subscriber in order; and nothing is left running when   *)
(* main() returns: for all sets of publishers and subscribers and all      *)
(* options.                                                                *)
(***************************************************************************)
EXTENDS Service, SequenceTheorems, FiniteSetTheorems, TLAPS

\* The components, with what is proved of them.
FP == INSTANCE FrontendProofs WITH
    Strangers <- {}, MaxPackets <- [p \in Publishers |-> MaxPackets],
    bound <- feBound, keepRunning <- feKeepRunning,
    pc <- reader, status <- readerStatus

PP == INSTANCE ProxyProofs WITH QueueCapacity <- ImportCapacity

BP == INSTANCE BackendBroadcastProofs WITH
    Writers <- Subscribers, QueueCapacity <- ExportCapacity,
    MaxPackets <- Cardinality(Publishers) * MaxPackets,
    bound <- beBound, keepRunning <- beKeepRunning,
    pc <- writer, status <- writerStatus

\* The constants of the process are constants of the components.
LEMMA Constants ==
    FP!FrontendAssumption /\ PP!ProxyAssumption /\ BP!BackendAssumption
<1>1. Cardinality(Publishers) \in Nat
  BY ServiceAssumption, FS_CardinalityType
<1>2. Cardinality(Publishers) * MaxPackets \in Nat
  BY <1>1, ServiceAssumption
<1>3. FP!FrontendAssumption
  BY ServiceAssumption DEF FP!FrontendAssumption, FP!IsFiniteSet, IsFiniteSet
<1>4. PP!ProxyAssumption
  BY ServiceAssumption DEF PP!ProxyAssumption
<1>5. BP!BackendAssumption
  BY <1>2, ServiceAssumption DEF BP!BackendAssumption
<1> QED
  BY <1>3, <1>4, <1>5

-----------------------------------------------------------------------------
(* The inductive invariant: those of the components, and what holds        *)
(* between them.                                                           *)

\* How far the frontend is when the main thread is where it is.  A frontend
\* that never started never has a reader.
FrontendStage ==
    /\ main \in {"created", "startBackend", "startFrontend"} =>
         phase = "created"
    /\ main = "started" => phase = "serving"
    /\ main = "stopFrontend" => phase \in {"stopping", "draining"}
    /\ main = "unwind" => /\ phase \in {"created", "stopping"}
                          /\ ~feBound
                          /\ \A p \in Publishers : reader[p] = "idle"
    /\ main \in {"join", "stopBackend", "stopped"} => phase = "down"

\* How far the backend is.
BackendStage ==
    /\ main \in {"created", "startBackend"} => server = "created"
    /\ main \in {"startFrontend", "started", "stopFrontend"} =>
         server = "running"
    /\ main \in {"unwind", "join"} => server \in {"created", "running"}
    /\ main = "stopBackend" =>
         server \in {"created", "running", "stopping", "purging"}
    /\ main = "stopped" =>
         server \in {"stopped", "destroying", "draining", "cancelling", "down"}

\* main() returns after the backend's server is down, and then no pump is left.
ServerGone ==
    /\ process \in {"exited", "failed"} => server = "down"
    /\ server = "down" => \A w \in Subscribers : writer[w] \in {"idle", "done"}

\* The telemetry is only reset after Proxy::stop, which lowers the pumps' flag.
ProvidersStage ==
    /\ ~providers \/ process \in {"cleaning", "destroying"} => main = "stopped"
    /\ server \notin {"created", "running"} => ~beKeepRunning

\* A reader is in the callback with the packet that it counts next, or the
\* packets the callback was given are those it counts as taken.
Handled(p) ==
    /\ made[p] - (total[p] - rejected[p]) \in {0, 1}
    /\ InHandler(p) => reader[p] = "reading"
    /\ caller[p] # "idle" => InHandler(p)

\* The propagator is in enqueuePacket.
FeedIsSend == feed = "enqueue" => worker = "send"

Joint ==
    /\ FrontendStage /\ BackendStage /\ ServerGone /\ ProvidersStage
    /\ \A p \in Publishers : Handled(p)
    /\ FeedIsSend
    /\ NoneTurnedAway

SInv == FP!FInv /\ PP!PInv /\ BP!IInv /\ BP!OrderInv /\ Joint

-----------------------------------------------------------------------------
(* The definitions of the components are the same wherever they are        *)
(* instantiated.                                                           *)

LEMMA FrontendInit == FE!Init <=> FP!Init
BY DEF
    FE!Init, FP!Init

LEMMA FrontendStep == [FE!Next]_(FE!vars) <=> [FP!Next]_(FP!vars)
BY DEF
    FE!server, FE!tallies, FE!vars, FE!Kinds, FE!Goto, FE!Finish,
    FE!Publish, FE!CheckLimit, FE!Count, FE!Begin, FE!Tally, FE!ReadPacket,
    FE!EndOfStream, FE!OnDone, FE!Leave, FE!readers, FE!Start, FE!Stop,
    FE!Shutdown, FE!ShutdownReturns, FE!Terminated, FE!Constructing,
    FE!Ending, FE!ClientActs, FE!Next, FP!server, FP!tallies, FP!vars,
    FP!Kinds, FP!Goto, FP!Finish, FP!Publish, FP!CheckLimit, FP!Count,
    FP!Begin, FP!Tally, FP!ReadPacket, FP!EndOfStream, FP!OnDone, FP!Leave,
    FP!readers, FP!Start, FP!Stop, FP!Shutdown, FP!ShutdownReturns,
    FP!Terminated, FP!Constructing, FP!Ending, FP!ClientActs, FP!Next

LEMMA ProxyInit == PX!Init <=> PP!Init
BY DEF
    PX!Init, PP!Init

LEMMA ProxyStep == [PX!Next]_(PX!vars) <=> [PP!Next]_(PP!vars)
BY DEF
    PX!queueVars, PX!callerVars, PX!workerVars, PX!vars, PX!FrontendUp,
    PX!Goto, PX!Callback, PX!Measure, PX!Evict, PX!Push, PX!WorkerTop,
    PX!WorkerPop, PX!WorkerJudge, PX!WorkerSend, PX!mainFrame, PX!Start,
    PX!StartBackend, PX!StartFrontend, PX!StartThrows, PX!Stop,
    PX!FrontendStopped, PX!Join, PX!StopBackend, PX!Terminated,
    PX!InCallback, PX!Propagator, PX!Stopping, PX!Next, PX!Range,
    PP!queueVars, PP!callerVars, PP!workerVars, PP!vars, PP!FrontendUp,
    PP!Goto, PP!Callback, PP!Measure, PP!Evict, PP!Push, PP!WorkerTop,
    PP!WorkerPop, PP!WorkerJudge, PP!WorkerSend, PP!mainFrame, PP!Start,
    PP!StartBackend, PP!StartFrontend, PP!StartThrows, PP!Stop,
    PP!FrontendStopped, PP!Join, PP!StopBackend, PP!Terminated,
    PP!InCallback, PP!Propagator, PP!Stopping, PP!Next, PP!Range

LEMMA BackendInit == BE!Init <=> BP!Init
BY DEF
    BE!Init, BP!Init

LEMMA BackendStep == [BE!Next]_(BE!vars) <=> [BP!Next]_(BP!vars)
BY DEF
    BE!serverVars, BE!managerVars, BE!feedVars, BE!writerVars, BE!vars,
    BE!Listening, BE!Open, BE!MinOf, BE!MaxOf, BE!MakeRoom, BE!Overwrite,
    BE!Batch, BE!Rest, BE!Start, BE!Stop, BE!StopManager,
    BE!ClearSubscribers, BE!UnsubscribeAll, BE!Destroy, BE!BeginShutdown,
    BE!ShutdownDeadline, BE!ShutdownReturns, BE!EnqueueCheck, BE!Enqueue,
    BE!Goto, BE!Finish, BE!Connect, BE!CheckLimit, BE!SubscribeCheck,
    BE!Insert, BE!Park, BE!Resume, BE!Pump, BE!Fetch, BE!Dequeue,
    BE!AlarmFires, BE!WriteSucceeds, BE!WriteFails, BE!Cancel, BE!FinishUp,
    BE!RemoveSubscriber, BE!Erase, BE!OnDone, BE!Constructor, BE!PumpSteps,
    BE!FinishSteps, BE!Terminated, BE!Next, BE!Cardinality, BP!serverVars,
    BP!managerVars, BP!feedVars, BP!writerVars, BP!vars, BP!Listening,
    BP!Open, BP!MinOf, BP!MaxOf, BP!MakeRoom, BP!Overwrite, BP!Batch,
    BP!Rest, BP!Start, BP!Stop, BP!StopManager, BP!ClearSubscribers,
    BP!UnsubscribeAll, BP!Destroy, BP!BeginShutdown, BP!ShutdownDeadline,
    BP!ShutdownReturns, BP!EnqueueCheck, BP!Enqueue, BP!Goto, BP!Finish,
    BP!Connect, BP!CheckLimit, BP!SubscribeCheck, BP!Insert, BP!Park,
    BP!Resume, BP!Pump, BP!Fetch, BP!Dequeue, BP!AlarmFires,
    BP!WriteSucceeds, BP!WriteFails, BP!Cancel, BP!FinishUp,
    BP!RemoveSubscriber, BP!Erase, BP!OnDone, BP!Constructor, BP!PumpSteps,
    BP!FinishSteps, BP!Terminated, BP!Next, BP!Cardinality

LEMMA Frames ==
    /\ UNCHANGED feVars <=> UNCHANGED (FE!vars)
    /\ UNCHANGED pxVars <=> UNCHANGED (PX!vars)
    /\ UNCHANGED beVars <=> UNCHANGED (BE!vars)
    /\ UNCHANGED vars <=> UNCHANGED <<processVars, feVars, pxVars, beVars>>
<1>1. UNCHANGED feVars <=> UNCHANGED (FE!vars)
  BY DEF feVars, readers, FE!vars, FE!server, FE!tallies
<1>2. UNCHANGED pxVars <=> UNCHANGED (PX!vars)
  BY DEF pxVars, queueVars, PX!vars, PX!queueVars, PX!callerVars, PX!workerVars
<1>3. UNCHANGED beVars <=> UNCHANGED (BE!vars)
  BY DEF beVars, writers, BE!vars, BE!serverVars, BE!managerVars, BE!feedVars,
         BE!writerVars
<1> QED
  BY <1>1, <1>2, <1>3 DEF vars

-----------------------------------------------------------------------------
(* What the components' invariants say in the terms of the process.        *)

\* The readers and the callbacks they are in.
LEMMA Readers ==
    ASSUME SInv
    PROVE  /\ total \in [Publishers -> Nat] /\ rejected \in [Publishers -> Nat]
           /\ made \in [Publishers -> 0..MaxPackets]
           /\ reader \in [Publishers -> FE!Places]
           /\ caller \in [Publishers -> PX!CallerStates]
           /\ \A p \in Publishers : Handled(p)
BY DEF SInv, Joint, FP!FInv, FP!TypeOK, FP!Places, FE!Places, PP!PInv, PP!TypeOK,
       PP!CallerStates, PX!CallerStates

\* There are readers only while the frontend is up, and its server is only
\* gone when they are.
LEMMA ReadersNeedFrontend ==
    ASSUME SInv
    PROVE  /\ \A p \in Publishers : reader[p] = "reading" => PX!FrontendUp
           /\ main \in {"join", "stopBackend", "stopped"} =>
                \A p \in Publishers : reader[p] \in {"idle", "done"}
           /\ phase \in {"stopping", "draining"} =>
                main \in {"stopFrontend", "unwind"}
           /\ phase = "created" => ~feBound
           /\ main \in PX!MainStates
<1>1. main \in PP!MainStates /\ FP!NoReaderOutside /\ FrontendStage
  BY DEF SInv, Joint, FP!FInv, PP!PInv, PP!TypeOK
<1> QED
  BY <1>1 DEF PP!MainStates, PX!MainStates, PX!FrontendUp, FP!NoReaderOutside,
              FrontendStage

\* The propagator has one packet in its hand when it sends, and it sends only
\* while the manager runs; when the backend is told to stop it is gone.
LEMMA Propagating ==
    ASSUME SInv
    PROVE  /\ worker = "send" => managerRunning /\ hand # <<>>
           /\ hand \in Seq(PP!Packet) /\ Len(hand) <= 1
           /\ relayed \in Seq(PP!Packet)
           /\ main \in {"stopBackend", "stopped"} =>
                worker = "exited" /\ feed = "idle"
           /\ main = "created" => worker = "none"
           /\ feed \in {"idle", "enqueue"}
<1>1. /\ PP!HandIsFull /\ PP!StoppedIsQuiet /\ PP!NoThreadYet
      /\ hand \in Seq(PP!Packet) /\ Len(hand) <= 1
      /\ relayed \in Seq(PP!Packet)
      /\ main \in PP!MainStates
  BY DEF SInv, PP!PInv, PP!TypeOK
<1>2. BP!ManagerPhase /\ feed \in {"idle", "enqueue"}
  BY DEF SInv, BP!IInv, BP!TypeOK
<1>3. BackendStage /\ FeedIsSend
  BY DEF SInv, Joint
<1> QED
  BY <1>1, <1>2, <1>3 DEF PP!HandIsFull, PP!StoppedIsQuiet, PP!NoThreadYet,
       PP!MainStates, BP!ManagerPhase, BackendStage, FeedIsSend

-----------------------------------------------------------------------------
(* Each step of the process is a step of each component, or none of its.   *)

LEMMA FrontendKeeps == [Next]_vars => [FE!Next]_(FE!vars)
<1> SUFFICES ASSUME [Next]_vars PROVE FE!Next \/ UNCHANGED feVars
  BY Frames
<1>1. ASSUME NEW p \in Publishers, ReaderSteps(p) \/ ClientSteps(p)
      PROVE  FE!Next \/ UNCHANGED feVars
  BY <1>1 DEF ReaderSteps, ReaderAlone, InCallback, CallbackReturned,
       ClientSteps, ClientAlone, OnPacket, FE!Next, FE!ClientActs, FE!Kinds
<1>2. ASSUME Propagator PROVE UNCHANGED feVars
  BY <1>2 DEF Propagator, PropagatorAlone, EnqueueCheck, Enqueue
<1>3. ASSUME NEW w \in Subscribers, WriterRuns(w) \/ WriteEnds(w) \/ SubscriberActs(w)
      PROVE  UNCHANGED feVars
  BY <1>3 DEF WriterRuns, WriteEnds, SubscriberActs
<1>4. ASSUME MainSteps PROVE FE!Next \/ UNCHANGED feVars
  BY <1>4 DEF MainSteps, StartProxy, StartBackend, StartFrontend, StartThrows,
       CatchSignals, NoticeSignal, StopFrontend, ShutdownFrontend,
       FrontendStopped, Join, StopBackend, StartReturns, Cleanup,
       DestroyBackend, ShutdownBackend, Exit, FE!Next
<1>5. ASSUME Signal \/ Terminated \/ UNCHANGED vars PROVE UNCHANGED feVars
  BY <1>5, Frames DEF Signal, Terminated
<1> QED
  BY <1>1, <1>2, <1>3, <1>4, <1>5 DEF Next, Threads

\* A packet is read only while the frontend is up, by a reader that is not in
\* the callback, and the callback is given no more than the reader has read.
LEMMA OnPacketCalls ==
    ASSUME SInv, NEW p \in Publishers, OnPacket(p)
    PROVE  PX!Callback(p)
<1>1. PX!FrontendUp
  BY ReadersNeedFrontend DEF OnPacket
<1>2. caller[p] = "idle"
  BY Readers DEF OnPacket, Handled
<1>3. made[p] < MaxPackets
  <2>1. /\ total[p] \in Nat /\ rejected[p] \in Nat /\ made[p] \in Int
        /\ MaxPackets \in Nat
    BY Readers, ServiceAssumption
  <2>2. ~(made[p] > total[p] - rejected[p]) /\ total[p] < MaxPackets
    BY DEF OnPacket, InHandler
  <2> QED
    BY <2>1, <2>2
<1> QED
  BY <1>1, <1>2, <1>3 DEF OnPacket, PX!Callback, PX!Goto, PX!queueVars, PX!workerVars

\* Shutdown() returns when no reader is in the callback.
LEMMA FrontendStoppedQuiet ==
    ASSUME SInv, FrontendStopped
    PROVE  PX!FrontendStopped
<1>1. /\ \A p \in Publishers : reader[p] \in {"idle", "done"}
      /\ phase \in {"stopping", "draining"}
  BY DEF FrontendStopped, FE!ShutdownReturns
<1>2. main \in {"stopFrontend", "unwind"}
  BY <1>1, ReadersNeedFrontend
<1>3. \A p \in Publishers : caller[p] = "idle"
  BY <1>1, Readers DEF Handled
<1> QED
  BY <1>2, <1>3 DEF FrontendStopped, PX!FrontendStopped, PX!mainFrame,
       PX!queueVars, PX!callerVars, queueVars

LEMMA ProxyKeeps == SInv /\ [Next]_vars => [PX!Next]_(PX!vars)
<1> SUFFICES ASSUME SInv, [Next]_vars PROVE PX!Next \/ UNCHANGED pxVars
  BY Frames
<1>1. ASSUME NEW p \in Publishers, ReaderSteps(p) \/ ClientSteps(p)
      PROVE  PX!Next \/ UNCHANGED pxVars
  BY <1>1, OnPacketCalls DEF ReaderSteps, ReaderAlone, InCallback,
       CallbackReturned, ClientSteps, ClientAlone, PX!Next
<1>2. ASSUME Propagator PROVE PX!Next \/ UNCHANGED pxVars
  BY <1>2 DEF Propagator, PropagatorAlone, EnqueueCheck, Enqueue, PX!Next,
       PX!Propagator
<1>3. ASSUME NEW w \in Subscribers, WriterRuns(w) \/ WriteEnds(w) \/ SubscriberActs(w)
      PROVE  UNCHANGED pxVars
  BY <1>3 DEF WriterRuns, WriteEnds, SubscriberActs
<1>4. ASSUME MainSteps PROVE PX!Next \/ UNCHANGED pxVars
  BY <1>4, FrontendStoppedQuiet DEF MainSteps, StartProxy, StartBackend,
       StartFrontend, StartThrows, CatchSignals, NoticeSignal, StopFrontend,
       ShutdownFrontend, Join, StopBackend, StartReturns, Cleanup,
       DestroyBackend, ShutdownBackend, Exit, PX!Next, PX!Stopping
<1>5. ASSUME Signal \/ Terminated \/ UNCHANGED vars PROVE UNCHANGED pxVars
  BY <1>5, Frames DEF Signal, Terminated
<1> QED
  BY <1>1, <1>2, <1>3, <1>4, <1>5 DEF Next, Threads

\* The backend is destroyed when the propagator is gone.
LEMMA DestroyedQuiet ==
    ASSUME SInv, DestroyBackend
    PROVE  BE!Destroy
<1>1. feed = "idle"
  BY Propagating DEF DestroyBackend, InDestructor
<1> QED
  BY <1>1 DEF DestroyBackend, BE!Destroy, BE!feedVars, BE!writerVars, writers

LEMMA BackendKeeps == SInv /\ [Next]_vars => [BE!Next]_(BE!vars)
<1> SUFFICES ASSUME SInv, [Next]_vars PROVE BE!Next \/ UNCHANGED beVars
  BY Frames
<1>1. ASSUME NEW p \in Publishers, ReaderSteps(p) \/ ClientSteps(p)
      PROVE  UNCHANGED beVars
  BY <1>1 DEF ReaderSteps, ReaderAlone, InCallback, CallbackReturned,
       ClientSteps, ClientAlone, OnPacket
<1>2. ASSUME Propagator PROVE BE!Next \/ UNCHANGED beVars
  BY <1>2 DEF Propagator, PropagatorAlone, EnqueueCheck, Enqueue, BE!Next
<1>3. ASSUME NEW w \in Subscribers, WriterRuns(w) \/ WriteEnds(w) \/ SubscriberActs(w)
      PROVE  BE!Next
  BY <1>3 DEF WriterRuns, WriteEnds, SubscriberActs, BE!Next, BE!Running,
       BE!WriteEnds
<1>4. ASSUME MainSteps PROVE BE!Next \/ UNCHANGED beVars
  BY <1>4, DestroyedQuiet DEF MainSteps, StartProxy, StartBackend,
       StartFrontend, StartThrows, CatchSignals, NoticeSignal, StopFrontend,
       ShutdownFrontend, FrontendStopped, Join, StopBackend, StartReturns,
       Cleanup, ShutdownBackend, Exit, BE!Next
<1>5. ASSUME Signal \/ Terminated \/ UNCHANGED vars PROVE UNCHANGED beVars
  BY <1>5, Frames DEF Signal, Terminated
<1> QED
  BY <1>1, <1>2, <1>3, <1>4, <1>5 DEF Next, Threads

-----------------------------------------------------------------------------
(* Each step keeps what holds between the components.                      *)

\* What the threads of one component leave alone.
LEMMA ReaderFrame ==
    ASSUME SInv, NEW p \in Publishers, ReaderSteps(p) \/ ClientSteps(p)
    PROVE  /\ UNCHANGED <<process, main, phase, feBound, server, writer>>
           /\ UNCHANGED <<worker, hand, relayed, feed, count>>
           /\ main = "unwind" => UNCHANGED reader
<1>1. UNCHANGED beVars /\ UNCHANGED processVars
  BY DEF ReaderSteps, ReaderAlone, InCallback, CallbackReturned, ClientSteps,
         ClientAlone, OnPacket
<1>2. UNCHANGED <<main, worker, hand, relayed>>
  BY DEF ReaderSteps, ReaderAlone, InCallback, CallbackReturned, ClientSteps,
         ClientAlone, OnPacket, PX!InCallback, PX!Measure, PX!Evict, PX!Push,
         PX!workerVars, pxVars, queueVars
<1>3. /\ UNCHANGED <<phase, feBound>>
      /\ UNCHANGED reader
         \/ (FE!Publish(p) \/ FE!CheckLimit(p) \/ FE!Count(p) \/ FE!Begin(p)
             \/ FE!OnDone(p) \/ FE!Leave(p) \/ FE!EndOfStream(p)
             \/ \E kind \in FE!Kinds : FE!ReadPacket(p, kind))
  BY DEF ReaderSteps, ReaderAlone, InCallback, CallbackReturned, ClientSteps,
         ClientAlone, OnPacket, feVars, readers, FE!Constructing, FE!Ending,
         FE!Publish, FE!CheckLimit, FE!Count, FE!Begin, FE!OnDone, FE!Leave,
         FE!EndOfStream, FE!ReadPacket, FE!Kinds, FE!server
<1>4. ASSUME main = "unwind" PROVE ~feBound /\ reader[p] = "idle"
  BY <1>4 DEF SInv, Joint, FrontendStage
<1>5. ASSUME main = "unwind" PROVE UNCHANGED reader
  BY <1>3, <1>4, <1>5 DEF FE!Publish, FE!CheckLimit, FE!Count, FE!Begin,
       FE!OnDone, FE!Leave, FE!EndOfStream, FE!ReadPacket
<1> QED
  BY <1>1, <1>2, <1>3, <1>5 DEF beVars, writers, processVars

LEMMA PropagatorFrame ==
    ASSUME Propagator
    PROVE  /\ UNCHANGED <<process, interrupted, feVars>>
           /\ UNCHANGED <<main, made, caller, server, writer>>
<1>1. UNCHANGED processVars /\ UNCHANGED feVars
  BY DEF Propagator, PropagatorAlone, EnqueueCheck, Enqueue
<1>2. UNCHANGED <<main, made, caller>>
  BY DEF Propagator, PropagatorAlone, EnqueueCheck, Enqueue, PX!WorkerTop,
         PX!WorkerPop, PX!WorkerJudge, PX!WorkerSend, PX!callerVars, pxVars,
         queueVars
<1>3. UNCHANGED <<server, writer>>
  BY DEF Propagator, PropagatorAlone, EnqueueCheck, Enqueue, BE!EnqueueCheck,
         BE!Enqueue, BE!serverVars, BE!writerVars, beVars, writers
<1> QED
  BY <1>1, <1>2, <1>3 DEF processVars

LEMMA SubscriberFrame ==
    ASSUME SInv, NEW w \in Subscribers,
           WriterRuns(w) \/ WriteEnds(w) \/ SubscriberActs(w)
    PROVE  /\ UNCHANGED <<processVars, feVars, pxVars, server, feed, count>>
           /\ server = "down" => UNCHANGED writer
<1>1. UNCHANGED <<processVars, feVars, pxVars>>
  BY DEF WriterRuns, WriteEnds, SubscriberActs
<1>2. /\ UNCHANGED <<server, feed, count>>
      /\ \/ UNCHANGED writer
         \/ BE!Listening
         \/ writer[w] \notin {"idle", "done"}
         \/ pending[w] # {}
  BY DEF WriterRuns, WriteEnds, SubscriberActs, BE!Running, BE!WriteEnds,
         BE!Constructor, BE!PumpSteps, BE!FinishSteps, BE!Connect,
         BE!CheckLimit, BE!SubscribeCheck, BE!Insert, BE!Pump, BE!Fetch,
         BE!Dequeue, BE!AlarmFires, BE!WriteSucceeds, BE!WriteFails, BE!Cancel,
         BE!FinishUp, BE!Erase, BE!OnDone, BE!serverVars, BE!feedVars
<1>3. ASSUME server = "down" PROVE UNCHANGED writer
  <2>1. writer[w] \in {"idle", "done"}
    BY <1>3 DEF SInv, Joint, ServerGone
  <2>2. pending[w] = {}
    BY <2>1 DEF SInv, BP!IInv, BP!OneContinuation
  <2>3. ~BE!Listening
    BY <1>3 DEF BE!Listening
  <2> QED
    BY <1>2, <2>1, <2>2, <2>3
<1> QED
  BY <1>1, <1>2, <1>3

\* The main thread's steps touch the flags and the stages, and no packet.
LEMMA MainFrameKept ==
    ASSUME MainSteps
    PROVE  /\ UNCHANGED <<reader, total, rejected, made, caller, hand, relayed>>
           /\ UNCHANGED <<feed, count, writer>>
<1>1. UNCHANGED <<reader, total, rejected>>
  BY DEF MainSteps, StartProxy, StartBackend, StartFrontend, StartThrows,
       CatchSignals, NoticeSignal, StopFrontend, ShutdownFrontend,
       FrontendStopped, Join, StopBackend, StartReturns, Cleanup,
       DestroyBackend, ShutdownBackend, Exit, feVars, readers, FE!Start,
       FE!Stop, FE!Shutdown, FE!ShutdownReturns, FE!readers, FE!tallies
<1>2. UNCHANGED <<made, caller, hand, relayed>>
  BY DEF MainSteps, StartProxy, StartBackend, StartFrontend, StartThrows,
       CatchSignals, NoticeSignal, StopFrontend, ShutdownFrontend,
       FrontendStopped, Join, StopBackend, StartReturns, Cleanup,
       DestroyBackend, ShutdownBackend, Exit, pxVars, queueVars, PX!Start,
       PX!StartBackend, PX!StartFrontend, PX!StartThrows, PX!Stop, PX!Join,
       PX!StopBackend, PX!mainFrame, PX!callerVars
<1>3. UNCHANGED <<feed, count, writer>>
  BY DEF MainSteps, StartProxy, StartBackend, StartFrontend, StartThrows,
       CatchSignals, NoticeSignal, StopFrontend, ShutdownFrontend,
       FrontendStopped, Join, StopBackend, StartReturns, Cleanup,
       DestroyBackend, ShutdownBackend, Exit, beVars, writers, BE!Start,
       BE!Stop, BE!StopManager, BE!UnsubscribeAll, BE!BeginShutdown,
       BE!ShutdownDeadline, BE!ShutdownReturns, BE!feedVars, BE!writerVars
<1> QED
  BY <1>1, <1>2, <1>3

LEMMA FrontendStageKept == SInv /\ [Next]_vars => FrontendStage'
<1> SUFFICES ASSUME SInv, [Next]_vars PROVE FrontendStage'
  OBVIOUS
<1> USE DEF FrontendStage
<1>1. FrontendStage
  BY DEF SInv, Joint
<1>2. ASSUME NEW p \in Publishers, ReaderSteps(p) \/ ClientSteps(p)
      PROVE  FrontendStage'
  BY <1>1, <1>2, ReaderFrame
<1>3. ASSUME UNCHANGED <<main, phase, feBound, reader>> PROVE FrontendStage'
  BY <1>1, <1>3
<1>4. ASSUME MainSteps PROVE FrontendStage'
  <2>1. UNCHANGED reader
    BY <1>4, MainFrameKept
  <2>2. main \in PX!MainStates
    BY ReadersNeedFrontend
  <2>3. CASE StartProxy \/ StartBackend \/ Join \/ StopBackend
    <3>1. UNCHANGED <<phase, feBound>>
      BY <2>3 DEF StartProxy, StartBackend, Join, StopBackend, feVars
    <3>2. \/ main = "created" /\ main' = "startBackend"
          \/ main = "startBackend" /\ main' = "startFrontend"
          \/ main = "join" /\ main' = "stopBackend"
          \/ main = "stopBackend" /\ main' \in {"stopBackend", "stopped"}
      BY <2>3 DEF StartProxy, StartBackend, Join, StopBackend, PX!Start,
           PX!StartBackend, PX!Join, PX!StopBackend, pxVars
    <3> QED
      BY <1>1, <2>1, <3>1, <3>2
  <2>4. CASE StartThrows
    BY <1>1, <2>1, <2>4, ReadersNeedFrontend
    DEF StartThrows, PX!StartThrows, feVars, SInv, FP!FInv, FP!NoReaderOutside
  <2>5. CASE StartFrontend
    BY <1>1, <2>1, <2>5 DEF StartFrontend, PX!StartFrontend, FE!Start
  <2>6. CASE StopFrontend
    <3>1. /\ phase' = "stopping" /\ UNCHANGED feBound
          /\ \/ main = "started" /\ main' = "stopFrontend"
             \/ main = "unwind" /\ main' = "unwind"
      BY <2>6 DEF StopFrontend, FE!Stop, PX!Stop, pxVars
    <3> QED
      BY <1>1, <2>1, <3>1
  <2>7. CASE ShutdownFrontend
    <3>1. /\ phase = "stopping" /\ phase' = "draining" /\ feBound
          /\ UNCHANGED <<main, feBound>>
      BY <2>7 DEF ShutdownFrontend, FE!Shutdown, pxVars
    <3>2. main = "stopFrontend"
      BY <1>1, <3>1, ReadersNeedFrontend
    <3> QED
      BY <3>1, <3>2
  <2>8. CASE FrontendStopped
    BY <2>8 DEF FrontendStopped, FE!ShutdownReturns
  <2>9. CASE \/ CatchSignals \/ NoticeSignal \/ StartReturns \/ Cleanup
             \/ DestroyBackend \/ ShutdownBackend \/ Exit
    BY <1>3, <2>1, <2>9 DEF CatchSignals, NoticeSignal, StartReturns, Cleanup,
         DestroyBackend, ShutdownBackend, Exit, pxVars, feVars
  <2> QED
    BY <1>4, <2>3, <2>4, <2>5, <2>6, <2>7, <2>8, <2>9 DEF MainSteps
<1>5. ASSUME Propagator PROVE FrontendStage'
  BY <1>3, <1>5, PropagatorFrame DEF feVars, readers
<1>6. ASSUME NEW w \in Subscribers, WriterRuns(w) \/ WriteEnds(w) \/ SubscriberActs(w)
      PROVE  FrontendStage'
  BY <1>3, <1>6, SubscriberFrame DEF feVars, pxVars, readers
<1>7. ASSUME Signal \/ Terminated \/ UNCHANGED vars PROVE FrontendStage'
  BY <1>3, <1>7 DEF Signal, Terminated, vars, feVars, pxVars, readers
<1> QED
  BY <1>2, <1>4, <1>5, <1>6, <1>7 DEF Next, Threads

LEMMA BackendStageKept == SInv /\ [Next]_vars => BackendStage'
<1> SUFFICES ASSUME SInv, [Next]_vars PROVE BackendStage'
  OBVIOUS
<1> USE DEF BackendStage
<1>1. BackendStage
  BY DEF SInv, Joint
<1>2. ASSUME UNCHANGED <<main, server>> PROVE BackendStage'
  BY <1>1, <1>2
<1>3. ASSUME NEW p \in Publishers, ReaderSteps(p) \/ ClientSteps(p)
      PROVE  BackendStage'
  BY <1>2, <1>3, ReaderFrame
<1>4. ASSUME MainSteps PROVE BackendStage'
  <2>1. CASE StartProxy \/ StartFrontend \/ StartThrows \/ FrontendStopped \/ Join
    <3>1. UNCHANGED server
      BY <2>1 DEF StartProxy, StartFrontend, StartThrows, FrontendStopped, Join,
           beVars
    <3>2. \/ main = "created" /\ main' = "startBackend"
          \/ main = "startFrontend" /\ main' = "started"
          \/ main \in {"startBackend", "startFrontend"} /\ main' = "unwind"
          \/ main \in {"stopFrontend", "unwind"} /\ main' = "join"
          \/ main = "join" /\ main' = "stopBackend"
      BY <2>1, FrontendStoppedQuiet DEF StartProxy, StartFrontend, StartThrows,
           Join, PX!Start, PX!StartFrontend, PX!StartThrows,
           PX!FrontendStopped, PX!Join
    <3> QED
      BY <1>1, <3>1, <3>2
  <2>2. CASE StartBackend
    BY <2>2 DEF StartBackend, PX!StartBackend, BE!Start
  <2>3. CASE StopFrontend
    <3>1. /\ UNCHANGED server
          /\ \/ main = "started" /\ main' = "stopFrontend"
             \/ main = "unwind" /\ main' = "unwind"
      BY <2>3 DEF StopFrontend, PX!Stop, pxVars, beVars
    <3> QED
      BY <1>1, <3>1
  <2>4. CASE StopBackend
    <3>1. /\ main = "stopBackend"
          /\ \/ main' = main /\ server' \in {"stopping", "purging"}
             \/ main' = "stopped" /\ server' = "stopped"
      BY <2>4 DEF StopBackend, BE!Stop, BE!StopManager, BE!UnsubscribeAll,
           PX!StopBackend, pxVars
    <3> QED
      BY <3>1
  <2>5. CASE DestroyBackend \/ ShutdownBackend
    <3>1. /\ main = "stopped" /\ UNCHANGED main
          /\ server' \in {"destroying", "draining", "cancelling", "down"}
      BY <2>5 DEF DestroyBackend, ShutdownBackend, InDestructor, pxVars,
           BE!BeginShutdown, BE!ShutdownDeadline, BE!ShutdownReturns
    <3> QED
      BY <3>1
  <2>6. CASE \/ CatchSignals \/ NoticeSignal \/ ShutdownFrontend
             \/ StartReturns \/ Cleanup \/ Exit
    BY <1>2, <2>6 DEF CatchSignals, NoticeSignal, ShutdownFrontend,
         StartReturns, Cleanup, Exit, pxVars, beVars
  <2> QED
    BY <1>4, <2>1, <2>2, <2>3, <2>4, <2>5, <2>6 DEF MainSteps
<1>5. ASSUME Propagator PROVE BackendStage'
  BY <1>2, <1>5, PropagatorFrame
<1>6. ASSUME NEW w \in Subscribers, WriterRuns(w) \/ WriteEnds(w) \/ SubscriberActs(w)
      PROVE  BackendStage'
  BY <1>2, <1>6, SubscriberFrame DEF pxVars
<1>7. ASSUME Signal \/ Terminated \/ UNCHANGED vars PROVE BackendStage'
  BY <1>2, <1>7 DEF Signal, Terminated, vars, beVars, pxVars
<1> QED
  BY <1>3, <1>4, <1>5, <1>6, <1>7 DEF Next, Threads

\* The server is down for good, and main() returns only then.
LEMMA ServerGoneKept == SInv /\ [Next]_vars => ServerGone'
<1> SUFFICES ASSUME SInv, [Next]_vars PROVE ServerGone'
  OBVIOUS
<1> USE DEF ServerGone
<1>1. ServerGone /\ BackendStage
  BY DEF SInv, Joint
<1>2. ASSUME UNCHANGED <<process, server, writer>> PROVE ServerGone'
  BY <1>1, <1>2
<1>3. ASSUME NEW p \in Publishers, ReaderSteps(p) \/ ClientSteps(p)
      PROVE  ServerGone'
  BY <1>2, <1>3, ReaderFrame
<1>4. ASSUME ~Ended, MainSteps PROVE ServerGone'
  <2>1. UNCHANGED writer
    BY <1>4, MainFrameKept
  <2>2. process \notin {"exited", "failed"}
    BY <1>4 DEF Ended
  <2>3. CASE Exit
    BY <1>1, <2>1, <2>3 DEF Exit, beVars
  <2>4. CASE ShutdownBackend
    <3>1. /\ UNCHANGED process
          /\ server' = "down" =>
               \A w \in Subscribers : writer[w] \in {"idle", "done"}
      BY <2>4 DEF ShutdownBackend, BE!BeginShutdown, BE!ShutdownDeadline,
           BE!ShutdownReturns, processVars
    <3> QED
      BY <2>1, <2>2, <3>1
  <2>5. CASE StartBackend \/ StopBackend \/ DestroyBackend
    <3>1. UNCHANGED process /\ server' # "down"
      BY <2>5 DEF StartBackend, StopBackend, DestroyBackend, BE!Start, BE!Stop,
           BE!StopManager, BE!UnsubscribeAll, processVars
    <3> QED
      BY <2>2, <3>1
  <2>6. CASE \/ StartProxy \/ StartFrontend \/ StartThrows \/ CatchSignals
             \/ NoticeSignal \/ StopFrontend \/ ShutdownFrontend
             \/ FrontendStopped \/ Join \/ StartReturns \/ Cleanup
    <3>1. UNCHANGED server /\ process' \notin {"exited", "failed"}
      BY <2>2, <2>6 DEF StartProxy, StartFrontend, StartThrows, CatchSignals,
           NoticeSignal, StopFrontend, ShutdownFrontend, FrontendStopped, Join,
           StartReturns, Cleanup, Main, processVars, beVars
    <3> QED
      BY <1>1, <2>1, <3>1
  <2> QED
    BY <1>4, <2>3, <2>4, <2>5, <2>6 DEF MainSteps
<1>5. ASSUME Propagator PROVE ServerGone'
  BY <1>2, <1>5, PropagatorFrame
<1>6. ASSUME NEW w \in Subscribers, WriterRuns(w) \/ WriteEnds(w) \/ SubscriberActs(w)
      PROVE  ServerGone'
  <2>1. UNCHANGED <<process, server>> /\ (server = "down" => UNCHANGED writer)
    BY <1>6, SubscriberFrame DEF processVars
  <2> QED
    BY <1>1, <2>1
<1>7. CASE Signal
  BY <1>1, <1>7 DEF Signal, beVars, writers
<1>8. CASE Terminated \/ UNCHANGED vars
  BY <1>2, <1>8 DEF Terminated, vars, processVars, beVars, writers
<1> QED
  BY <1>3, <1>4, <1>5, <1>6, <1>7, <1>8 DEF Next, Threads

\* The providers are reset behind Proxy::stop, which returns once.
LEMMA ProvidersStageKept == SInv /\ [Next]_vars => ProvidersStage'
<1> SUFFICES ASSUME SInv, [Next]_vars PROVE ProvidersStage'
  OBVIOUS
<1> USE DEF ProvidersStage
<1>1. ProvidersStage /\ ServerGone /\ BackendStage /\ main \in PX!MainStates
  BY DEF SInv, Joint, PP!PInv, PP!TypeOK, PP!MainStates, PX!MainStates
<1>2. ASSUME UNCHANGED <<process, providers, main, server, beKeepRunning>>
      PROVE  ProvidersStage'
  BY <1>1, <1>2
<1>3. ASSUME ~Ended, MainSteps PROVE ProvidersStage'
  <2>1. CASE StartProxy \/ StartBackend \/ StartFrontend \/ StartThrows
    BY <1>1, <2>1 DEF StartProxy, StartBackend, StartFrontend, StartThrows,
       Main, MainFrame, PX!Start, PX!StartBackend, PX!StartFrontend,
       PX!StartThrows, BE!Start, beVars, processVars
  <2>2. CASE CatchSignals \/ NoticeSignal \/ StartReturns \/ Cleanup
    BY <1>1, <2>2 DEF CatchSignals, NoticeSignal, StartReturns, Cleanup, Main,
       MainFrame, pxVars, beVars
  <2>3. CASE StopFrontend \/ ShutdownFrontend \/ FrontendStopped \/ Join
    <3>1. /\ UNCHANGED <<process, providers, server, beKeepRunning>>
          /\ main = "stopped" => UNCHANGED main
      BY <2>3, ReadersNeedFrontend DEF StopFrontend, ShutdownFrontend,
         FrontendStopped, Join, FE!ShutdownReturns, PX!Stop, PX!Join, pxVars,
         processVars, beVars
    <3> QED
      BY <1>1, <3>1
  <2>4. CASE StopBackend
    BY <1>1, <2>4 DEF StopBackend, BE!Stop, BE!StopManager, BE!UnsubscribeAll,
       PX!StopBackend, pxVars, processVars
  <2>5. CASE DestroyBackend \/ ShutdownBackend
    BY <1>1, <2>5 DEF DestroyBackend, ShutdownBackend, BE!BeginShutdown,
       BE!ShutdownDeadline, BE!ShutdownReturns, pxVars, processVars
  <2>6. CASE Exit
    BY <1>1, <2>6 DEF Exit, Main, BackendStage, PX!MainStates, pxVars, beVars
  <2> QED
    BY <1>3, <2>1, <2>2, <2>3, <2>4, <2>5, <2>6 DEF MainSteps
<1>4. ASSUME NEW p \in Publishers, ReaderSteps(p) \/ ClientSteps(p)
      PROVE  UNCHANGED <<process, providers, main, server, beKeepRunning>>
  BY <1>4 DEF ReaderSteps, ClientSteps, ReaderAlone, ClientAlone, OnPacket,
     InCallback, CallbackReturned, PX!InCallback, PX!Measure, PX!Evict,
     PX!Push, processVars, pxVars, beVars
<1>5. ASSUME Propagator
      PROVE  UNCHANGED <<process, providers, main, server, beKeepRunning>>
  BY <1>5 DEF Propagator, PropagatorAlone, EnqueueCheck, Enqueue,
     PX!WorkerTop, PX!WorkerPop, PX!WorkerJudge, PX!WorkerSend,
     BE!EnqueueCheck, BE!Enqueue, BE!serverVars, processVars, pxVars, beVars
<1>6. ASSUME NEW w \in Subscribers, WriterRuns(w) \/ WriteEnds(w) \/ SubscriberActs(w)
      PROVE  UNCHANGED <<process, providers, main, server, beKeepRunning>>
  <2>1. UNCHANGED beKeepRunning
    BY <1>6 DEF WriterRuns, WriteEnds, SubscriberActs, BE!Running, BE!WriteEnds,
       BE!Constructor, BE!PumpSteps, BE!FinishSteps, BE!Connect,
       BE!CheckLimit, BE!SubscribeCheck, BE!Insert, BE!Pump, BE!Fetch,
       BE!Dequeue, BE!AlarmFires, BE!WriteSucceeds, BE!WriteFails, BE!Cancel,
       BE!FinishUp, BE!Erase, BE!OnDone, BE!serverVars
  <2> QED
    BY <1>6, <2>1, SubscriberFrame DEF processVars, pxVars
<1>7. CASE Signal
  BY <1>1, <1>7 DEF Signal, pxVars, beVars
<1>8. CASE Terminated \/ UNCHANGED vars
  BY <1>2, <1>8 DEF Terminated, vars, processVars, pxVars, beVars
<1> QED
  BY <1>2, <1>3, <1>4, <1>5, <1>6, <1>7, <1>8 DEF Next, Threads

\* A step of a reader, in what its count of packets and the callback's agree
\* on: it reads or is called back with what it has counted before, and counts
\* what the callback has been given once it has returned.
LEMMA HandledStep ==
    ASSUME SInv, NEW p \in Publishers, ReaderSteps(p) \/ ClientSteps(p),
           NEW q \in Publishers
    PROVE  Handled(q)'
<1> DEFINE Only(f, g) == \A r \in Publishers \ {p} : f[r] = g[r]
<1>1. /\ total \in [Publishers -> Nat] /\ rejected \in [Publishers -> Nat]
      /\ made \in [Publishers -> Int]
      /\ reader \in [Publishers -> FE!Places]
      /\ caller \in [Publishers -> PX!CallerStates]
      /\ Handled(p) /\ Handled(q)
  BY Readers
<1>2. /\ total[p] \in Nat /\ rejected[p] \in Nat /\ made[p] \in Int
  BY <1>1
<1>3. CASE \/ ReaderAlone(p)
           \/ ClientAlone(p) /\ (FE!Publish(p) \/ FE!EndOfStream(p))
  <2>1. UNCHANGED <<total, rejected, made, caller>>
    BY <1>3 DEF ReaderAlone, ClientAlone, FE!Constructing, FE!Ending,
         FE!Publish, FE!CheckLimit, FE!Count, FE!Begin, FE!OnDone, FE!Leave,
         FE!EndOfStream, FE!tallies, pxVars, queueVars
  <2>2. /\ ~InHandler(p)
        /\ reader' \in [Publishers -> FE!Places] /\ Only(reader', reader)
    BY <1>1, <1>3 DEF ReaderAlone, ClientAlone, FE!Constructing, FE!Ending,
         FE!Publish, FE!CheckLimit, FE!Count, FE!Begin, FE!OnDone, FE!Leave,
         FE!EndOfStream, FE!Goto, FE!Finish, FE!Places, Handled
  <2> QED
    BY <1>1, <2>1, <2>2 DEF Handled, InHandler
<1>4. CASE InCallback(p)
  <2>1. /\ UNCHANGED <<reader, total, rejected, made>>
        /\ caller[p] # "idle" /\ Only(caller', caller)
    BY <1>1, <1>4 DEF InCallback, PX!InCallback, PX!Measure, PX!Evict,
         PX!Push, PX!Goto, feVars, readers
  <2> QED
    BY <1>1, <2>1 DEF Handled, InHandler
<1>5. CASE OnPacket(p)
  <2>1. /\ UNCHANGED <<reader, total, rejected>>
        /\ reader[p] = "reading" /\ ~InHandler(p)
        /\ made'[p] = made[p] + 1 /\ Only(made', made) /\ Only(caller', caller)
    BY <1>1, <1>5 DEF OnPacket, feVars, readers
  <2>2. ~(made[p] > total[p] - rejected[p])
    BY <2>1 DEF InHandler
  <2>3. made[p] = total[p] - rejected[p]
    BY <1>1, <1>2, <2>2 DEF Handled
  <2> QED
    BY <1>1, <1>2, <2>1, <2>3 DEF Handled, InHandler
<1>6. CASE CallbackReturned(p)
  <2>1. /\ UNCHANGED <<made, caller>> /\ InHandler(p) /\ caller[p] = "idle"
        /\ total'[p] = total[p] + 1 /\ rejected'[p] = rejected[p]
        /\ Only(total', total) /\ Only(rejected', rejected)
        /\ Only(reader', reader)
    BY <1>1, <1>6 DEF CallbackReturned, FE!ReadPacket, FE!Tally, FE!Goto,
         FE!Finish, pxVars, queueVars
  <2>2. made[p] > total[p] - rejected[p]
    BY <2>1 DEF InHandler
  <2>3. made[p] = total[p] - rejected[p] + 1
    BY <1>1, <1>2, <2>2 DEF Handled
  <2>4. CASE q = p
    <3>1. made[p] - (total'[p] - rejected'[p]) = 0
      BY <1>2, <2>1, <2>3
    <3>2. ~(made[p] > total'[p] - rejected'[p])
      BY <1>2, <2>1, <2>3
    <3> QED
      BY <2>1, <2>4, <3>1, <3>2 DEF Handled, InHandler
  <2>5. CASE q # p
    BY <1>1, <2>1, <2>5 DEF Handled, InHandler
  <2> QED
    BY <2>4, <2>5
<1>7. CASE ClientAlone(p) /\ FE!ReadPacket(p, "invalid")
  <2>1. /\ UNCHANGED <<made, caller>> /\ ~InHandler(p)
        /\ total'[p] = total[p] + 1 /\ rejected'[p] = rejected[p] + 1
        /\ Only(total', total) /\ Only(rejected', rejected)
        /\ Only(reader', reader)
    BY <1>1, <1>7 DEF ClientAlone, FE!ReadPacket, FE!Tally, FE!Goto,
         FE!Finish, pxVars, queueVars
  <2>2. ~(made[p] > total[p] - rejected[p])
    BY <2>1 DEF InHandler
  <2> QED
    BY <1>1, <1>2, <2>1, <2>2 DEF Handled, InHandler
<1> QED
  BY <1>3, <1>4, <1>5, <1>6, <1>7 DEF ReaderSteps, ClientSteps, ClientAlone

LEMMA HandledKept ==
    SInv /\ [Next]_vars => (\A q \in Publishers : Handled(q))'
<1> SUFFICES ASSUME SInv, [Next]_vars, NEW q \in Publishers PROVE Handled(q)'
  OBVIOUS
<1>1. ASSUME UNCHANGED <<reader, total, rejected, made, caller>>
      PROVE  Handled(q)'
  <2>1. Handled(q)
    BY Readers
  <2> QED
    BY <1>1, <2>1 DEF Handled, InHandler
<1>2. ASSUME NEW p \in Publishers, ReaderSteps(p) \/ ClientSteps(p)
      PROVE  Handled(q)'
  BY <1>2, HandledStep
<1>3. ASSUME MainSteps PROVE Handled(q)'
  BY <1>1, <1>3, MainFrameKept
<1>4. ASSUME Propagator PROVE Handled(q)'
  BY <1>1, <1>4, PropagatorFrame DEF feVars, readers
<1>5. ASSUME NEW w \in Subscribers, WriterRuns(w) \/ WriteEnds(w) \/ SubscriberActs(w)
      PROVE  Handled(q)'
  BY <1>1, <1>5, SubscriberFrame DEF feVars, readers, pxVars, queueVars
<1>6. ASSUME Signal \/ Terminated \/ UNCHANGED vars PROVE Handled(q)'
  BY <1>1, <1>6 DEF Signal, Terminated, vars, feVars, readers, pxVars, queueVars
<1> QED
  BY <1>2, <1>3, <1>4, <1>5, <1>6 DEF Next, Threads

\* What the propagator relays makes the sequence one longer.
LEMMA OneLong ==
    ASSUME NEW S, NEW s \in Seq(S), NEW r \in Seq(S), Len(s) <= 1, s # <<>>
    PROVE  Len(r \o s) = Len(r) + 1
<1>1. Len(s) \in Nat \ {0}
  BY EmptySeq
<1> QED
  BY <1>1, ConcatProperties

\* The propagator offers the packet in its hand to the manager, which takes it.
LEMMA FeedStep ==
    ASSUME SInv, Propagator
    PROVE  FeedIsSend' /\ NoneTurnedAway'
<1> USE DEF FeedIsSend, NoneTurnedAway
<1>1. FeedIsSend /\ NoneTurnedAway /\ feed \in {"idle", "enqueue"}
  BY Propagating DEF SInv, Joint
<1>2. CASE PropagatorAlone
  BY <1>1, <1>2 DEF PropagatorAlone, PX!WorkerTop, PX!WorkerPop, PX!WorkerJudge,
       beVars, writers
<1>3. CASE EnqueueCheck
  <2>1. managerRunning
    BY <1>3, Propagating DEF EnqueueCheck
  <2> QED
    BY <1>1, <1>3, <2>1 DEF EnqueueCheck, BE!EnqueueCheck, pxVars, queueVars
<1>4. CASE Enqueue
  <2>1. worker = "send" /\ relayed' = relayed \o hand
        /\ feed' = "idle" /\ count' = count + 1
    BY <1>4 DEF Enqueue, PX!WorkerSend, BE!Enqueue
  <2>2. /\ relayed \in Seq(PP!Packet) /\ hand \in Seq(PP!Packet)
        /\ Len(hand) <= 1 /\ hand # <<>>
    BY <2>1, Propagating
  <2>3. Len(relayed \o hand) = Len(relayed) + 1
    BY <2>2, OneLong
  <2> QED
    BY <1>1, <2>1, <2>3
<1> QED
  BY <1>2, <1>3, <1>4 DEF Propagator

LEMMA FeedKept == SInv /\ [Next]_vars => FeedIsSend' /\ NoneTurnedAway'
<1> SUFFICES ASSUME SInv, [Next]_vars PROVE FeedIsSend' /\ NoneTurnedAway'
  OBVIOUS
<1>1. FeedIsSend /\ NoneTurnedAway
  BY DEF SInv, Joint
<1>2. ASSUME UNCHANGED <<worker, relayed, feed, count>>
      PROVE  FeedIsSend' /\ NoneTurnedAway'
  BY <1>1, <1>2 DEF FeedIsSend, NoneTurnedAway
<1>3. ASSUME NEW p \in Publishers, ReaderSteps(p) \/ ClientSteps(p)
      PROVE  FeedIsSend' /\ NoneTurnedAway'
  BY <1>2, <1>3, ReaderFrame
<1>4. ASSUME MainSteps PROVE FeedIsSend' /\ NoneTurnedAway'
  <2>1. UNCHANGED <<relayed, feed, count>>
    BY <1>4, MainFrameKept
  <2>2. UNCHANGED worker \/ worker = "none"
    BY <1>4, Propagating DEF MainSteps, StartProxy, StartBackend, StartFrontend,
         StartThrows, CatchSignals, NoticeSignal, StopFrontend,
         ShutdownFrontend, FrontendStopped, Join, StopBackend, StartReturns,
         Cleanup, DestroyBackend, ShutdownBackend, Exit, pxVars, PX!Start,
         PX!StartBackend, PX!StartFrontend, PX!StartThrows, PX!Stop, PX!Join,
         PX!StopBackend
  <2> QED
    BY <1>1, <2>1, <2>2 DEF FeedIsSend, NoneTurnedAway
<1>5. ASSUME NEW w \in Subscribers, WriterRuns(w) \/ WriteEnds(w) \/ SubscriberActs(w)
      PROVE  FeedIsSend' /\ NoneTurnedAway'
  BY <1>2, <1>5, SubscriberFrame DEF pxVars, queueVars
<1>6. ASSUME Signal \/ Terminated \/ UNCHANGED vars
      PROVE  FeedIsSend' /\ NoneTurnedAway'
  BY <1>2, <1>6 DEF Signal, Terminated, vars, pxVars, queueVars, beVars, writers
<1> QED
  BY <1>3, <1>4, <1>5, <1>6, FeedStep DEF Next, Threads

-----------------------------------------------------------------------------
(* The theorems.                                                           *)

LEMMA Initially == Init => SInv
<1> SUFFICES ASSUME Init PROVE SInv
  OBVIOUS
<1>1. FP!Init /\ PP!Init /\ BP!Init
  BY FrontendInit, ProxyInit, BackendInit DEF Init
<1>2. FP!FInv /\ PP!PInv /\ BP!IInv /\ BP!OrderInv
  BY <1>1, Constants, FP!Initially, PP!Initially, BP!InitIInv, BP!OrderInit
<1>3. FrontendStage /\ BackendStage /\ ServerGone /\ ProvidersStage /\ FeedIsSend
  BY DEF Init, FE!Init, PX!Init, BE!Init, FrontendStage, BackendStage,
         ServerGone, ProvidersStage, FeedIsSend
<1>4. ASSUME NEW p \in Publishers PROVE Handled(p)
  BY DEF Init, FE!Init, PX!Init, Handled, InHandler
<1>5. NoneTurnedAway
  BY EmptySeq DEF Init, PX!Init, BE!Init, NoneTurnedAway
<1> QED
  BY <1>2, <1>3, <1>4, <1>5 DEF SInv, Joint

LEMMA Inductive == SInv /\ [Next]_vars => SInv'
<1> SUFFICES ASSUME SInv, [Next]_vars PROVE SInv'
  OBVIOUS
<1>1. FP!FInv'
  BY FrontendKeeps, FrontendStep, Constants, FP!Inductive DEF SInv
<1>2. PP!PInv'
  BY ProxyKeeps, ProxyStep, Constants, PP!Inductive DEF SInv
<1>3. BP!IInv' /\ BP!OrderInv'
  BY BackendKeeps, BackendStep, Constants, BP!NextIInv, BP!OrderStep DEF SInv
<1>4. Joint'
  BY FrontendStageKept, BackendStageKept, ServerGoneKept, ProvidersStageKept,
     HandledKept, FeedKept
  DEF Joint
<1> QED
  BY <1>1, <1>2, <1>3, <1>4 DEF SInv

\* The invariants of the frontend, the proxy and the backend and what holds
\* between them, in every state of the process.
THEOREM Invariance == Spec => []SInv
BY Initially, Inductive, PTL DEF Spec

\* Every step of the process is one of the frontend or leaves it alone.
LEMMA FrontendAlone == Spec => FE!Spec
<1>1. Init => FE!Init
  BY DEF Init
<1> QED
  BY <1>1, FrontendKeeps, PTL DEF Spec, FE!Spec

\* Proxy::stop waits for the callbacks and the propagator as module Proxy
\* assumes: a packet comes only from a reader that is open and not in the
\* callback, and Shutdown() of the frontend leaves none in it, also when a
\* start() threw.
THEOREM ProxyAsAssumed == Spec => ProxySpec
<1>1. Init => PX!Init
  BY DEF Init
<1> QED
  BY <1>1, Invariance, ProxyKeeps, PTL DEF Spec, ProxySpec, PX!Spec

\* The backend is started, stopped and destroyed as module Backend assumes:
\* the propagator is not in enqueuePacket when the destructor runs.
THEOREM BackendAsAssumed == Spec => BackendSpec
<1>1. Init => BE!Init
  BY DEF Init
<1> QED
  BY <1>1, Invariance, BackendKeeps, PTL DEF Spec, BackendSpec, BE!Spec

\* The manager takes every packet the propagator gives it, from the first
\* moment of start() to the last of stop().
THEOREM EveryPacketIsEnqueued == Spec => []NoneTurnedAway
<1>1. SInv => NoneTurnedAway
  BY DEF SInv, Joint
<1> QED
  BY <1>1, Invariance, PTL

\* main() leaves no callback, no propagator and no pump behind, whichever way
\* it goes.
THEOREM ExitLeavesNothing == Spec => []ExitIsOrderly
<1>1. SInv => ExitIsOrderly
  <2> SUFFICES ASSUME SInv, process \in {"exited", "failed"}
               PROVE  /\ \A p \in Publishers : /\ reader[p] \in {"idle", "done"}
                                               /\ caller[p] = "idle"
                      /\ worker = "exited"
                      /\ \A w \in Subscribers : writer[w] \in {"idle", "done"}
    BY DEF ExitIsOrderly
  <2>1. ServerGone /\ BackendStage
    BY DEF SInv, Joint
  <2>2. /\ server = "down"
        /\ \A w \in Subscribers : writer[w] \in {"idle", "done"}
    BY <2>1 DEF ServerGone
  <2>3. main = "stopped"
    BY <2>1, <2>2, ReadersNeedFrontend DEF BackendStage, PX!MainStates
  <2>4. worker = "exited"
    BY <2>3, Propagating
  <2>5. \A p \in Publishers : reader[p] \in {"idle", "done"}
    BY <2>3, ReadersNeedFrontend
  <2>6. \A p \in Publishers : caller[p] = "idle"
    BY <2>5, Readers DEF Handled
  <2> QED
    BY <2>2, <2>4, <2>5, <2>6
<1> QED
  BY <1>1, Invariance, PTL

\* Nothing that still works in the process outlives its telemetry: what remains
\* are pumps that have been told to end.
THEOREM TelemetryOutlivesWork == Spec => []ProvidersOutlive
<1>1. SInv => ProvidersOutlive
  <2> SUFFICES ASSUME SInv, ~providers
               PROVE  /\ \A p \in Publishers : /\ reader[p] \in {"idle", "done"}
                                               /\ caller[p] = "idle"
                      /\ worker = "exited"
                      /\ ~managerRunning /\ ~beKeepRunning
    BY DEF ProvidersOutlive
  <2>1. ProvidersStage /\ BackendStage /\ BP!ManagerPhase
    BY DEF SInv, Joint, BP!IInv
  <2>2. main = "stopped"
    BY <2>1 DEF ProvidersStage
  <2>3. worker = "exited"
    BY <2>2, Propagating
  <2>4. \A p \in Publishers : reader[p] \in {"idle", "done"}
    BY <2>2, ReadersNeedFrontend
  <2>5. \A p \in Publishers : caller[p] = "idle"
    BY <2>4, Readers DEF Handled
  <2>6. ~managerRunning /\ ~beKeepRunning
    BY <2>1, <2>2 DEF BackendStage, BP!ManagerPhase, ProvidersStage
  <2> QED
    BY <2>3, <2>4, <2>5, <2>6
<1> QED
  BY <1>1, Invariance, PTL

-----------------------------------------------------------------------------
(* What is proved of the modules, of the process.                          *)

LEMMA FrontendProperties ==
    /\ FE!CountIsOff <=> FP!CountIsOff
    /\ FE!DownIsReset <=> FP!DownIsReset
    /\ FE!CutOff <=> FP!CutOff
    /\ FE!OnePacketAfterStop <=> FP!OnePacketAfterStop
BY DEF
    FE!Open, FE!Ghosts, FE!CountIsOff, FE!DownIsReset, FE!InvalidRun,
    FE!CutOff, FE!OnePacketAfterStop, FE!Cardinality, FP!Open, FP!Ghosts,
    FP!CountIsOff, FP!DownIsReset, FP!InvalidRun, FP!CutOff,
    FP!OnePacketAfterStop, FP!Cardinality

LEMMA ProxyProperties ==
    /\ PX!Accounted <=> PP!Accounted
    /\ PX!PublisherOrder <=> PP!PublisherOrder
    /\ PX!LossNeedsPressure <=> PP!LossNeedsPressure
BY DEF
    PX!Packet, PX!Offered, PX!InCall, PX!Fate, PX!Copies, PX!Accounted,
    PX!PublisherOrder, PX!LossNeedsPressure, PX!Cardinality,
    PP!Packet, PP!Offered, PP!InCall, PP!Fate, PP!Copies, PP!Accounted,
    PP!PublisherOrder, PP!LossNeedsPressure, PP!Cardinality

LEMMA BackendProperties ==
    /\ BE!QueueBounds <=> BP!QueueBounds
    /\ BE!OneContinuation <=> BP!OneContinuation
    /\ BE!MapMatchesWriters <=> BP!MapMatchesWriters
    /\ BE!InOrder <=> BP!InOrder
    /\ BE!LossOnlyByOverflow <=> BP!LossOnlyByOverflow
BY DEF
    BE!Open, BE!QueueBounds, BE!OneContinuation, BE!MapMatchesWriters,
    BE!Pipeline, BE!InOrder, BE!Missing, BE!LossOnlyByOverflow, BE!Range,
    BP!Open, BP!QueueBounds, BP!OneContinuation, BP!MapMatchesWriters,
    BP!Pipeline, BP!InOrder, BP!Missing, BP!LossOnlyByOverflow, BP!Range

\* The count of publishers, its reset, the cut-off of publishers that send
\* invalid packets and the end of readers after stop() are in the process what
\* they are of the frontend alone: the proxy's callback disturbs none of them.
THEOREM FrontendInProcess ==
    Spec => [](/\ FE!CountIsOff
               /\ FE!DownIsReset
               /\ FE!CutOff
               /\ FE!OnePacketAfterStop)
<1>1. FE!Spec => FP!Spec
  BY FrontendInit, FrontendStep, PTL DEF FE!Spec, FP!Spec
<1>2. FP!Spec => []FP!CountIsOff
  BY Constants, FP!CountLosesRejections
<1>3. FP!Spec => []FP!DownIsReset
  BY Constants, FP!CountEndsAtZero
<1>4. FP!Spec => []FP!CutOff
  BY Constants, FP!CutOffIsExact
<1>5. FP!Spec => []FP!OnePacketAfterStop
  BY Constants, FP!AtMostOneLate
<1> QED
  BY <1>1, <1>2, <1>3, <1>4, <1>5,
     FrontendAlone, FrontendProperties, PTL

\* With the frontend's readers as callers and the backend behind it, the proxy
\* still accounts for every packet, keeps each publisher's in order and throws
\* away only under pressure.
THEOREM ProxyInProcess ==
    Spec => [](/\ PX!Accounted
               /\ PX!PublisherOrder
               /\ PX!LossNeedsPressure)
<1>1. PX!Spec => PP!Spec
  BY ProxyInit, ProxyStep, PTL DEF PX!Spec, PP!Spec
<1>2. PP!Spec => []PP!Accounted
  BY Constants, PP!NothingUnaccounted
<1>3. PP!Spec => []PP!PublisherOrder
  BY Constants, PP!OrderPerPublisher
<1>4. PP!Spec => []PP!LossNeedsPressure
  BY Constants, PP!PressureOnly
<1> QED
  BY <1>1, <1>2, <1>3, <1>4,
     ProxyAsAssumed, ProxyProperties, PTL DEF ProxySpec

\* With the propagator as its feed and the main thread above it, the backend
\* still bounds its queues, runs each pump in one thread, leaks no stream,
\* keeps the order and loses packets only to newer ones.
THEOREM BackendInProcess ==
    Spec => [](/\ BE!QueueBounds
               /\ BE!OneContinuation
               /\ BE!MapMatchesWriters
               /\ BE!InOrder
               /\ BE!LossOnlyByOverflow)
<1>1. BE!Spec => BP!Spec
  BY BackendInit, BackendStep, PTL DEF BE!Spec, BP!Spec
<1>2. BP!Spec => []BP!QueueBounds
  BY Constants, BP!QueuesAreBounded
<1>3. BP!Spec => []BP!OneContinuation
  BY Constants, BP!PumpIsSingleThreaded
<1>4. BP!Spec => []BP!MapMatchesWriters
  BY Constants, BP!NoStreamLeaks
<1>5. BP!Spec => []BP!InOrder
  BY Constants, BP!DeliveryInOrder
<1>6. BP!Spec => []BP!LossOnlyByOverflow
  BY Constants, BP!OnlyOverflowLoses
<1> QED
  BY <1>1, <1>2, <1>3, <1>4, <1>5, <1>6,
     BackendAsAssumed, BackendProperties, PTL DEF BackendSpec

\* And each implements its abstract specification: the proxy a relay, the
\* backend a broadcast of what the relay lets through.
THEOREM RefinementsInProcess ==
    Spec => PP!ImplementsRelay /\ BP!ImplementsBroadcast
<1>1. PX!Spec => PP!Spec
  BY ProxyInit, ProxyStep, PTL DEF PX!Spec, PP!Spec
<1>2. BE!Spec => BP!Spec
  BY BackendInit, BackendStep, PTL DEF BE!Spec, BP!Spec
<1>3. PP!Spec => PP!ImplementsRelay
  BY Constants, PP!ProxyImplementsRelay
<1>4. BP!Spec => BP!ImplementsBroadcast
  BY Constants, BP!BackendImplementsBroadcast
<1> QED
  BY <1>1, <1>2, <1>3, <1>4, ProxyAsAssumed, BackendAsAssumed, PTL
  DEF ProxySpec, BackendSpec

-----------------------------------------------------------------------------
(* From publisher to subscriber.                                           *)

\* The import queue keeps each publisher's packets in order, the manager
\* numbers them as they are relayed, and the streams and pumps keep the order
\* of the numbers.
LEMMA OrderKept == SInv => ReceivedInOrder
<1> SUFFICES ASSUME SInv, NEW w \in Subscribers,
                    NEW i \in DOMAIN Received(w), NEW j \in DOMAIN Received(w),
                    i < j, Received(w)[i][1] = Received(w)[j][1]
             PROVE  Received(w)[i][2] < Received(w)[j][2]
  BY DEF ReceivedInOrder
<1> DEFINE P == 1..(Cardinality(Publishers) * MaxPackets)
           s == sent[w]
<1>1. /\ s \in Seq(P) /\ BP!Line(s, outbox[w], stream[w], count)
  BY DEF SInv, BP!IInv, BP!TypeOK, BP!OrderInv, BP!Lined
<1>2. BP!Rising(s) /\ BP!UpTo(s, count)
  BY <1>1 DEF BP!Line
<1> HIDE DEF P, s
<1>3. DOMAIN s = 1..Len(s) /\ \A k \in 1..Len(s) : s[k] \in P
  BY <1>1, LenProperties, ElementOfSeq
<1>4. \A n \in P : n \in Int /\ n >= 1
  BY DEF P
<1>5. /\ i \in 1..Len(s) /\ j \in 1..Len(s)
      /\ Received(w)[i] = relayed[s[i]] /\ Received(w)[j] = relayed[s[j]]
  BY <1>3 DEF Received, s
<1>6. s[i] < s[j] /\ s[i] <= count /\ s[j] <= count
  BY <1>2, <1>5 DEF BP!Rising, BP!UpTo
<1>7. count = Len(relayed)
  BY DEF SInv, Joint, NoneTurnedAway
<1>8. s[i] \in 1..Len(relayed) /\ s[j] \in 1..Len(relayed)
  BY <1>3, <1>5, <1>6, <1>7, <1>4
<1>9. PP!Rising(relayed)
  BY DEF SInv, PP!PInv, PP!Ordered
<1>10. PP!Older(relayed[s[i]], relayed[s[j]])
  BY <1>6, <1>8, <1>9 DEF PP!Rising
<1> QED
  BY <1>5, <1>10 DEF PP!Older

\* A packet that a reader has counted is in no callback any more, so it is in
\* one of the proxy's places; and what was relayed is what was enqueued.
LEMMA NothingVanishes == SInv /\ BE!LossOnlyByOverflow => NoSilentLoss
<1> SUFFICES ASSUME SInv, BE!LossOnlyByOverflow,
                    NEW w \in subscribers, BE!Open(w),
                    NEW k \in Taken, k \notin Range(queue),
                    k \notin Range(hand), k \notin suppressed
             PROVE  \/ wasFull /\ k \in evicted \union refused
                    \/ \E n \in DOMAIN relayed :
                         /\ relayed[n] = k
                         /\ \/ n \in Range(BE!Pipeline(w))
                            \/ n <= joined[w]
                            \/ n + ExportCapacity <= count
  BY DEF NoSilentLoss
<1>1. /\ PP!Conserved /\ PP!LossNeedsPressure
      /\ relayed \in Seq(PP!Packet) /\ count = Len(relayed)
  BY DEF SInv, PP!PInv, PP!TypeOK, Joint, NoneTurnedAway
<1>2. /\ k \in PP!Packet /\ k[1] \in Publishers
      /\ k[2] \in Nat /\ k[2] <= total[k[1]] - rejected[k[1]]
  BY ServiceAssumption DEF Taken, PX!Packet, PP!Packet
<1>3. k \in PP!Offered \ PP!InCall
  <2> DEFINE p == k[1]
  <2>1. /\ total[p] \in Nat /\ rejected[p] \in Nat /\ made[p] \in Nat
        /\ Handled(p)
    BY <1>2, Readers, ServiceAssumption
  <2>2. k[2] <= made[p]
    BY <1>2, <2>1 DEF Handled
  <2>3. caller[p] # "idle" => k[2] < made[p]
    BY <1>2, <2>1 DEF Handled, InHandler
  <2> QED
    BY <1>2, <2>1, <2>2, <2>3 DEF PP!Offered, PP!InCall
<1>4. k \in PP!Line \union PP!Lost
  BY <1>1, <1>3 DEF PP!Conserved
<1>5. CASE k \in evicted \union refused
  BY <1>1, <1>5 DEF PP!LossNeedsPressure
<1>6. CASE k \notin evicted \union refused
  <2>1. k \in Range(relayed)
    BY <1>4, <1>6 DEF PP!Line, PP!Lost, PP!Range, Range
  <2>2. PICK n \in DOMAIN relayed : relayed[n] = k
    BY <2>1 DEF Range
  <2>3. n \in 1..count
    BY <1>1, <2>2, LenProperties
  <2>4. joined[w] \in Nat
    BY DEF SInv, BP!IInv, BP!TypeOK
  <2>5. \/ n \in BE!Range(BE!Pipeline(w))
        \/ n <= joined[w]
        \/ n + ExportCapacity <= count
    BY <2>3, <2>4 DEF BE!LossOnlyByOverflow, BE!Missing
  <2> QED
    BY <2>2, <2>5 DEF BE!Range, Range
<1> QED
  BY <1>5, <1>6

\* A subscriber gets each publisher's packets in order and none twice, and of
\* what the publishers were told was taken it misses only what is accounted
\* for: duplicates, what an import queue that had been full gave up, what came
\* before it joined, and what newer packets displaced in its stream.
THEOREM FromPublisherToSubscriber == Spec => []EndToEnd
<1>1. SInv /\ BE!LossOnlyByOverflow => EndToEnd
  BY OrderKept, NothingVanishes DEF EndToEnd
<1> QED
  BY <1>1, Invariance, BackendInProcess, PTL

-----------------------------------------------------------------------------
(* The bound of the model on the packets of the backend.                   *)

\* The propagator with a packet to send is not held up by the bound.
BoundIsWide ==
    worker = "send" /\ feed = "idle" => count < Cardinality(Publishers) * MaxPackets

\* Packets in a rising order are different ones, hence at most as many as there
\* are publishers' packets.
LEMMA RisingIsShort ==
    ASSUME NEW s \in Seq(PP!Packet), PP!Rising(s)
    PROVE  Len(s) <= Cardinality(Publishers) * MaxPackets
<1>1. /\ IsFiniteSet(Publishers) /\ MaxPackets \in Nat
      /\ IsFiniteSet(1..MaxPackets) /\ Cardinality(1..MaxPackets) = MaxPackets
  <2>1. IsFiniteSet(Publishers) /\ MaxPackets \in Nat
    BY ServiceAssumption
  <2>2. /\ IsFiniteSet(1..MaxPackets)
        /\ Cardinality(1..MaxPackets) = IF 1 > MaxPackets THEN 0
                                        ELSE MaxPackets - 1 + 1
    BY <2>1, FS_Interval
  <2> QED
    BY <2>1, <2>2
<1>2. /\ IsFiniteSet(PP!Packet)
      /\ Cardinality(PP!Packet) = Cardinality(Publishers) * MaxPackets
  BY <1>1, FS_Product DEF PP!Packet
<1>3. /\ Len(s) \in Nat /\ s \in [1..Len(s) -> PP!Packet]
  BY LenProperties
<1>4. ASSUME NEW i \in 1..Len(s), NEW j \in 1..Len(s), i < j
      PROVE  s[i] # s[j]
  <2>1. s[i] \in Publishers \X (1..MaxPackets) /\ s[j] \in Publishers \X (1..MaxPackets)
    BY <1>3 DEF PP!Packet
  <2>2. s[i][2] \in Int /\ s[j][2] \in Int
    BY <2>1
  <2>3. s[i][1] = s[j][1] => s[i][2] < s[j][2]
    BY <1>4 DEF PP!Rising, PP!Older
  <2> QED
    BY <2>2, <2>3
<1>5. \A i, j \in 1..Len(s) : s[i] = s[j] => i = j
  BY <1>3, <1>4
<1>6. s \in Injection(1..Len(s), PP!Packet)
  BY <1>3, <1>5 DEF Injection, IsInjective
<1>7. Cardinality(1..Len(s)) <= Cardinality(PP!Packet)
  BY <1>2, <1>6, FS_Injection
<1>8. Cardinality(1..Len(s)) = Len(s)
  BY <1>3, FS_Interval
<1> QED
  BY <1>2, <1>7, <1>8

\* In the process the backend's bound is one the publishers' bounds imply: it
\* hides no behaviour of the propagator.
THEOREM BoundHidesNothing == Spec => []BoundIsWide
<1>1. SInv => BoundIsWide
  <2> SUFFICES ASSUME SInv, worker = "send"
               PROVE  count < Cardinality(Publishers) * MaxPackets
    BY DEF BoundIsWide
  <2> DEFINE line == relayed \o hand
  <2>1. /\ relayed \in Seq(PP!Packet) /\ hand \in Seq(PP!Packet)
        /\ Len(hand) <= 1 /\ hand # <<>>
    BY Propagating
  <2>2. /\ line \in Seq(PP!Packet)
        /\ PP!Rising(relayed) /\ PP!Rising(hand)
             /\ PP!Ahead(PP!Range(relayed), PP!Range(hand)) => PP!Rising(line)
    BY <2>1, Constants, PP!JoinProperties
  <2>3. PP!Rising(hand)
    BY <2>1, Constants, PP!ShortIsRising
  <2>4. PP!Rising(line)
    BY <2>2, <2>3 DEF SInv, PP!PInv, PP!Ordered
  <2>5. Len(line) <= Cardinality(Publishers) * MaxPackets
    BY <2>2, <2>4, RisingIsShort
  <2>6. Len(line) = Len(relayed) + 1
    BY <2>1, OneLong
  <2>7. Len(relayed) = count
    BY DEF SInv, Joint, NoneTurnedAway
  <2>8. Cardinality(Publishers) * MaxPackets \in Nat
    BY ServiceAssumption, FS_CardinalityType
  <2> QED
    BY <2>5, <2>6, <2>7, <2>8
<1> QED
  BY <1>1, Invariance, PTL

=============================================================================
