# uDataPacketImportProxy in TLA+

The proxy takes seismic data packets from publishers (gRPC client streams), drops
duplicates, and broadcasts what is left to subscribers (gRPC server streams).
This directory holds TLA+ models of it, the TLC configurations that check them,
and proofs for TLAPS.

Run in this directory:

    tlc -config MCBackend.cfg MCBackend        # any cfg with the module it names
    tlapm BackendProofs.tla                    # and the other *Proofs.tla

## The system

    publishers --Publish--> Frontend --callback--> import queue --> propagator
                                                                       |
                                                       duplicate detector
                                                                       |
    subscribers <--Subscribe-- Backend: writer <-- stream <-- subscription manager

| part | state | operations | driven by |
|---|---|---|---|
| Frontend (`frontend.cpp`) | count of publishers, running flag, per RPC a reader with its tallies | Publish, OnReadDone, OnDone, start, stop | gRPC threads, main thread |
| Proxy (`proxy.cpp`) | bounded import queue, running flag, propagator thread | addPacketCallback, propagatePacketToBackend, start, stop | the frontend's callbacks, its own thread, main thread |
| Duplicate detector (`duplicatePacketDetector.cpp`) | per channel a circular buffer of headers | allow | the propagator |
| Backend (`backend.cpp`) | map of streams under a mutex, two running flags, per RPC a writer with a private queue, an alarm and at most one write | enqueuePacket, Subscribe, pump, OnWriteDone, alarm, OnCancel, OnDone, start, stop, destructor | the propagator, gRPC threads, main thread |
| Server process (`main.cpp`) | signal flag, telemetry providers, the components | start, main loop, stop, clean-up, destruction | main thread, signals |
| Metrics (`modules/metrics.cppm`) | counters and gauges, all atomics | increments, stores, loads | RPCs, exporter |
| Options and ini file (`modules/programOptions.cppm`, `*Options.cpp`) | limits, ports, credentials, exporters | parseIniFile, the setters | main(), before anything runs |
| Logging, version, message definitions | read-only after start | | |

How the parts meet. A reader calls `addPacketCallback` on its gRPC thread; several
do so at once, and push on a queue that the propagator drains. The propagator asks
the detector and calls `Backend::enqueuePacket`, which copies the packet into every
stream under the manager's mutex. Each writer takes batches from its stream under
the same mutex and writes them one at a time. The main thread starts propagator,
backend and frontend in this order, and stops frontend, propagator and backend.

What is hard. There is no lock around a decision and what follows from it: limits
are checked and then passed, flags are read and then the mutex is taken, sizes are
measured and then packets are pushed. Writers have no thread: a pump sleeps on a
write or on an alarm, and must be woken by exactly one of them. Cancellation wakes
nobody. Shutdown waits for RPCs that wait for clients. Queues overflow by design,
and must do so at the right end. The hazards are listed at their lines in
`PROJECT.json`, with the properties aimed at each.

## Modules

Each module's actions are the code's handlers, cut where another thread can see or
change what the handler uses next: at accesses to shared atomics, at the borders of
critical sections, and at operations of the concurrent queues. A handler's own work
between two such points is part of one step. Definitions marked *Fault* are copies
of a definition with a plausible bug; nothing uses them. They show that a property
notices it. `PROJECT.json` maps every other definition to its lines.

**Backend.** `server` is the main thread's progress through start, stop and
destruction; `keepRunning` and `managerRunning` are the two flags; `subscribers` and
`stream` are the map. A writer `w` has a place `pc[w]`, the continuations that are
outstanding (`pending`), gRPC's cancelled flag, `mSubscribed`, the private queue
`outbox`, and the status it was finished with. `joined` and `sent` are history.
`Pump` is `pump()` up to `getNextPackets`, `Fetch` and `Dequeue` are
`getNextPackets` before and in its critical section; `Park` ends a handler with
`StartWrite` or the alarm, `Resume` comes back. `SubscribeCheck`/`Insert`,
`FinishUp`/`Erase`, `EnqueueCheck`/`Enqueue` and `StopManager`/`UnsubscribeAll` are
the reads of the manager's flag and the critical sections behind them. The stream's
push is one step: it is only used under the mutex. `bound` says whether the server
got its port; without one no RPC comes, and the rest runs on. `INTERNAL`, the status after an
allocation failure in `subscribe()`, is left out.

**Proxy.** `Measure`, `Evict` and `Push` are the three queue operations of
`addPacketCallback`, each atomic by itself; `WorkerTop`, `WorkerPop`, `WorkerJudge`
and `WorkerSend` are the propagator; `main` steps through `start()` and `stop()`; `StartThrows` leaves `start()` and
goes to the `stop()` of the destructor.
The three neighbours appear as this code sees them: callbacks come while the
frontend serves and none is left when its `stop` has returned (that is what gRPC's
`Shutdown` waits for), the detector says yes or no (an exception is a no), and the
backend takes the packet. `relayed`, `suppressed`, `evicted`, `refused` and
`wasFull` are history.

**DuplicateDetector.** Times are microseconds, rates millihertz; `Header`,
`Tolerance` and `Compare` do the rounding and the thresholds of the code, with
`"throw"` as the third outcome of `operator==`. `Find` says what `std::find` with the
comparison that may throw comes to. A call of `allow()` is one step, because the propagator
is the only caller; the branches are `Malformed`, `FirstOfChannel`, `Inconsistent`,
`Duplicate`, `Newest`, `Expired`, `Slip` and `Backfill`. Where the code converts
infinity to `int` (the estimated capacity for very short packets) the model takes
the value the project's builds produce. `allowed`, `recorded` and `last` are history.

**Frontend.** A reader goes through the load of the count (`CheckLimit`), the
`fetch_add` (`Count`), the test of the flag (`Begin`), reads (`ReadPacket`,
`EndOfStream`), and the two accesses of `OnDone` (`OnDone`, `Leave`). A packet is of
one of the three kinds the code tells apart. `Shutdown` refuses new RPCs and
`ShutdownReturns` waits for every reader, as gRPC does without a deadline. `inbox`
and `late` are history.

**Broadcast, BackendBroadcast.** The abstract specification of what subscribers are
promised: packets are published in one order, and a reader is a cursor that moves
forward through them from where it joined. It may skip packets, but none of the
`Capacity` newest. `BackendBroadcast` maps the backend to it: a writer whose pump
runs is a reader, its position is the last packet gRPC took.

**Relay, ProxyRelay.** The abstract specification of what publishers are promised:
a packet that was offered is relayed once, after all of its publisher's packets
before it that ever will be, or lost once and for all. `ProxyRelay` maps the proxy
to it; what is suppressed, evicted or refused is lost.

**Service.** `main.cpp`, and the frontend, the proxy and the backend as instances of
their modules. A call from one to another is one joint step of both: `OnPacket`,
`InCallback` and `CallbackReturned` are `OnReadDone` around `addPacketCallback`;
`EnqueueCheck` and `Enqueue` are the propagator inside `enqueuePacket`; the main
thread's start and stop of the proxy are those of the servers. `process` is where
`main()` is, `handling` whether the signal handlers are installed, `providers`
whether logs and metrics still have theirs. What a component's module assumes of its
callers (callbacks only while the frontend serves, one feeder, stop after start, the
destructor after stop) is not repeated in the joint steps: `ProxySpec` and
`BackendSpec` show that the rest of the process provides it. Of the frontend every
step is a step of its module by the way the joint steps are written, so nothing is
checked there. What holds of each module alone therefore holds in the process. `EndToEnd` reads the history of all
three at once: what publishers were told was taken, what the proxy did with it, and
what a subscriber was sent or has in store. A `start()` that throws goes
through `unwinding`: the destructors stop what had been started.

**Options.** `parseIniFile` setting by setting, in the order of the code, with what
each setter refuses. `Setting` is what the file says of one setting, `Convert16` the
conversion to 16 bits (a minus sign wraps, a number that is too large is as good as a
missing one), `Chosen` which exporter a section selects. `RangesHold` is what the
modules of the components assume of their constants.

What the models assume of gRPC and TBB: after `Finish` a reactor gets `OnDone` and
nothing else; at most one write is open; a cancelled RPC's open write fails or ends;
the alarm fires once; `Shutdown` refuses new RPCs, cancels at its deadline if it has
one and returns when the last `OnDone` has; each operation of a concurrent queue is
atomic.

## Runs

Passing runs:

| run | instance | asks |
|---|---|---|
| `backend` | 2 writers, streams of 2, batches of 2, 4 packets, a server with or without port | Bounds, single pump, no leaked stream, order without repeats, losses only to as many newer packets as the stream holds; the backend implements `Broadcast` |
| `backend_live` | 2 writers, one may stop reading, streams of 1, 2 packets | Cancelled RPCs end; stop and destruction end; what is in a stream is sent or overwritten, or the RPC ends |
| `proxy` | 2 publishers, queue of 2, 3 packets each, a start that may throw | Every packet is in exactly one place; order per publisher; losses only after the queue has been full; stop ends and packets do not stay in the queue; the proxy implements `Relay` |
| `detector` | 1 channel at 100 Hz, buffer of 2, 6 calls | Sorted buffer of one rate; disjoint headers and no repeat let in, unless a packet contains another; a stream moving forward is never refused |
| `frontend` | 3 publishers, one without token, room for 1, a server with or without port | What the count is; cut-off for invalid packets; one packet at most after stop; stop ends if clients send or close |
| `service` | 1 publisher with 3 messages, 1 subscriber who may stall, queues and batches of 1, signals at any time, a start that may throw | Order from publisher to subscriber, and no loss without a cause; nothing relayed is turned away; nothing at work outlives the telemetry; `main()` returns with no thread left; a signal that was caught ends the process; the proxy and the backend are called as their modules assume |
| `options` | files that give at most 5 settings, legal or not | What is accepted is what the components assume; no token without certificate; two different addresses |

Runs that find a sentence of the repository violated (quoted in `findings`):

| run | sentence | what happens |
|---|---|---|
| `backend_limit` | "the maximum number of subscribers" | two constructors read the number before either subscribes |
| `detector_late` | "the data does not appear to be a duplicate", and the test that shuffles packets and requires each to be allowed | a packet older than a buffer that has room is remembered and refused |
| `frontend_cutoff` | "If a client sends this many conseuctive messages then it will be popped" | the counter is compared with `>`: one more is read |
| `frontend_count` | "The number of publishers" | rejected RPCs are subtracted though never added |
| `frontend_stop` | "cancels RPCs, and shuts down the frontend" | an idle publisher holds `Shutdown()` for ever |

Where a sentence is violated, a passing run holds what is true instead: `CountIsOff`
(the count is the open RPCs less the rejected ones), `CutOff` (a publisher is cut off
exactly when it has sent more than the maximum), `ForwardIsAllowed` (a packet behind
all that was allowed is never refused) and `StopTerminates` with clients that act.
`detector_late` goes against the code and not only its words: the test it quotes passes
because the shuffle of its seed happens to put the oldest packet first.

Met, and in no run of its own:

- "Tests whether or not a packet has already passed through the system"
  (`duplicatePacketDetector.hpp:14`) does not hold of packets that contain others. The
  slip test asks whether an end of the new packet lies in a buffered one, so a packet
  that contains a buffered one is taken for a back-fill and sorted before it. The next
  new packet displaces its header, the first of a full buffer; when the packet comes
  again, its ends again lie in no buffered packet, and it is allowed a second time.
  `NoReadmissionUnlessNested` and `DisjointUnlessNested` say that it does not go wrong
  without such packets, and without packets much shorter than the tolerance.
- "This is initialized once and should last the duration of the application"
  (`main.cpp:60-61`): the providers of metrics and logs are reset at lines 360-361,
  before the server is destroyed. What may still be open then are RPCs of subscribers,
  which have been told to end and log while they do. They count in the metrics
  singleton, which needs no provider; only the log sink and the exporter do.
  `ProvidersOutlive` says that nothing else is left.
- `unsubscribeAll` can be overtaken by a `subscribe()` that has tested the flag already.
  The stream then stays in the map until the destructor clears it again, because
  `unsubscribe()` returns early once the manager has stopped. `MapMatchesWriters` claims
  the map only while the manager runs; `StopTerminates` and `ExitIsOrderly` show that
  such an RPC still ends.

**Bounds.** All are constants, and the theorems below do without them. Two writers or
publishers are enough for every race in the code: no step involves more than two RPCs
and one other thread, and RPCs meet only in the map, a queue or the count. The
frontend has a third because a count needs one RPC that is turned away, one that is
open and one that asks. Queues of one or two with more packets than they hold make
every overflow happen, at the first and at a later packet of a batch. Six calls fill
the detector's buffer of two three times over, which leaves room for a header to be
displaced and its packet to be repeated; starts, lengths and the two rates lie on both
sides of the tolerance and of the rounding.
An RPC is used once: its reactor is deleted. In `service` one publisher and one
subscriber are enough: the runs of the components have the races between RPCs of a
kind, this one has those between the components and the main thread, and
`ServiceProofs` needs no bound on either. Three messages
over queues of one overflow the import queue and the stream. With a single publisher no
push is refused, and in a queue of one nothing can be out of order: these cases are in the
runs `proxy` and `backend`, with queues of two, and in `FromPublisherToSubscriber`, which
has no bound. A file of five settings
holds every conflict the checks know: token, key and certificate of one endpoint, and
host and port of the other.

**Symmetry** is used in the run `backend` only, which asks for safety and where nothing tells one
writer from another.

**Fairness.** Weak fairness of the steps a thread takes inside the code, of alarms
and of the propagator's loop: nothing in them blocks for good but what the models
spell out. A write ends if the client reads, or once the RPC is cancelled; a client
in `Stalled` need not read. Nothing is assumed of clients that connect, send or
close, except in `ActiveSpec` of the frontend, whose name says so, and in `Service`,
where a publisher that is reading sends or closes; `frontend_stop` shows that `stop()`
needs it. Nothing makes a signal or a call come. `Proxy` takes it for granted that
`Frontend::stop` returns; `service` shows it with the frontend in place.

**Deadlock** is checked in every run but the detector's, which stops after `MaxCalls`.
The other modules have a step for what has ended, and stop nowhere else.

## Proofs

`BackendProofs` proves for every set of RPCs, capacity, batch size and number of
packets, from `BackendAssumption` alone:

- `TypeCorrectness`, `QueuesAreBounded`, `PumpIsSingleThreaded`, `NoStreamLeaks`.

None of the last three is inductive. `PumpIsSingleThreaded` needs that a handler which
runs has nothing outstanding. `NoStreamLeaks` says what holds while the manager runs,
and a step can only be judged if it is known which places go with which flag. So the
invariant is

    IInv == TypeOK /\ QueueBounds /\ OneContinuation /\ MapMatchesWriters
            /\ FlagFollowsPump /\ ManagerPhase /\ FeedPhase

where `FlagFollowsPump` ties `mSubscribed` to the place of the writer (before
subscribing and after finishing it is down, in the pump it is up), `ManagerPhase` ties
the manager's flag to the phase of the server, and `FeedPhase` says that an enqueue
in progress has a packet left to number. The step proof has one lemma per group of
actions; the facts about `Overwrite`, `Batch` and `Rest` (lengths, element types) are
lemmas of their own.

`BackendOrderProofs` proves, for the same constants and from the same assumption,
`DeliveryInOrder`: what a subscriber was sent, holds in its private queue and has in
its stream is one strictly increasing sequence (`InOrder`). As stated over the
concatenation that is not inductive, for two reasons. A new packet must be newer than
everything in the line, so no part of it may pass `count`; and a batch may only be put
behind what was sent if the private queue is empty when it arrives, which has to be
known from `pump()` on, where it was tested, through the flag and the mutex in
`getNextPackets` (`FetchesWhenEmpty`). So the proof keeps `IInv /\ OrderInv`, where
`OrderInv` says this of every writer, and that each of the three sequences rises and
lies below the next (`Line`). One lemma says what each move of a packet does to a line:
eviction, enqueue, batch, write, and the loss of either end.

`BackendBroadcastProofs` proves `OnlyOverflowLoses` (`LossOnlyByOverflow`) and
`BackendImplementsBroadcast`. The first speaks of the concatenation of three
sequences and of the RPCs that are open. Its inductive form, `LossInv`, says element
by element that what was enqueued since a writer joined is sent, held, queued or old
(`StreamCovered`), and the same of what the private queue holds, which outlives the
stream when a purge takes that away (`BatchCovered`); that a constructor starts from
nothing (`Fresh`) and that nobody holds packets from before it joined
(`NothingOld`). The step that needs an argument is the eviction: a full stream has
`QueueCapacity` rising numbers up to `count`, so its first is at least that old
(`RisingFits`, a pigeonhole; `EvictedAreOld`). The refinement follows from the two
invariants: a write moves the cursor to the head of the private queue, and all that
lies between is covered only by being old.

`ProxyProofs` proves `TypeOK`, `LossNeedsPressure`,
`PublisherOrder`, `Accounted` and that the proxy implements `Relay`, for any number of
publishers. Its invariant `PInv` keeps what is offered and not in a call as a disjoint
union of the line and what was lost (`Conserved`), orders the three parts of the line
against each other and against what has been thrown away (`Ordered`), and ties an
eviction that is still to come to a queue that has been full (`Pressure`): between
`Measure` and `Evict` the propagator may have emptied it.

`FrontendProofs` proves `TypeOK`, `CountIsOff`, `DownIsReset`, `CutOff` and
`OnePacketAfterStop`. `FInv` adds that a reader has a status from where it is finished
on, that the consecutive counter is the size of the run of invalid packets since the
last one taken (`RunIsCounted`), and that a packet read with the flag down was the
reader's last (`LateIsLast`).

`DetectorProofs` proves all that the `detector` run checks, for every capacity, rate
and packet: `TypeOK`, `Sorted`, `OneRate`, `DisjointUnlessNested`,
`NoReadmissionUnlessNested` and `ForwardIsAllowed`. That buffered packets are disjoint
unless one contains another is not inductive, since the header that contains may be
evicted and the overlaps it caused stay. `Laminar` is: a packet that overlaps a later
one contains one that is later, so that the eviction of the oldest takes the excuse
away only together with its overlaps. `Remembers` says that what has left a buffer
without nesting ended before its first header; from this a repeat of it cannot be the
newest (it would lie two packets further on than the tolerance allows), and is
refused as old or as a slip. The proof gave `NoReadmissionUnlessNested` and
`ForwardIsAllowed` their conditions on lengths: packets much shorter than the
tolerance can come back with a small buffer, or be taken for their predecessor.

`OptionsProofs` proves `TypeOK`, `RangesHold` and `EndpointsLegal` for every set of
numbers, ports and hosts, from `OptionsInv`, which follows the token, the section and
the comparison of addresses through the order of reading.

`ServiceProofs` proves the safety of the process for all finite sets of publishers,
all subscribers and all options, from `ServiceAssumption`: `ProxySpec`
and `BackendSpec`, `NoneTurnedAway`, `ExitIsOrderly`, `ProvidersOutlive` and `EndToEnd`. Its invariant is

    SInv == FP!FInv /\ PP!PInv /\ BP!IInv /\ BP!OrderInv /\ Joint

the invariants of the components, taken over from their proof modules by instance, and
`Joint`, which holds between them: how far the frontend and the backend are for every
place of the main thread (`FrontendStage`, `BackendStage`), that nothing runs once the
server is down (`ServerGone`), that the telemetry is reset only behind `Proxy::stop`
(`ProvidersStage`), that a reader which is in the callback is open and has
that packet still to count (`Handled`), and that the propagator is where it calls when
the backend is being fed. A step of the process is then shown to be a step of each
component or none of its: this gives the specifications of the components, and with them
their own step lemmas, so that only `Joint` has to be proved anew. The
specifications need the invariant at three places: `Frontend::stop` may only return when no callback is left (`Handled` and
the frontend's `NoReaderOutside`), a packet is handed over only while the manager runs
(`BackendStage` and the order of `stop()`), and the destructor finds no feed.

What follows without another induction: all that is proved of the frontend, the proxy
and the backend, the two refinements included, holds in the process
(`FrontendInProcess`, `ProxyInProcess`, `BackendInProcess`, `RefinementsInProcess`).
`EndToEnd` combines them. The order in which a subscriber receives is the order of the
manager's numbers (`OrderInv`), which are places in `relayed` (`NoneTurnedAway`), which
rises for each publisher (`PInv`). A packet that a reader has counted is in no callback
(`Handled`), so the proxy has it in line or lost (`Conserved`), and what it relayed is
missing at a subscriber only by overflow (`LossOnlyByOverflow`).

`BoundHidesNothing` is about the model: the bound on the number of packets in the
backend's instance is the number of packets all publishers can send, and the propagator
never meets it, because what is relayed and held are different packets.

The theorems of `BackendProofs`, `BackendOrderProofs`, `BackendBroadcastProofs`,
`ProxyProofs`, `FrontendProofs`, `DetectorProofs` and `ServiceProofs` rest on the
assumptions on constants that the modules name; for those that are settings,
`RangesHold` says that every accepted ini file meets them. What is assumed of gRPC and
TBB is in the actions, as said above.

Only model-checked: all liveness (`StopTerminates`, `CancelledEnds`, `Delivered`,
`QueueDrains`, `SignalStops`), because fairness and ENABLED are out of the prover's
reach, and the properties that the violation runs refute.

## Not modelled

- Metrics: atomics that RPCs write and the exporter reads, and that decide nothing.
  The gauges of utilization are left out of the RPCs for the same reason; that two
  RPCs may publish them out of order is listed as a hazard.
- `printSummary` and the futures of the main loop: the option that asks for a summary
  is never assigned, and the vector of futures is empty. The registration of metrics
  instruments.
- The command line, application name, verbosity, time-outs of the exporters beyond
  their sign, aliases of one host (addresses are compared by name in the code too).
- Logging, telemetry export, version, message definitions, tests, build.
- Trimming and upper-casing of stream names, tokens' contents, polling intervals: no
  property tells them apart.
- Failed allocations: the `INTERNAL` status after one in `subscribe()`, and the `catch` of
  `addPacketCallback` (`proxy.cpp:103-109`). An exception of `try_pop` or `try_push` loses
  the packet although the queue need not be full, and its publisher counts it as taken;
  `LossNeedsPressure` and `EndToEnd` hold but for that.
- The default options that `parseIniFile` returns for a file that does not exist
  (`programOptions.cppm:397`). `parseCommandLineOptions` has tested for the file before
  (line 150), so it would have to vanish in between. Both servers would then be on
  `localhost:50000`, and nothing compares the addresses on that path: `EndpointsLegal`
  speaks of files that were read.
- Copies of a detector or of options: each object has one owner.

## Plan

Done, in this order: `Backend`, `Proxy`, `DuplicateDetector`, `Frontend`; `Broadcast`
and `Relay` with their refinements; `Service`; `Options`; the proofs of all safety
properties of the components' modules; the proof that `Service` implements the
specifications of its components, and of its own safety properties.

Left: the gauges as racing RPCs publish them; more than one publisher and subscriber in
the run `service`, for which its state space has to be cut first (the theorems do not
need it, the liveness of the process does).
