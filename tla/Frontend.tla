------------------------------ MODULE Frontend ------------------------------
(***************************************************************************)
(* The frontend (src/frontend.cpp): the Publish RPCs, each served by an    *)
(* AsynchronousReader, the count of publishers they share, and the start   *)
(* and stop of the server.                                                 *)
(*                                                                         *)
(* A reader's constructor and handlers run on gRPC's threads.  Readers     *)
(* share two atomics, mNumberOfPublishers and mKeepRunning; each access to *)
(* one of them is a step, and everything else in a handler is the reader's *)
(* own and belongs to the step of the access that follows it.              *)
(*                                                                         *)
(* gRPC, as this code uses it: after Finish the reader gets OnDone and     *)
(* nothing else; Shutdown() refuses new RPCs and returns when every        *)
(* reader's OnDone has.                                                    *)
(***************************************************************************)
EXTENDS Integers, Sequences, FiniteSets

CONSTANTS
    Publishers,         \* Publish RPCs that clients make
    Strangers,          \* those whose client lacks the access token
    MaxPublishers,      \* FrontendOptions::getMaximumNumberOfPublishers
    MaxInvalid,         \* ...::getMaximumNumberOfConsecutiveInvalidMessages
    MaxPackets          \* bound of the model: packets of each RPC

\* The setters of FrontendOptions refuse less than one publisher and a
\* negative number of messages.
ASSUME FrontendAssumption ==
    /\ IsFiniteSet(Publishers)
    /\ Strangers \subseteq Publishers
    /\ MaxPublishers \in Nat \ {0}
    /\ MaxInvalid \in Nat
    /\ MaxPackets \in [Publishers -> Nat]

VARIABLES
    phase,              \* of start() and stop()
    bound,              \* FrontendImpl::mServer is not null
    keepRunning,        \* FrontendImpl::mKeepRunning
    numberOfPublishers, \* FrontendImpl::mNumberOfPublishers
    pc,                 \* where each reader is
    status,             \* what each reader was finished with
    consecutive,        \* mConsecutiveInvalidMessagesCounter
    total,              \* mTotalPackets
    rejected,           \* mPacketsRejected
    response,           \* mPublishResponse: total_packets, packets_rejected
    inbox,              \* history: the kinds of the packets read
    late                \* history: packets read since keepRunning fell

server  == <<phase, bound, keepRunning>>
tallies == <<consecutive, total, rejected, response, inbox, late>>
vars    == <<server, numberOfPublishers, pc, status, tallies>>

\* "stopping": the flag is down; "draining": Shutdown() has been called.
Phases == {"created", "serving", "stopping", "draining", "down"}

\* Before the RPC; at the load of the limit, the fetch_add and the test of
\* mKeepRunning in the constructor; with a read pending; finished; at the
\* fetch_sub of OnDone; gone.
Places == {"idle", "limit", "count", "begin", "reading", "finished", "leave",
           "done"}

\* A packet is taken by the callback, is incomplete (no samples, no type, no
\* rate, no name), or is one for which the callback throws.
Kinds == {"taken", "invalid", "thrown"}

Statuses == {"none", "OK", "RESOURCE_EXHAUSTED", "UNAUTHENTICATED",
             "INVALID_ARGUMENT", "UNAVAILABLE"}

Init ==
    /\ phase = "created"
    /\ bound = FALSE
    /\ keepRunning = TRUE
    /\ numberOfPublishers = 0
    /\ pc = [p \in Publishers |-> "idle"]
    /\ status = [p \in Publishers |-> "none"]
    /\ consecutive = [p \in Publishers |-> 0]
    /\ total = [p \in Publishers |-> 0]
    /\ rejected = [p \in Publishers |-> 0]
    /\ response = [p \in Publishers |-> <<0, 0>>]
    /\ inbox = [p \in Publishers |-> <<>>]
    /\ late = [p \in Publishers |-> 0]

Goto(p, place) == pc' = [pc EXCEPT ![p] = place]

\* grpc::ServerReadReactor::Finish.
Finish(p, code) ==
    /\ Goto(p, "finished")
    /\ status' = [status EXCEPT ![p] = code]

-----------------------------------------------------------------------------
(* The constructor of AsynchronousReader.                                  *)

\* A client calls Publish and the server still takes RPCs.
Publish(p) ==
    /\ bound
    /\ phase \in {"serving", "stopping"}
    /\ pc[p] = "idle"
    /\ Goto(p, "limit")
    /\ UNCHANGED <<server, numberOfPublishers, status, tallies>>

\* The number of publishers is read, then the token is looked for.
CheckLimit(p) ==
    /\ pc[p] = "limit"
    /\ \/ /\ numberOfPublishers >= MaxPublishers
          /\ Finish(p, "RESOURCE_EXHAUSTED")
       \/ /\ numberOfPublishers < MaxPublishers
          /\ p \in Strangers
          /\ Finish(p, "UNAUTHENTICATED")
       \/ /\ numberOfPublishers < MaxPublishers
          /\ p \notin Strangers
          /\ Goto(p, "count")
          /\ UNCHANGED status
    /\ UNCHANGED <<server, numberOfPublishers, tallies>>

Count(p) ==
    /\ pc[p] = "count"
    /\ numberOfPublishers' = numberOfPublishers + 1
    /\ Goto(p, "begin")
    /\ UNCHANGED <<server, status, tallies>>

\* Fault: the constructor neither reads nor finishes when the flag is down.
BeginOrHang(p) ==
    /\ pc[p] = "begin"
    /\ keepRunning
    /\ Goto(p, "reading")
    /\ UNCHANGED <<server, numberOfPublishers, status, tallies>>

Begin(p) ==
    /\ pc[p] = "begin"
    /\ \/ keepRunning /\ Goto(p, "reading") /\ UNCHANGED status
       \/ ~keepRunning /\ Finish(p, "OK")
    /\ UNCHANGED <<server, numberOfPublishers, tallies>>

-----------------------------------------------------------------------------
(* OnReadDone and OnDone.                                                  *)

\* Fault: a packet that is taken does not end a run of invalid ones.
TallyWithoutReset(p, kind) ==
    /\ total' = [total EXCEPT ![p] = @ + 1]
    /\ rejected' = [rejected EXCEPT ![p] = IF kind = "taken" THEN @ ELSE @ + 1]
    /\ consecutive' =
         [consecutive EXCEPT ![p] = IF kind = "invalid" THEN @ + 1 ELSE @]
    /\ inbox' = [inbox EXCEPT ![p] = Append(@, kind)]
    /\ late' = [late EXCEPT ![p] = IF keepRunning THEN @ ELSE @ + 1]

\* The counters after a packet of each kind.
Tally(p, kind) ==
    /\ total' = [total EXCEPT ![p] = @ + 1]
    /\ rejected' = [rejected EXCEPT ![p] = IF kind = "taken" THEN @ ELSE @ + 1]
    /\ consecutive' =
         [consecutive EXCEPT ![p] = CASE kind = "taken"   -> 0
                                      [] kind = "invalid" -> @ + 1
                                      [] kind = "thrown"  -> @]
    /\ inbox' = [inbox EXCEPT ![p] = Append(@, kind)]
    /\ late' = [late EXCEPT ![p] = IF keepRunning THEN @ ELSE @ + 1]

\* Fault: the run of invalid packets is not looked at.
ReadPacketAlways(p, kind) ==
    /\ pc[p] = "reading"
    /\ total[p] < MaxPackets[p]
    /\ Tally(p, kind)
    /\ \/ keepRunning /\ Goto(p, "reading") /\ UNCHANGED status
       \/ ~keepRunning /\ Finish(p, "UNAVAILABLE")
    /\ UNCHANGED <<server, numberOfPublishers, response>>

\* Fault: OnReadDone does not look at mKeepRunning.
ReadPacketOn(p, kind) ==
    /\ pc[p] = "reading"
    /\ total[p] < MaxPackets[p]
    /\ Tally(p, kind)
    /\ \/ consecutive'[p] > MaxInvalid /\ Finish(p, "INVALID_ARGUMENT")
       \/ consecutive'[p] <= MaxInvalid /\ Goto(p, "reading") /\ UNCHANGED status
    /\ UNCHANGED <<server, numberOfPublishers, response>>

\* OnReadDone(true): the packet is taken or not, and the RPC goes on or ends.
ReadPacket(p, kind) ==
    /\ pc[p] = "reading"
    /\ total[p] < MaxPackets[p]
    /\ Tally(p, kind)
    /\ \/ consecutive'[p] > MaxInvalid /\ Finish(p, "INVALID_ARGUMENT")
       \/ /\ consecutive'[p] <= MaxInvalid
          /\ \/ keepRunning /\ Goto(p, "reading") /\ UNCHANGED status
             \/ ~keepRunning /\ Finish(p, "UNAVAILABLE")
    /\ UNCHANGED <<server, numberOfPublishers, response>>

\* Fault: the end of the stream takes the reader off the count, as OnDone will.
EndOfStreamUncounts(p) ==
    /\ pc[p] = "reading"
    /\ response' = [response EXCEPT ![p] = <<total[p], rejected[p]>>]
    /\ Finish(p, "OK")
    /\ numberOfPublishers' = numberOfPublishers - 1
    /\ UNCHANGED <<server, consecutive, total, rejected, inbox, late>>

\* OnReadDone(false): the client is done or gone.
EndOfStream(p) ==
    /\ pc[p] = "reading"
    /\ response' = [response EXCEPT ![p] = <<total[p], rejected[p]>>]
    /\ Finish(p, "OK")
    /\ UNCHANGED <<server, numberOfPublishers, consecutive, total, rejected,
                   inbox, late>>

\* OnDone reads mKeepRunning...
OnDone(p) ==
    /\ pc[p] = "finished"
    /\ Goto(p, IF keepRunning THEN "leave" ELSE "done")
    /\ UNCHANGED <<server, numberOfPublishers, status, tallies>>

\* ...and takes every reader off the count, also those never counted.
Leave(p) ==
    /\ pc[p] = "leave"
    /\ numberOfPublishers' = numberOfPublishers - 1
    /\ Goto(p, "done")
    /\ UNCHANGED <<server, status, tallies>>

-----------------------------------------------------------------------------
(* FrontendImpl::start and FrontendImpl::stop.                             *)

readers == <<pc, status, tallies>>

\* BuildAndStart returns null when it cannot bind the port, and start() does
\* not look.
Start ==
    /\ phase = "created"
    /\ phase' = "serving"
    /\ bound' \in BOOLEAN
    /\ keepRunning' = TRUE
    /\ numberOfPublishers' = 0
    /\ UNCHANGED readers

\* Its caller stops what isRunning() calls running, also a frontend that was
\* never started.
Stop ==
    /\ phase \in {"created", "serving"}
    /\ phase' = "stopping"
    /\ keepRunning' = FALSE
    /\ UNCHANGED <<bound, numberOfPublishers, readers>>

Shutdown ==
    /\ phase = "stopping"
    /\ bound
    /\ phase' = "draining"
    /\ UNCHANGED <<bound, keepRunning, numberOfPublishers, readers>>

\* Fault: Shutdown() returns while readers are still to get their OnDone.
ShutdownAbandons ==
    /\ phase = "draining"
    /\ phase' = "down"
    /\ numberOfPublishers' = 0
    /\ UNCHANGED <<bound, keepRunning, readers>>

\* Shutdown() has no deadline: it cancels nothing and waits for all readers.
\* Without a server there is nothing to wait for.
ShutdownReturns ==
    /\ phase = IF bound THEN "draining" ELSE "stopping"
    /\ \A p \in Publishers : pc[p] \in {"idle", "done"}
    /\ phase' = "down"
    /\ numberOfPublishers' = 0
    /\ UNCHANGED <<bound, keepRunning, readers>>

Terminated == phase = "down" /\ UNCHANGED vars

-----------------------------------------------------------------------------
(* What gRPC's threads and the client of an RPC do.                        *)

Constructing(p) == CheckLimit(p) \/ Count(p) \/ Begin(p)

Ending(p) == OnDone(p) \/ Leave(p)

ClientActs(p) == EndOfStream(p) \/ \E kind \in Kinds : ReadPacket(p, kind)

Next ==
    \/ \E p \in Publishers :
         Publish(p) \/ Constructing(p) \/ ClientActs(p) \/ Ending(p)
    \/ Start \/ Stop \/ Shutdown \/ ShutdownReturns
    \/ Terminated

Spec == Init /\ [][Next]_vars

\* Threads inside the code go on; nothing makes a client send or close.
Fairness ==
    /\ \A p \in Publishers : WF_vars(Constructing(p) \/ Ending(p))
    /\ WF_vars(Shutdown \/ ShutdownReturns)

FairSpec == Spec /\ Fairness

\* The same with clients that go on sending or close.
ActiveSpec == FairSpec /\ \A p \in Publishers : WF_vars(ClientActs(p))

-----------------------------------------------------------------------------
(* Properties.                                                             *)

\* Every variable has its type, and no counter runs past the cut-off.
TypeOK ==
    /\ phase \in Phases
    /\ bound \in BOOLEAN
    /\ keepRunning \in BOOLEAN
    /\ numberOfPublishers \in Int
    /\ pc \in [Publishers -> Places]
    /\ status \in [Publishers -> Statuses]
    /\ consecutive \in [Publishers -> 0..(MaxInvalid + 1)]
    /\ total \in [Publishers -> Nat]
    /\ rejected \in [Publishers -> Nat]
    /\ response \in [Publishers -> Nat \X Nat]
    /\ inbox \in [Publishers -> Seq(Kinds)]
    /\ late \in [Publishers -> Nat]

\* Readers that were counted and not yet taken off.
Open == {p \in Publishers : /\ pc[p] \in {"begin", "reading", "finished", "leave"}
                            /\ status[p] \notin {"RESOURCE_EXHAUSTED",
                                                 "UNAUTHENTICATED"}}

\* Readers turned away in the constructor that OnDone has taken off all the
\* same.
Ghosts == {p \in Publishers : /\ pc[p] = "done"
                              /\ status[p] \in {"RESOURCE_EXHAUSTED",
                                                "UNAUTHENTICATED"}}

\* What the count is while the frontend serves: the open RPCs, less one for
\* every RPC it ever turned away.
CountIsOff ==
    phase = "serving" =>
      numberOfPublishers = Cardinality(Open) - Cardinality(Ghosts)

\* Frontend::getNumberOfPublishers.
getNumberOfPublishers == IF numberOfPublishers < 0 THEN 0 ELSE numberOfPublishers

\* "The number of publishers": with the readers at rest, what
\* getNumberOfPublishers() returns is the number of open RPCs.
PublisherCount ==
    (phase = "serving" /\ \A p \in Publishers : pc[p] \in {"idle", "reading", "done"})
      => getNumberOfPublishers = Cardinality(Open)

\* The count is left at zero: no reader that saw the flag up subtracts from
\* it after stop() has reset it.
DownIsReset == phase = "down" => numberOfPublishers = 0

\* Invalid packets read since the last that was taken.
InvalidRun(p) ==
    Cardinality({i \in DOMAIN inbox[p] :
                   /\ inbox[p][i] = "invalid"
                   /\ \A j \in i..Len(inbox[p]) : inbox[p][j] # "taken"})

\* A publisher is cut off for invalid packets if and only if it sends more
\* than MaxInvalid of them with none taken in between; packets on which the
\* callback throws neither count nor start the run anew.
CutOff ==
    \A p \in Publishers :
      (status[p] = "INVALID_ARGUMENT") <=> (InvalidRun(p) > MaxInvalid)

\* "If a client sends this many consecutive messages then it will be popped":
\* a publisher whose run of invalid packets has reached the maximum is not
\* read from again.
PoppedAtMaximum ==
    \A p \in Publishers :
      MaxInvalid > 0 /\ InvalidRun(p) >= MaxInvalid => pc[p] # "reading"

\* Once stop() has lowered the flag, a reader takes at most the packet it was
\* waiting for.
OnePacketAfterStop == \A p \in Publishers : late[p] <= 1

\* stop() returns.
StopTerminates == phase = "stopping" ~> phase = "down"

=============================================================================
