---------------------------- MODULE ProxyProofs ----------------------------
(***************************************************************************)
(* The proxy loses no packet without a trace, relays each publisher's      *)
(* packets in order, and implements Relay: for every set of publishers,    *)
(* every capacity and any number of packets.                               *)
(***************************************************************************)
EXTENDS ProxyRelay, SequenceTheorems, FiniteSetTheorems, TLAPS

-----------------------------------------------------------------------------
(* The inductive invariant.                                                *)

\* Packet j was published before packet k, if they are of one publisher.
Older(j, k) == j[1] = k[1] => j[2] < k[2]

Rising(s) == \A i, j \in 1..Len(s) : i < j => Older(s[i], s[j])

Ahead(S, T) == \A j \in S, k \in T : Older(j, k)

Line == Range(relayed) \union Range(hand) \union Range(queue)

Lost == suppressed \union evicted \union refused

\* A packet that has been offered and is not in a call is in line or lost, and
\* not both.
Conserved ==
    /\ Line \union Lost = Offered \ InCall
    /\ Line \intersect Lost = {}
    /\ suppressed \intersect evicted = {}
    /\ suppressed \intersect refused = {}
    /\ evicted \intersect refused = {}

\* What was relayed, what is in the propagator's hand and what is queued
\* follow one another.
Ordered ==
    /\ Rising(relayed) /\ Rising(queue)
    /\ Ahead(Range(relayed), Range(hand))
    /\ Ahead(Range(relayed), Range(queue))
    /\ Ahead(Range(hand), Range(queue))
    /\ Ahead(suppressed \union evicted, Range(queue))

\* The propagator has a packet in its hand where it is to judge or to send it.
HandIsFull == worker \in {"judge", "send"} <=> hand # <<>>

NoThreadYet == main = "created" => worker = "none"

CallHasPacket == \A p \in Publishers : caller[p] # "idle" => made[p] # 0

\* A queue at its capacity has been noticed, and so has the one that a
\* callback is about to evict from.
Pressure ==
    /\ Len(queue) >= QueueCapacity => wasFull
    /\ \A p \in Publishers : caller[p] = "evict" => wasFull

\* After Frontend::stop no callback is running and after the join no
\* propagator.
StoppedIsQuiet ==
    /\ main \in {"join", "stopBackend", "stopped"} =>
         \A p \in Publishers : caller[p] = "idle"
    /\ main \in {"stopBackend", "stopped"} => worker = "exited"

PInv ==
    /\ TypeOK /\ NoThreadYet /\ HandIsFull /\ CallHasPacket
    /\ Conserved /\ Ordered
    /\ Pressure /\ LossNeedsPressure
    /\ StoppedIsQuiet

-----------------------------------------------------------------------------
(* Sequences, as sets of elements in a rising order.                       *)

LEMMA RangeIs ==
    ASSUME NEW S, NEW s \in Seq(S)
    PROVE  /\ Range(s) = {s[i] : i \in 1..Len(s)}
           /\ Range(s) \subseteq S
<1>1. DOMAIN s = 1..Len(s)
  BY LenProperties
<1> QED
  BY <1>1, ElementOfSeq DEF Range

LEMMA RangeOfEmpty == Range(<<>>) = {}
BY EmptySeq DEF Range

LEMMA JoinProperties ==
    ASSUME NEW S, NEW s \in Seq(S), NEW t \in Seq(S)
    PROVE  /\ s \o t \in Seq(S)
           /\ Range(s \o t) = Range(s) \union Range(t)
           /\ Rising(s) /\ Rising(t) /\ Ahead(Range(s), Range(t))
                => Rising(s \o t)
<1> DEFINE u == s \o t
<1>1. /\ u \in Seq(S) /\ Len(s) \in Nat /\ Len(t) \in Nat
      /\ Len(u) = Len(s) + Len(t)
      /\ \A i \in 1..Len(u) : u[i] = IF i <= Len(s) THEN s[i] ELSE t[i - Len(s)]
  BY ConcatProperties, LenProperties
<1> HIDE DEF u
<1>2. \A i \in 1..Len(u) : \/ i \in 1..Len(s) /\ u[i] = s[i]
                           \/ /\ i \notin 1..Len(s)
                              /\ i - Len(s) \in 1..Len(t)
                              /\ u[i] = t[i - Len(s)]
  BY <1>1
<1>3. /\ Range(s) = {s[i] : i \in 1..Len(s)}
      /\ Range(t) = {t[i] : i \in 1..Len(t)}
      /\ Range(u) = {u[i] : i \in 1..Len(u)}
  BY <1>1, RangeIs
<1>4. Range(u) = Range(s) \union Range(t)
  <2>1. ASSUME NEW i \in 1..Len(u) PROVE u[i] \in Range(s) \union Range(t)
    BY <1>2, <1>3
  <2>2. ASSUME NEW i \in 1..Len(s) PROVE s[i] \in Range(u)
    <3>1. i \in 1..Len(u) /\ u[i] = s[i]
      BY <1>1
    <3> QED
      BY <1>3, <3>1
  <2>3. ASSUME NEW i \in 1..Len(t) PROVE t[i] \in Range(u)
    <3> DEFINE j == Len(s) + i
    <3>1. j \in 1..Len(u) /\ ~(j <= Len(s)) /\ j - Len(s) = i
      BY <1>1
    <3>2. u[j] = t[i]
      BY <1>1, <3>1
    <3> QED
      BY <1>3, <3>1, <3>2
  <2> QED
    BY <1>3, <2>1, <2>2, <2>3
<1>5. ASSUME Rising(s), Rising(t), Ahead(Range(s), Range(t))
      PROVE  Rising(u)
  <2>1. SUFFICES ASSUME NEW i \in 1..Len(u), NEW j \in 1..Len(u), i < j
                 PROVE  Older(u[i], u[j])
    BY DEF Rising
  <2>2. CASE i \in 1..Len(s) /\ j \in 1..Len(s)
    <3>1. u[i] = s[i] /\ u[j] = s[j]
      BY <1>2, <2>2
    <3> QED
      BY <1>5, <2>1, <2>2, <3>1 DEF Rising
  <2>3. CASE i \in 1..Len(s) /\ j \notin 1..Len(s)
    <3>1. u[i] \in Range(s) /\ u[j] \in Range(t)
      BY <1>2, <1>3, <2>3
    <3> QED
      BY <1>5, <3>1 DEF Ahead
  <2>4. CASE i \notin 1..Len(s) /\ j \notin 1..Len(s)
    <3>1. /\ i - Len(s) \in 1..Len(t) /\ j - Len(s) \in 1..Len(t)
          /\ u[i] = t[i - Len(s)] /\ u[j] = t[j - Len(s)]
      BY <1>2, <2>4
    <3>2. i - Len(s) < j - Len(s)
      BY <1>1, <2>1
    <3> QED
      BY <1>5, <3>1, <3>2 DEF Rising
  <2>5. i \in 1..Len(s) \/ j \notin 1..Len(s)
    BY <1>1, <2>1
  <2> QED
    BY <2>2, <2>3, <2>4, <2>5
<1> QED
  BY <1>1, <1>4, <1>5 DEF u

LEMMA OneElement ==
    ASSUME NEW S, NEW x \in S
    PROVE  <<x>> \in Seq(S) /\ Range(<<x>>) = {x} /\ Rising(<<x>>)
<1>1. <<x>> \in Seq(S) /\ Len(<<x>>) = 1 /\ <<x>>[1] = x
  OBVIOUS
<1>2. Range(<<x>>) = {<<x>>[i] : i \in 1..1}
  BY <1>1, RangeIs
<1>3. \A i \in 1..1 : i = 1
  OBVIOUS
<1> QED
  BY <1>1, <1>2, <1>3 DEF Rising

LEMMA ShortIsRising ==
    ASSUME NEW S, NEW s \in Seq(S), Len(s) <= 1
    PROVE  Rising(s)
BY LenProperties DEF Rising

\* try_push.
LEMMA PushProperties ==
    ASSUME NEW S, NEW s \in Seq(S), NEW x \in S
    PROVE  /\ Append(s, x) \in Seq(S)
           /\ Len(Append(s, x)) = Len(s) + 1
           /\ Range(Append(s, x)) = Range(s) \union {x}
           /\ Rising(s) /\ Ahead(Range(s), {x}) => Rising(Append(s, x))
<1> DEFINE t == <<x>>
<1>1. Append(s, x) = s \o t
  BY AppendIsConcat
<1>2. Append(s, x) \in Seq(S) /\ Len(Append(s, x)) = Len(s) + 1
  BY AppendProperties
<1>3. t \in Seq(S) /\ Range(t) = {x} /\ Rising(t)
  BY OneElement
<1> HIDE DEF t
<1>4. /\ Range(s \o t) = Range(s) \union {x}
      /\ Rising(s) /\ Ahead(Range(s), {x}) => Rising(s \o t)
  <2>1. /\ Range(s \o t) = Range(s) \union Range(t)
        /\ Rising(s) /\ Rising(t) /\ Ahead(Range(s), Range(t))
             => Rising(s \o t)
    BY <1>3, JoinProperties
  <2> QED
    BY <1>3, <2>1
<1> QED
  BY <1>1, <1>2, <1>4

\* try_pop.
LEMMA PopProperties ==
    ASSUME NEW S, NEW s \in Seq(S), s # <<>>
    PROVE  /\ Head(s) \in S /\ Tail(s) \in Seq(S)
           /\ Len(Tail(s)) = Len(s) - 1
           /\ Range(s) = {Head(s)} \union Range(Tail(s))
           /\ Rising(s) => Rising(Tail(s)) /\ Ahead({Head(s)}, Range(Tail(s)))
<1> DEFINE t == Tail(s)
<1>1. /\ Head(s) \in S /\ Head(s) = s[1] /\ t \in Seq(S)
      /\ Len(s) \in Nat /\ Len(s) # 0 /\ Len(t) = Len(s) - 1
      /\ \A i \in 1..Len(t) : t[i] = s[i + 1]
  BY HeadTailProperties, EmptySeq, LenProperties
<1> HIDE DEF t
<1>2. /\ Range(s) = {s[i] : i \in 1..Len(s)}
      /\ Range(t) = {t[i] : i \in 1..Len(t)}
  BY <1>1, RangeIs
<1>3. \A i \in 1..Len(s) : i = 1 \/ (i - 1 \in 1..Len(t) /\ t[i - 1] = s[i])
  BY <1>1
<1>4. \A i \in 1..Len(t) : i + 1 \in 1..Len(s) /\ t[i] = s[i + 1]
  BY <1>1
<1>5. 1 \in 1..Len(s)
  BY <1>1
<1>6. Range(s) = {Head(s)} \union Range(t)
  <2>1. ASSUME NEW i \in 1..Len(s) PROVE s[i] \in {Head(s)} \union Range(t)
    BY <1>1, <1>2, <1>3
  <2>2. ASSUME NEW i \in 1..Len(t) PROVE t[i] \in Range(s)
    BY <1>2, <1>4
  <2>3. Head(s) \in Range(s)
    BY <1>1, <1>2, <1>5
  <2> QED
    BY <1>2, <2>1, <2>2, <2>3
<1>7. ASSUME Rising(s) PROVE Rising(t) /\ Ahead({Head(s)}, Range(t))
  <2>1. ASSUME NEW i \in 1..Len(t) PROVE Older(s[1], t[i])
    <3>1. i + 1 \in 1..Len(s) /\ 1 < i + 1
      BY <1>4, <2>1
    <3> QED
      BY <1>4, <1>5, <1>7, <3>1 DEF Rising
  <2>2. ASSUME NEW i \in 1..Len(t), NEW j \in 1..Len(t), i < j
        PROVE  Older(t[i], t[j])
    <3>1. i + 1 < j + 1
      BY <2>2
    <3> QED
      BY <1>4, <1>7, <3>1 DEF Rising
  <2> QED
    BY <1>1, <1>2, <2>1, <2>2 DEF Rising, Ahead
<1> QED
  BY <1>1, <1>6, <1>7 DEF t

-----------------------------------------------------------------------------
(* A packet that a callback holds.                                         *)

\* It is a packet, it is neither in line nor lost, and everything that is, of
\* the same publisher, is older.
LEMMA HeldIsNewest ==
    ASSUME TypeOK, CallHasPacket, Conserved,
           NEW p \in Publishers, caller[p] # "idle"
    PROVE  /\ <<p, made[p]>> \in Packet
           /\ <<p, made[p]>> \in InCall
           /\ <<p, made[p]>> \in Offered
           /\ <<p, made[p]>> \notin Line \union Lost
           /\ Ahead(Line \union Lost, {<<p, made[p]>>})
<1> DEFINE x == <<p, made[p]>>
<1>1. made[p] \in 1..MaxPackets /\ x[1] = p /\ x[2] = made[p]
  BY ProxyAssumption DEF TypeOK, CallHasPacket
<1>2. x \in Packet
  BY <1>1 DEF Packet
<1> HIDE DEF x
<1>3. x \in InCall /\ x \in Offered
  BY <1>1, <1>2 DEF InCall, Offered
<1>4. x \notin Line \union Lost
  BY <1>3 DEF Conserved
<1>5. ASSUME NEW k \in Line \union Lost PROVE Older(k, x)
  <2>1. k \in Packet /\ k[2] <= made[k[1]] /\ k \notin InCall
    BY DEF Conserved, Offered
  <2>2. k[2] \in Nat
    BY <2>1 DEF Packet
  <2>3. SUFFICES ASSUME k[1] = p PROVE k[2] < made[p]
    BY <1>1 DEF Older
  <2>4. k[2] # made[p]
    BY <2>1, <2>3 DEF InCall
  <2> QED
    BY <1>1, <2>1, <2>2, <2>3, <2>4
<1> QED
  BY <1>2, <1>3, <1>4, <1>5 DEF Ahead, x

-----------------------------------------------------------------------------
(* The steps.                                                              *)

\* Steps that move no packet.
LEMMA QuietSteps ==
    ASSUME PInv,
           \/ \E p \in Publishers : Measure(p)
           \/ WorkerTop
           \/ Start \/ StartBackend \/ StartFrontend \/ StartThrows \/ Stop
           \/ Stopping \/ Terminated \/ UNCHANGED vars
    PROVE  PInv'
<1> USE DEF PInv
<1>1. UNCHANGED <<queueVars, made, evicted, refused, hand, relayed, suppressed>>
  BY DEF Measure, WorkerTop, Start, StartBackend, StartFrontend, StartThrows,
     Stop, Stopping, FrontendStopped, Join, StopBackend, Terminated, vars,
     mainFrame, callerVars, workerVars
<1>2. \/ UNCHANGED caller
      \/ \E p \in Publishers :
           /\ caller[p] = "measure"
           /\ \/ caller' = [caller EXCEPT ![p] = "push"]
              \/ /\ caller' = [caller EXCEPT ![p] = "evict"]
                 /\ Len(queue) >= QueueCapacity
  BY DEF Measure, Goto, WorkerTop, Start, StartBackend, StartFrontend,
     StartThrows, Stop, Stopping, FrontendStopped, Join, StopBackend,
     Terminated, vars, mainFrame, callerVars, workerVars
<1>3. TypeOK'
  <2>1. caller' \in [Publishers -> CallerStates]
    BY <1>2 DEF TypeOK, CallerStates
  <2>2. main' \in MainStates /\ running' \in BOOLEAN /\ worker' \in WorkerStates
    BY DEF Measure, WorkerTop, Start, StartBackend, StartFrontend, StartThrows,
       Stop, Stopping, FrontendStopped, Join, StopBackend, Terminated, vars,
       mainFrame, callerVars, workerVars, TypeOK, MainStates, WorkerStates
  <2> QED
    BY <1>1, <2>1, <2>2 DEF TypeOK, queueVars
<1>4. NoThreadYet' /\ HandIsFull'
  BY <1>1 DEF Measure, WorkerTop, Start, StartBackend, StartFrontend,
     StartThrows, Stop, Stopping, FrontendStopped, Join, StopBackend,
     Terminated, vars, mainFrame, callerVars, workerVars, HandIsFull,
     NoThreadYet
<1>5. \A p \in Publishers : (caller'[p] = "idle") <=> (caller[p] = "idle")
  BY <1>2 DEF TypeOK
<1>6. CallHasPacket'
  BY <1>1, <1>5 DEF CallHasPacket
<1>7. UNCHANGED <<Offered, InCall, Line, Lost>>
  <2>1. UNCHANGED <<Offered, Line, Lost>>
    BY <1>1 DEF Offered, Line, Lost, queueVars
  <2>2. InCall' = InCall
    BY <1>1, <1>5 DEF InCall, Packet
  <2> QED
    BY <2>1, <2>2
<1>8. Conserved' /\ Ordered'
  BY <1>1, <1>7 DEF Conserved, Ordered, queueVars
<1>9. Pressure' /\ LossNeedsPressure'
  BY <1>1, <1>2 DEF Pressure, LossNeedsPressure, queueVars, TypeOK
<1>10. StoppedIsQuiet'
  <2>1. ASSUME NEW p \in Publishers, Measure(p) PROVE StoppedIsQuiet'
    BY <2>1, <1>5 DEF Measure, StoppedIsQuiet, workerVars
  <2>2. CASE WorkerTop
    BY <2>2 DEF WorkerTop, StoppedIsQuiet, callerVars
  <2>3. CASE Start \/ StartBackend \/ StartFrontend \/ StartThrows \/ Stop
    BY <2>3 DEF Start, StartBackend, StartFrontend, StartThrows, Stop,
       StoppedIsQuiet, mainFrame, callerVars
  <2>4. CASE FrontendStopped \/ Join \/ StopBackend
    BY <2>4 DEF FrontendStopped, Join, StopBackend, StoppedIsQuiet, mainFrame,
       callerVars
  <2>5. CASE Terminated \/ UNCHANGED vars
    BY <2>5 DEF Terminated, vars, callerVars, workerVars, StoppedIsQuiet
  <2> QED
    BY <2>1, <2>2, <2>3, <2>4, <2>5 DEF Stopping
<1> QED
  BY <1>3, <1>4, <1>6, <1>8, <1>9, <1>10

\* A packet is offered.
LEMMA CallbackStep ==
    ASSUME PInv, NEW p \in Publishers, Callback(p)
    PROVE  PInv'
<1> USE DEF PInv
<1> DEFINE x == <<p, made[p] + 1>>
<1>1. /\ UNCHANGED <<main, running, queue, wasFull, worker, hand, relayed,
                     suppressed, evicted, refused>>
      /\ made' = [made EXCEPT ![p] = @ + 1]
      /\ caller' = [caller EXCEPT ![p] = "measure"]
      /\ caller[p] = "idle" /\ made[p] < MaxPackets /\ made[p] \in Nat
      /\ FrontendUp
  BY DEF Callback, Goto, queueVars, workerVars, TypeOK
<1>2. TypeOK'
  BY <1>1, ProxyAssumption DEF TypeOK, CallerStates
<1>3. NoThreadYet' /\ HandIsFull' /\ CallHasPacket'
  BY <1>1 DEF NoThreadYet, HandIsFull, CallHasPacket, TypeOK
<1>4. UNCHANGED <<Line, Lost>>
  BY <1>1 DEF Line, Lost
<1>5. Offered' \ InCall' = Offered \ InCall
  <2>1. ASSUME NEW k \in Packet
        PROVE  k \in Offered' \ InCall' <=> k \in Offered \ InCall
    <3>1. k[1] \in Publishers /\ k[2] \in Nat
      BY DEF Packet
    <3>2. CASE k[1] = p
      BY <1>1, <3>1, <3>2 DEF Offered, InCall, TypeOK
    <3>3. CASE k[1] # p
      BY <1>1, <3>1, <3>3 DEF Offered, InCall, TypeOK
    <3> QED
      BY <3>2, <3>3
  <2> QED
    BY <2>1 DEF Offered
<1>6. Conserved' /\ Ordered'
  BY <1>1, <1>4, <1>5 DEF Conserved, Ordered
<1>7. Pressure' /\ LossNeedsPressure'
  BY <1>1 DEF Pressure, LossNeedsPressure, TypeOK
<1>8. StoppedIsQuiet'
  BY <1>1 DEF StoppedIsQuiet, FrontendUp
<1> QED
  BY <1>2, <1>3, <1>6, <1>7, <1>8

\* The oldest packet in the queue makes way.
LEMMA EvictStep ==
    ASSUME PInv, NEW p \in Publishers, Evict(p)
    PROVE  PInv'
<1> USE DEF PInv
<1> DEFINE x == Head(queue)
<1>1. /\ UNCHANGED <<main, running, wasFull, worker, hand, relayed,
                     suppressed, refused, made>>
      /\ caller' \in [Publishers -> CallerStates]
      /\ caller[p] = "evict"
      /\ \A q \in Publishers : /\ (caller'[q] = "idle") <=> (caller[q] = "idle")
                               /\ caller'[q] = "evict" => caller[q] = "evict"
  BY DEF Evict, Goto, workerVars, TypeOK, CallerStates
<1>2. UNCHANGED <<Offered, InCall>>
  BY <1>1 DEF Offered, InCall, Packet
<1>3. /\ NoThreadYet' /\ HandIsFull' /\ CallHasPacket' /\ StoppedIsQuiet'
  BY <1>1 DEF NoThreadYet, HandIsFull, CallHasPacket, StoppedIsQuiet
<1>4. CASE queue = <<>>
  <2>1. UNCHANGED <<queue, evicted>>
    BY <1>4 DEF Evict
  <2>2. TypeOK'
    BY <1>1, <2>1 DEF TypeOK
  <2>3. UNCHANGED <<Line, Lost>>
    BY <1>1, <2>1 DEF Line, Lost
  <2>4. Conserved' /\ Ordered'
    BY <1>1, <1>2, <2>1, <2>3 DEF Conserved, Ordered
  <2>5. Pressure' /\ LossNeedsPressure'
    BY <1>1, <2>1 DEF Pressure, LossNeedsPressure
  <2> QED
    BY <1>3, <2>2, <2>4, <2>5
<1>5. CASE queue # <<>>
  <2>1. queue' = Tail(queue) /\ evicted' = evicted \union {x}
    BY <1>5 DEF Evict
  <2>2. /\ x \in Packet /\ queue' \in Seq(Packet)
        /\ Len(queue') = Len(queue) - 1 /\ Len(queue) \in Nat
        /\ Range(queue) = {x} \union Range(queue')
        /\ Rising(queue') /\ Ahead({x}, Range(queue'))
    BY <1>5, <2>1, PopProperties, LenProperties DEF TypeOK, Ordered
  <2>3. TypeOK'
    BY <1>1, <2>1, <2>2, ProxyAssumption DEF TypeOK
  <2>4. x \notin Range(relayed) \union Range(hand) \union Range(queue')
    <3>1. ~Older(x, x)
      BY <2>2 DEF Older, Packet
    <3>2. x \notin Range(queue')
      BY <2>2, <3>1 DEF Ahead
    <3>3. x \notin Range(relayed) \union Range(hand)
      BY <2>2, <3>1 DEF Ahead, Ordered
    <3> QED
      BY <3>2, <3>3
  <2>5. Conserved'
    <3>1. Line = Line' \union {x} /\ x \notin Line'
      BY <1>1, <2>2, <2>4 DEF Line
    <3>2. Lost' = Lost \union {x}
      BY <1>1, <2>1 DEF Lost
    <3>3. x \notin Lost
      BY <3>1 DEF Conserved
    <3>4. x \notin suppressed /\ x \notin refused
      BY <3>3 DEF Lost
    <3>5. Line' \union Lost' = Offered' \ InCall' /\ Line' \intersect Lost' = {}
      BY <1>2, <3>1, <3>2 DEF Conserved
    <3> QED
      BY <1>1, <2>1, <3>4, <3>5 DEF Conserved
  <2>6. Ordered'
    BY <1>1, <2>1, <2>2 DEF Ordered, Ahead
  <2>7. Pressure' /\ LossNeedsPressure'
    BY <1>1, <2>2, ProxyAssumption DEF Pressure, LossNeedsPressure
  <2> QED
    BY <1>3, <2>3, <2>5, <2>6, <2>7
<1> QED
  BY <1>4, <1>5

\* The newest packet of all is queued or refused.
LEMMA PushStep ==
    ASSUME PInv, NEW p \in Publishers, Push(p)
    PROVE  PInv'
<1> USE DEF PInv
<1> DEFINE x == <<p, made[p]>>
<1>1. /\ UNCHANGED <<main, running, worker, hand, relayed, suppressed, evicted,
                     made>>
      /\ caller' = [caller EXCEPT ![p] = "idle"]
      /\ wasFull' = (wasFull \/ Len(queue') = QueueCapacity)
      /\ caller[p] = "push"
  BY DEF Push, Goto, workerVars
<1>2. /\ x \in Packet /\ x \in InCall /\ x \in Offered
      /\ x \notin Line \union Lost
      /\ Ahead(Line \union Lost, {x})
  BY <1>1, HeldIsNewest
<1>3. Offered' \ InCall' = (Offered \ InCall) \union {x}
  <2>1. Offered' = Offered
    BY <1>1 DEF Offered
  <2>2. InCall' = InCall \ {x}
    <3>1. ASSUME NEW k \in Packet
          PROVE  k \in InCall' <=> k \in InCall /\ k # x
      <4>1. k[1] \in Publishers /\ k = <<k[1], k[2]>>
        BY DEF Packet
      <4>2. CASE k[1] = p
        BY <1>1, <4>1, <4>2 DEF InCall, TypeOK
      <4>3. CASE k[1] # p
        BY <1>1, <4>1, <4>3 DEF InCall, TypeOK
      <4> QED
        BY <4>2, <4>3
    <3> QED
      BY <3>1 DEF InCall
  <2> QED
    BY <1>2, <2>1, <2>2
<1> HIDE DEF x
<1>4. /\ NoThreadYet' /\ HandIsFull' /\ CallHasPacket' /\ StoppedIsQuiet'
  BY <1>1 DEF NoThreadYet, HandIsFull, CallHasPacket, StoppedIsQuiet, TypeOK
<1>5. queue \in Seq(Packet) /\ Len(queue) \in Nat
  BY LenProperties DEF TypeOK
<1>6. CASE Len(queue) < QueueCapacity
  <2>1. queue' = Append(queue, x) /\ refused' = refused
    BY <1>6 DEF Push, x
  <2>2. Ahead(Range(queue), {x})
    BY <1>2 DEF Ahead, Line
  <2>3. /\ queue' \in Seq(Packet)
        /\ Len(queue') = Len(queue) + 1
        /\ Range(queue') = Range(queue) \union {x}
        /\ Rising(queue')
    BY <1>2, <1>5, <2>1, <2>2, PushProperties DEF Ordered
  <2>4. TypeOK'
    BY <1>1, <1>5, <1>6, <2>1, <2>3, ProxyAssumption DEF TypeOK, CallerStates
  <2>5. Conserved'
    <3>1. Line' = Line \union {x} /\ Lost' = Lost
      BY <1>1, <2>1, <2>3 DEF Line, Lost
    <3>2. Line' \union Lost' = Offered' \ InCall' /\ Line' \intersect Lost' = {}
      BY <1>2, <1>3, <3>1 DEF Conserved
    <3> QED
      BY <1>1, <2>1, <3>2 DEF Conserved
  <2>6. Ordered'
    <3>1. \A k \in Range(relayed) \union Range(hand) \union suppressed \union evicted :
            Older(k, x)
      BY <1>2 DEF Ahead, Line, Lost
    <3> QED
      BY <1>1, <2>3, <3>1 DEF Ordered, Ahead
  <2>7. Pressure' /\ LossNeedsPressure'
    <3>1. Len(queue') >= QueueCapacity => Len(queue') = QueueCapacity
      BY <1>5, <1>6, <2>3, ProxyAssumption
    <3>2. wasFull => wasFull'
      BY <1>1
    <3>3. \A q \in Publishers : caller'[q] = "evict" => caller[q] = "evict"
      BY <1>1 DEF TypeOK
    <3> QED
      BY <1>1, <2>1, <3>1, <3>2, <3>3 DEF Pressure, LossNeedsPressure
  <2> QED
    BY <1>4, <2>4, <2>5, <2>6, <2>7
<1>7. CASE ~(Len(queue) < QueueCapacity)
  <2>1. queue' = queue /\ refused' = refused \union {x}
    BY <1>7 DEF Push, x
  <2>2. TypeOK'
    BY <1>1, <1>2, <2>1 DEF TypeOK, CallerStates
  <2>3. Conserved'
    <3>1. Line' = Line /\ Lost' = Lost \union {x}
      BY <1>1, <2>1 DEF Line, Lost
    <3>2. Line' \union Lost' = Offered' \ InCall' /\ Line' \intersect Lost' = {}
      BY <1>2, <1>3, <3>1 DEF Conserved
    <3>3. x \notin suppressed /\ x \notin evicted
      BY <1>2 DEF Lost
    <3> QED
      BY <1>1, <2>1, <3>2, <3>3 DEF Conserved
  <2>4. Ordered'
    BY <1>1, <2>1 DEF Ordered
  <2>5. Pressure' /\ LossNeedsPressure'
    <3>1. Len(queue) >= QueueCapacity
      BY <1>5, <1>7, ProxyAssumption
    <3>2. wasFull /\ wasFull'
      BY <1>1, <3>1 DEF Pressure
    <3> QED
      BY <3>2 DEF Pressure, LossNeedsPressure
  <2> QED
    BY <1>4, <2>2, <2>3, <2>4, <2>5
<1> QED
  BY <1>6, <1>7

\* The propagator takes the oldest packet in the queue.
LEMMA PopStep ==
    ASSUME PInv, WorkerPop
    PROVE  PInv'
<1> USE DEF PInv
<1> DEFINE x == Head(queue)
<1>1. /\ UNCHANGED <<main, running, wasFull, caller, made, evicted, refused,
                     relayed, suppressed>>
      /\ worker = "pop" /\ hand = <<>>
  BY DEF WorkerPop, callerVars, HandIsFull
<1>2. UNCHANGED <<Offered, InCall, Lost>>
  BY <1>1 DEF Offered, InCall, Packet, Lost
<1>3. NoThreadYet' /\ CallHasPacket' /\ StoppedIsQuiet'
  BY <1>1 DEF NoThreadYet, CallHasPacket, StoppedIsQuiet
<1>4. CASE queue = <<>>
  <2>1. UNCHANGED <<queue, hand>> /\ worker' = "top"
    BY <1>4 DEF WorkerPop
  <2>2. TypeOK' /\ HandIsFull'
    BY <1>1, <2>1 DEF TypeOK, HandIsFull, WorkerStates
  <2>3. Conserved' /\ Ordered'
    BY <1>1, <1>2, <2>1 DEF Conserved, Ordered, Line
  <2>4. Pressure' /\ LossNeedsPressure'
    BY <1>1, <2>1 DEF Pressure, LossNeedsPressure
  <2> QED
    BY <1>3, <2>2, <2>3, <2>4
<1>5. CASE queue # <<>>
  <2>1. /\ queue' = Tail(queue) /\ hand' = <<x>>
        /\ worker' \in {"judge", "send"}
    BY <1>5 DEF WorkerPop
  <2>2. /\ x \in Packet /\ queue' \in Seq(Packet)
        /\ Len(queue') = Len(queue) - 1 /\ Len(queue) \in Nat
        /\ Range(queue) = {x} \union Range(queue')
        /\ Rising(queue') /\ Ahead({x}, Range(queue'))
    BY <1>5, <2>1, PopProperties, LenProperties DEF TypeOK, Ordered
  <2>3. hand' \in Seq(Packet) /\ Len(hand') = 1 /\ hand' # <<>>
    BY <2>1, <2>2
  <2>4. Range(hand') = {x} /\ Range(hand) = {}
    BY <1>1, <2>1, <2>2, OneElement, RangeOfEmpty
  <2>5. TypeOK' /\ HandIsFull'
    BY <1>1, <2>1, <2>2, <2>3, ProxyAssumption
    DEF TypeOK, HandIsFull, WorkerStates
  <2>6. Conserved'
    <3>1. Line' = Line
      BY <1>1, <2>2, <2>4 DEF Line
    <3> QED
      BY <1>1, <1>2, <3>1 DEF Conserved
  <2>7. Ordered'
    BY <1>1, <2>2, <2>4 DEF Ordered, Ahead
  <2>8. Pressure' /\ LossNeedsPressure'
    BY <1>1, <2>2, ProxyAssumption DEF Pressure, LossNeedsPressure
  <2> QED
    BY <1>3, <2>5, <2>6, <2>7, <2>8
<1> QED
  BY <1>4, <1>5

\* The packet in the hand leaves it for the suppressed ones.
LEMMA JudgeStep ==
    ASSUME PInv, WorkerJudge
    PROVE  PInv'
<1> USE DEF PInv
<1>1. /\ UNCHANGED <<main, running, queue, wasFull, caller, made, evicted,
                     refused, relayed>>
      /\ worker = "judge" /\ hand # <<>>
      /\ \/ worker' = "send" /\ UNCHANGED <<hand, suppressed>>
         \/ /\ worker' = "top"
            /\ suppressed' = suppressed \union Range(hand)
            /\ hand' = <<>>
  BY DEF WorkerJudge, queueVars, callerVars, HandIsFull
<1>2. UNCHANGED <<Offered, InCall>>
  BY <1>1 DEF Offered, InCall, Packet
<1>3. NoThreadYet' /\ CallHasPacket' /\ StoppedIsQuiet'
  BY <1>1 DEF NoThreadYet, CallHasPacket, StoppedIsQuiet
<1>4. Pressure' /\ LossNeedsPressure'
  BY <1>1 DEF Pressure, LossNeedsPressure
<1>5. CASE worker' = "send" /\ UNCHANGED <<hand, suppressed>>
  <2>1. TypeOK' /\ HandIsFull'
    BY <1>1, <1>5 DEF TypeOK, HandIsFull, WorkerStates
  <2>2. Conserved' /\ Ordered'
    BY <1>1, <1>2, <1>5 DEF Conserved, Ordered, Line, Lost
  <2> QED
    BY <1>3, <1>4, <2>1, <2>2
<1>6. CASE /\ worker' = "top"
           /\ suppressed' = suppressed \union Range(hand)
           /\ hand' = <<>>
  <2>1. Range(hand) \subseteq Packet /\ Range(hand') = {}
    BY <1>6, RangeIs, RangeOfEmpty DEF TypeOK
  <2>2. TypeOK' /\ HandIsFull'
    BY <1>1, <1>6, <2>1, EmptySeq DEF TypeOK, HandIsFull, WorkerStates
  <2>3. \A k \in Range(hand) : k \notin Range(relayed) \union Range(queue)
    <3>1. \A k \in Packet : ~Older(k, k)
      BY DEF Older, Packet
    <3> QED
      BY <2>1, <3>1 DEF Ordered, Ahead
  <2>4. Conserved'
    <3>1. Line' = Line \ Range(hand) /\ Lost' = Lost \union Range(hand)
      BY <1>1, <1>6, <2>1, <2>3 DEF Line, Lost
    <3>2. Range(hand) \subseteq Line
      BY DEF Line
    <3>3. Range(hand) \intersect (evicted \union refused) = {}
      BY <3>2 DEF Conserved, Lost
    <3>4. Line' \union Lost' = Offered' \ InCall' /\ Line' \intersect Lost' = {}
      BY <1>2, <3>1, <3>2 DEF Conserved
    <3> QED
      BY <1>1, <1>6, <3>3, <3>4 DEF Conserved
  <2>5. Ordered'
    BY <1>1, <1>6, <2>1 DEF Ordered, Ahead
  <2> QED
    BY <1>3, <1>4, <2>2, <2>4, <2>5
<1> QED
  BY <1>1, <1>5, <1>6

\* The packet in the hand is relayed.
LEMMA SendStep ==
    ASSUME PInv, WorkerSend
    PROVE  PInv'
<1> USE DEF PInv
<1>1. /\ UNCHANGED <<main, running, queue, wasFull, caller, made, evicted,
                     refused, suppressed>>
      /\ worker = "send" /\ worker' = "top"
      /\ relayed' = relayed \o hand /\ hand' = <<>>
  BY DEF WorkerSend, queueVars, callerVars
<1>2. UNCHANGED <<Offered, InCall, Lost>>
  BY <1>1 DEF Offered, InCall, Packet, Lost
<1>3. NoThreadYet' /\ CallHasPacket' /\ StoppedIsQuiet'
  BY <1>1 DEF NoThreadYet, CallHasPacket, StoppedIsQuiet
<1>4. Pressure' /\ LossNeedsPressure'
  BY <1>1 DEF Pressure, LossNeedsPressure
<1>5. Rising(hand)
  BY ShortIsRising DEF TypeOK
<1>6. /\ relayed' \in Seq(Packet) /\ Rising(relayed')
      /\ Range(relayed') = Range(relayed) \union Range(hand)
  BY <1>1, <1>5, JoinProperties DEF TypeOK, Ordered
<1>7. Range(hand') = {}
  BY <1>1, RangeOfEmpty
<1>8. TypeOK' /\ HandIsFull'
  BY <1>1, <1>6, EmptySeq DEF TypeOK, HandIsFull, WorkerStates
<1>9. Conserved'
  <2>1. Line' = Line
    BY <1>1, <1>6, <1>7 DEF Line
  <2> QED
    BY <1>1, <1>2, <2>1 DEF Conserved
<1>10. Ordered'
  BY <1>1, <1>6, <1>7 DEF Ordered, Ahead
<1> QED
  BY <1>3, <1>4, <1>8, <1>9, <1>10

-----------------------------------------------------------------------------
(* The invariant.                                                          *)

LEMMA Initially == Init => PInv
<1> SUFFICES ASSUME Init PROVE PInv
  OBVIOUS
<1>1. TypeOK /\ NoThreadYet /\ HandIsFull /\ CallHasPacket
  <2>1. <<>> \in Seq(Packet) /\ Len(<<>>) = 0
    BY EmptySeq
  <2>2. main \in MainStates /\ worker \in WorkerStates
    BY DEF Init, MainStates, WorkerStates
  <2>3. caller \in [Publishers -> CallerStates]
    BY DEF Init, CallerStates
  <2>4. made \in [Publishers -> 0..MaxPackets]
    BY ProxyAssumption DEF Init
  <2>5. running \in BOOLEAN /\ wasFull \in BOOLEAN
    BY DEF Init
  <2>6. TypeOK
    BY <2>1, <2>2, <2>3, <2>4, <2>5, ProxyAssumption DEF Init, TypeOK
  <2> QED
    BY <2>6 DEF Init, NoThreadYet, HandIsFull, CallHasPacket
<1>2. Line = {} /\ Lost = {}
  BY RangeOfEmpty DEF Init, Line, Lost
<1>3. Offered = {}
  BY DEF Init, Offered, Packet
<1>4. Conserved
  BY <1>2, <1>3 DEF Init, Conserved
<1>5. Ordered
  BY <1>2, EmptySeq, RangeOfEmpty DEF Init, Ordered, Rising, Ahead
<1>6. Pressure /\ LossNeedsPressure
  BY EmptySeq, ProxyAssumption DEF Init, Pressure, LossNeedsPressure
<1>7. StoppedIsQuiet
  BY DEF Init, StoppedIsQuiet
<1> QED
  BY <1>1, <1>4, <1>5, <1>6, <1>7 DEF PInv

LEMMA Inductive == PInv /\ [Next]_vars => PInv'
BY QuietSteps, CallbackStep, EvictStep, PushStep, PopStep, JudgeStep, SendStep
DEF Next, InCallback, Propagator

\* PInv holds in every reachable state: what the theorems below rest on.
THEOREM Invariance == Spec => []PInv
BY Initially, Inductive, PTL DEF Spec

\* Every variable keeps its type, and the import queue its capacity, however
\* callbacks and propagator interleave.
THEOREM TypeCorrectness == Spec => []TypeOK
BY Invariance, PTL DEF PInv

\* The code throws nothing away, by eviction or by a failed try_push, unless
\* the queue has been at its capacity.
THEOREM PressureOnly == Spec => []LossNeedsPressure
BY Invariance, PTL DEF PInv

-----------------------------------------------------------------------------
(* Order and conservation.                                                 *)

\* The whole line as one sequence.
LEMMA LineIsRising ==
    ASSUME PInv
    PROVE  /\ relayed \o hand \o queue \in Seq(Packet)
           /\ Range(relayed \o hand \o queue) = Line
           /\ Rising(relayed \o hand \o queue)
<1> DEFINE front == relayed \o hand
<1>1. /\ relayed \in Seq(Packet) /\ hand \in Seq(Packet) /\ queue \in Seq(Packet)
      /\ Rising(relayed) /\ Rising(hand) /\ Rising(queue)
  BY ShortIsRising DEF PInv, TypeOK, Ordered
<1>2. /\ front \in Seq(Packet) /\ Rising(front)
      /\ Range(front) = Range(relayed) \union Range(hand)
  BY <1>1, JoinProperties DEF PInv, Ordered
<1> HIDE DEF front
<1>3. Ahead(Range(front), Range(queue))
  BY <1>2 DEF PInv, Ordered, Ahead
<1>4. /\ front \o queue \in Seq(Packet)
      /\ Range(front \o queue) = Range(front) \union Range(queue)
      /\ Rising(front) /\ Rising(queue) /\ Ahead(Range(front), Range(queue))
           => Rising(front \o queue)
  BY <1>1, <1>2, JoinProperties
<1> QED
  BY <1>1, <1>2, <1>3, <1>4 DEF front, Line

\* A publisher's packets leave the queue in the order in which it sent them,
\* whichever way they leave: evictions by other readers do not let a newer
\* packet past an older one.
THEOREM OrderPerPublisher == Spec => []PublisherOrder
<1>1. PInv => PublisherOrder
  <2> SUFFICES ASSUME PInv PROVE PublisherOrder
    OBVIOUS
  <2> DEFINE line == relayed \o hand \o queue
  <2>1. line \in Seq(Packet) /\ Rising(line)
    BY LineIsRising
  <2> HIDE DEF line
  <2>2. \A i, j \in DOMAIN line :
          i < j /\ line[i][1] = line[j][1] => line[i][2] < line[j][2]
    BY <2>1, LenProperties DEF Rising, Older
  <2>3. \A i \in DOMAIN queue : queue[i] \in Range(queue)
    BY DEF Range
  <2>4. \A k \in suppressed \union evicted : \A i \in DOMAIN queue :
          k[1] = queue[i][1] => k[2] < queue[i][2]
    BY <2>3 DEF PInv, Ordered, Ahead, Older
  <2> QED
    BY <2>2, <2>4 DEF PublisherOrder, line
<1> QED
  BY <1>1, Invariance, PTL

\* Every packet is in the line once or not at all.
LEMMA CopiesAre ==
    ASSUME PInv, NEW k \in Packet
    PROVE  Copies(k) = IF k \in Line THEN 1 ELSE 0
<1> DEFINE line == relayed \o hand \o queue
           C == {i \in DOMAIN line : line[i] = k}
<1>1. line \in Seq(Packet) /\ Range(line) = Line /\ Rising(line)
  BY LineIsRising
<1>2. Copies(k) = Cardinality(C)
  BY DEF Copies
<1> HIDE DEF line
<1>3. DOMAIN line = 1..Len(line) /\ Len(line) \in Nat
  BY <1>1, LenProperties
<1>4. CASE k \notin Line
  <2>1. C = {}
    BY <1>1, <1>4 DEF Range
  <2> QED
    BY <1>2, <1>4, <2>1, FS_EmptySet
<1>5. CASE k \in Line
  <2>1. PICK i \in DOMAIN line : line[i] = k
    BY <1>1, <1>5 DEF Range
  <2>2. ASSUME NEW j \in DOMAIN line, line[j] = k PROVE j = i
    <3>1. ~Older(k, k)
      BY DEF Older, Packet
    <3>2. ~(i < j) /\ ~(j < i)
      BY <1>1, <1>3, <2>1, <2>2, <3>1 DEF Rising
    <3> QED
      BY <1>3, <3>2
  <2>3. C = {i}
    BY <2>1, <2>2
  <2> QED
    BY <1>2, <1>5, <2>3, FS_Singleton
<1> QED
  BY <1>4, <1>5

\* Every packet given to addPacketCallback is in exactly one place: none is
\* relayed twice, none disappears without a trace.
THEOREM NothingUnaccounted == Spec => []Accounted
<1>1. PInv => Accounted
  <2> SUFFICES ASSUME PInv, NEW k \in Packet
               PROVE  Copies(k) + Fate(k) = IF k \in Offered THEN 1 ELSE 0
    BY DEF Accounted
  <2>1. /\ Line \union Lost = Offered \ InCall /\ Line \intersect Lost = {}
        /\ suppressed \intersect evicted = {}
        /\ suppressed \intersect refused = {}
        /\ evicted \intersect refused = {}
    BY DEF PInv, Conserved
  <2>2. Copies(k) = IF k \in Line THEN 1 ELSE 0
    BY CopiesAre
  <2>3. CASE k \in InCall
    <3>1. k \in Offered
      <4>1. k[1] \in Publishers /\ made[k[1]] \in Nat
        BY DEF PInv, TypeOK, Packet
      <4> QED
        BY <2>3, <4>1 DEF InCall, Offered
    <3>2. k \notin Line /\ k \notin suppressed /\ k \notin evicted /\ k \notin refused
      BY <2>1, <2>3 DEF Lost
    <3> QED
      BY <2>2, <2>3, <3>1, <3>2 DEF Fate
  <2>4. CASE k \notin InCall /\ k \in Offered
    <3>1. \/ k \in Line /\ k \notin suppressed /\ k \notin evicted /\ k \notin refused
          \/ k \notin Line /\ k \in suppressed /\ k \notin evicted /\ k \notin refused
          \/ k \notin Line /\ k \notin suppressed /\ k \in evicted /\ k \notin refused
          \/ k \notin Line /\ k \notin suppressed /\ k \notin evicted /\ k \in refused
      BY <2>1, <2>4 DEF Lost
    <3> QED
      BY <2>2, <2>4, <3>1 DEF Fate
  <2>5. CASE k \notin InCall /\ k \notin Offered
    <3>1. k \notin Line /\ k \notin suppressed /\ k \notin evicted /\ k \notin refused
      BY <2>1, <2>5 DEF Lost
    <3> QED
      BY <2>2, <2>5, <3>1 DEF Fate
  <2> QED
    BY <2>3, <2>4, <2>5
<1> QED
  BY <1>1, Invariance, PTL

-----------------------------------------------------------------------------
(* The refinement.                                                         *)

\* What is offered and not yet relayed or lost is in a call, in the
\* propagator's hand or in the queue.
LEMMA PendingIs ==
    ASSUME PInv, NEW p \in Publishers, NEW n \in 1..made[p]
    PROVE  /\ Abstract!Pending(p, n) <=>
                <<p, n>> \in InCall \union Range(hand) \union Range(queue)
           /\ <<p, n>> \in Packet
<1> DEFINE x == <<p, n>>
<1>1. made[p] \in 0..MaxPackets /\ MaxPackets \in Nat
  BY ProxyAssumption DEF PInv, TypeOK
<1>2. x \in Packet /\ x \in Offered
  BY <1>1 DEF Packet, Offered
<1>3. /\ Line \union Lost = Offered \ InCall /\ Line \intersect Lost = {}
  BY DEF PInv, Conserved
<1>4. Abstract!Pending(p, n) <=> x \notin Lost \union Range(relayed)
  BY DEF Abstract!Pending, Lost, Abstract!Range, Range
<1>5. \A k \in Range(hand) \union Range(queue) : k \notin Range(relayed)
  <2>1. \A k \in Packet : ~Older(k, k)
    BY DEF Older, Packet
  <2>2. Range(hand) \union Range(queue) \subseteq Packet
    BY <1>3 DEF Line, Offered
  <2> QED
    BY <2>1, <2>2 DEF PInv, Ordered, Ahead
<1> HIDE DEF x
<1> QED
  BY <1>2, <1>3, <1>4, <1>5 DEF Line, x

\* Whoever gives up a packet that is pending loses it in the abstract relay.
LEMMA LoseOne ==
    ASSUME PInv, NEW k \in InCall \union Range(hand) \union Range(queue),
           UNCHANGED <<made, relayed>>, Lost' = Lost \union {k}
    PROVE  Abstract!Next
<1> DEFINE p == k[1]
           n == k[2]
<1>1. k \in Packet /\ k[2] <= made[k[1]]
  <2>1. CASE k \in InCall
    BY <2>1 DEF PInv, TypeOK, InCall, Packet
  <2>2. CASE k \in Range(hand) \union Range(queue)
    BY <2>2 DEF PInv, Conserved, Line, Offered
  <2> QED
    BY <2>1, <2>2
<1>2. p \in Publishers /\ n \in 1..made[p] /\ k = <<p, n>>
  BY <1>1 DEF Packet, PInv, TypeOK
<1> HIDE DEF p, n
<1>3. Abstract!Pending(p, n)
  BY <1>2, PendingIs
<1>4. Abstract!Lose(p)
  BY <1>2, <1>3 DEF Abstract!Lose, Lost
<1> QED
  BY <1>2, <1>4 DEF Abstract!Next

\* The packet in the hand is the oldest of its publisher that is pending.
LEMMA SendRefines ==
    ASSUME PInv, WorkerSend
    PROVE  Abstract!Next
<1> DEFINE k == hand[1]
<1>1. /\ UNCHANGED <<made, Lost>> /\ relayed' = relayed \o hand /\ hand # <<>>
  BY DEF WorkerSend, callerVars, Lost, PInv, HandIsFull
<1>2. hand \in Seq(Packet) /\ Len(hand) = 1
  <2>1. hand \in Seq(Packet) /\ Len(hand) <= 1
    BY DEF PInv, TypeOK
  <2>2. Len(hand) \in Nat \ {0}
    BY <1>1, <2>1, EmptySeq
  <2> QED
    BY <2>1, <2>2
<1>3. k \in Range(hand) /\ k \in Packet /\ hand = <<k>>
  <2>1. DOMAIN hand = 1..1 /\ k \in Packet
    BY <1>2, LenProperties, ElementOfSeq
  <2>2. k \in Range(hand)
    BY <2>1 DEF Range
  <2>3. hand = <<k>>
    BY <1>2, <2>1
  <2> QED
    BY <2>1, <2>2, <2>3
<1>4. relayed' = Append(relayed, k)
  BY <1>1, <1>3, AppendIsConcat DEF PInv, TypeOK
<1> HIDE DEF k
<1> DEFINE p == k[1]
           n == k[2]
<1>5. p \in Publishers /\ n \in 1..made[p] /\ k = <<p, n>>
  <2>1. k[2] <= made[k[1]]
    BY <1>3 DEF PInv, Conserved, Line, Offered
  <2> QED
    BY <1>3, <2>1 DEF Packet, PInv, TypeOK
<1> HIDE DEF p, n
<1>6. Abstract!Pending(p, n)
  BY <1>3, <1>5, PendingIs
<1>7. ASSUME NEW m \in 1..n - 1 PROVE ~Abstract!Pending(p, m)
  <2> DEFINE j == <<p, m>>
  <2>1. made[p] \in Nat /\ m \in 1..made[p] /\ m < n /\ m # made[p]
    BY <1>5 DEF PInv, TypeOK
  <2>2. j[1] = p /\ j[2] = m /\ ~Older(k, j) /\ j # k
    BY <1>5, <2>1 DEF Older
  <2> HIDE DEF j
  <2>3. j \notin InCall
    BY <2>1, <2>2 DEF InCall
  <2>4. j \notin Range(hand)
    <3>1. Range(hand) = {k}
      BY <1>3, OneElement
    <3> QED
      BY <2>2, <3>1
  <2>5. j \notin Range(queue)
    BY <1>3, <2>2 DEF PInv, Ordered, Ahead
  <2> QED
    BY <1>5, <2>1, <2>3, <2>4, <2>5, PendingIs DEF j
<1>8. Abstract!Send(p)
  BY <1>1, <1>4, <1>5, <1>6, <1>7 DEF Abstract!Send, Lost
<1> QED
  BY <1>5, <1>8 DEF Abstract!Next

LEMMA StepRefines ==
    ASSUME PInv, [Next]_vars
    PROVE  Abstract!Next \/ UNCHANGED Abstract!vars
<1>1. ASSUME NEW p \in Publishers, Callback(p) PROVE Abstract!Next
  <2>1. Abstract!Offer(p)
    BY <1>1 DEF Callback, workerVars, Abstract!Offer
  <2> QED
    BY <2>1 DEF Abstract!Next
<1>2. ASSUME NEW p \in Publishers, Evict(p)
      PROVE  Abstract!Next \/ UNCHANGED Abstract!vars
  <2>1. UNCHANGED <<made, relayed, suppressed, refused>>
    BY <1>2 DEF Evict, workerVars
  <2>2. CASE queue = <<>>
    BY <1>2, <2>1, <2>2 DEF Evict, Abstract!vars
  <2>3. CASE queue # <<>>
    <3>1. Lost' = Lost \union {Head(queue)}
      BY <1>2, <2>1, <2>3 DEF Evict, Lost
    <3>2. Head(queue) \in Range(queue)
      BY <2>3, PopProperties DEF PInv, TypeOK
    <3> QED
      BY <2>1, <3>1, <3>2, LoseOne
  <2> QED
    BY <2>2, <2>3
<1>3. ASSUME NEW p \in Publishers, Push(p)
      PROVE  Abstract!Next \/ UNCHANGED Abstract!vars
  <2>1. UNCHANGED <<made, relayed, suppressed, evicted>> /\ caller[p] # "idle"
    BY <1>3 DEF Push, workerVars
  <2>2. CASE Len(queue) < QueueCapacity
    BY <1>3, <2>1, <2>2 DEF Push, Abstract!vars
  <2>3. CASE ~(Len(queue) < QueueCapacity)
    <3>1. Lost' = Lost \union {<<p, made[p]>>}
      BY <1>3, <2>1, <2>3 DEF Push, Lost
    <3>2. <<p, made[p]>> \in InCall
      BY <2>1, HeldIsNewest DEF PInv
    <3> QED
      BY <2>1, <3>1, <3>2, LoseOne
  <2> QED
    BY <2>2, <2>3
<1>4. CASE WorkerJudge
  <2>1. UNCHANGED <<made, relayed, evicted, refused>> /\ hand # <<>>
    BY <1>4 DEF WorkerJudge, callerVars, PInv, HandIsFull
  <2>2. CASE UNCHANGED suppressed
    BY <2>1, <2>2 DEF Abstract!vars
  <2>3. CASE suppressed' = suppressed \union Range(hand)
    <3>1. PICK k \in Packet : Range(hand) = {k}
      <4>1. /\ hand \in Seq(Packet) /\ DOMAIN hand = 1..Len(hand)
            /\ Len(hand) \in Nat \ {0} /\ Len(hand) <= 1
        BY <2>1, EmptySeq, LenProperties DEF PInv, TypeOK
      <4>2. DOMAIN hand = {1} /\ hand[1] \in Packet
        BY <4>1, ElementOfSeq
      <4> QED
        BY <4>2 DEF Range
    <3>2. Lost' = Lost \union {k}
      BY <2>1, <2>3, <3>1 DEF Lost
    <3> QED
      BY <2>1, <3>1, <3>2, LoseOne
  <2> QED
    BY <1>4, <2>2, <2>3 DEF WorkerJudge
<1>5. CASE WorkerPop
  BY <1>5 DEF WorkerPop, callerVars, Abstract!vars
<1>6. CASE \/ \E p \in Publishers : Measure(p)
           \/ WorkerTop
           \/ Start \/ StartBackend \/ StartFrontend \/ StartThrows \/ Stop
           \/ Stopping \/ Terminated \/ UNCHANGED vars
  BY <1>6 DEF Measure, WorkerTop, Start, StartBackend, StartFrontend,
     StartThrows, Stop, Stopping, FrontendStopped, Join, StopBackend,
     Terminated, vars, mainFrame, callerVars, workerVars, Abstract!vars
<1> QED
  BY <1>1, <1>2, <1>3, <1>4, <1>5, <1>6, SendRefines
  DEF Next, InCallback, Propagator

\* The proxy implements the relay: whatever readers and propagator do to the
\* queue at once, each packet is relayed once, after all older ones of its
\* publisher that ever will be, or lost once and for all.
THEOREM ProxyImplementsRelay == Spec => ImplementsRelay
<1>1. Init => Abstract!Init
  BY DEF Init, Abstract!Init
<1>2. PInv /\ [Next]_vars => [Abstract!Next]_(Abstract!vars)
  BY StepRefines
<1> QED
  BY <1>1, <1>2, Invariance, PTL DEF Spec, Abstract!Spec, ImplementsRelay

=============================================================================
