------------------------- MODULE DuplicateDetector -------------------------
(***************************************************************************)
(* The duplicate packet detector (src/duplicatePacketDetector.cpp): one    *)
(* circular buffer of packet headers per channel, sorted by start time,    *)
(* and the verdict of allow() on a packet.                                 *)
(*                                                                         *)
(* Times are microseconds and sampling rates, which the code keeps in a    *)
(* double and rounds to whole hertz to compare, are millihertz.  The       *)
(* propagator is the only caller, so a call is one step.                   *)
(***************************************************************************)
EXTENDS Integers, Sequences, FiniteSets, Functions

CONSTANTS
    Names,                  \* channels: network.station.channel.location
    Starts,                 \* start times that packets may have
    Counts,                 \* numbers of samples that packets may have
    Rates,                  \* sampling rates that packets may have, in mHz
    SetLast,                \* the setter of the options called last: each
                            \* undoes the other, the default is "duration"
    CircularBufferSize,     \* mCircularBufferSize
    CircularBufferDuration, \* mCircularBufferDuration in seconds
    MaxCalls                \* bound of the model: calls of allow()

\* The frontend drops packets without a positive rate; the options refuse
\* sizes and durations below one.
ASSUME DetectorAssumption ==
    /\ Starts \subseteq Nat
    /\ Counts \subseteq Nat
    /\ Rates \subseteq Nat \ {0}
    /\ CircularBufferSize \in Nat \ {0}
    /\ CircularBufferDuration \in Nat \ {0}
    /\ SetLast \in {"size", "duration"}
    /\ MaxCalls \in Nat

VARIABLES
    buffers,        \* mCircularBuffers; <<>> for a channel never heard of
    capacity,       \* the capacity of each buffer, 0 before it is made
    calls,          \* calls of allow() so far
    allowed,        \* history: headers of each channel that were allowed
    recorded,       \* history: headers that its buffer has ever held
    last            \* history: the last call's header and its result

vars == <<buffers, capacity, calls, allowed, recorded, last>>

Packets == [name : Names, start : Starts, n : Counts, rate : Rates]

-----------------------------------------------------------------------------
(* DataPacketHeader.                                                       *)

\* std::round of a quotient of positive numbers.
RoundedQuotient(a, b) == (2 * a + b) \div (2 * b)

\* The sample period in microseconds and the rate in whole hertz.
Period(rate) == RoundedQuotient(1000000000, rate)
Hertz(rate)  == RoundedQuotient(rate, 1000)

Header(p) ==
    [start |-> p.start,
     end   |-> p.start + Period(p.rate) * (p.n - 1),
     hertz |-> Hertz(p.rate),
     n     |-> p.n]

\* Start times closer than this are the same start time; 0 for a rate that
\* operator== cannot classify.
Tolerance(hertz) ==
    CASE hertz < 105  -> 15000
      [] hertz < 255  -> 4500
      [] hertz < 505  -> 2500
      [] hertz < 1005 -> 1500
      [] OTHER        -> 0

Distance(a, b) == IF a < b THEN b - a ELSE a - b

\* Fault: headers with different rates are different.
CompareLeniently(g, h) ==
    IF g.hertz # h.hertz \/ g.n # h.n THEN "different"
    ELSE IF Tolerance(g.hertz) = 0 THEN "throw"
    ELSE IF Distance(g.start, h.start) < Tolerance(g.hertz) THEN "same"
    ELSE "different"

\* Fault: the start of the new packet is held against the end of the old one.
CompareToEnd(g, h) ==
    IF g.hertz # h.hertz THEN "throw"
    ELSE IF g.n # h.n THEN "different"
    ELSE IF Tolerance(g.hertz) = 0 THEN "throw"
    ELSE IF Distance(g.end, h.start) < Tolerance(g.hertz) THEN "same"
    ELSE "different"

\* operator== of two headers of one channel: it throws if the rates differ,
\* or if it needs a tolerance that it does not have.
Compare(g, h) ==
    IF g.hertz # h.hertz THEN "throw"
    ELSE IF g.n # h.n THEN "different"
    ELSE IF Tolerance(g.hertz) = 0 THEN "throw"
    ELSE IF Distance(g.start, h.start) < Tolerance(g.hertz) THEN "same"
    ELSE "different"

\* std::find over the buffer comes to found: the first comparison that does
\* not say "different" decides.
Find(buf, h, found) ==
    IF found = "different"
    THEN \A i \in DOMAIN buf : Compare(buf[i], h) = "different"
    ELSE \E i \in DOMAIN buf :
           /\ Compare(buf[i], h) = found
           /\ \A j \in 1..(i - 1) : Compare(buf[j], h) = "different"

-----------------------------------------------------------------------------
(* The circular buffer.                                                    *)

MaxOf(a, b) == IF a > b THEN a ELSE b

\* Whole seconds that a packet spans, rounded.
Duration(h) == RoundedQuotient(h.n - 1, MaxOf(1, h.hertz))

\* estimateCapacity.  For a packet that spans less than half a second the code
\* converts an infinite quotient to int, which is undefined; the x86 builds of
\* the project produce the smallest int there, and max(10, .) hides it.
CapacityEstimate(h) ==
    IF Duration(h) = 0
    THEN 11
    ELSE MaxOf(10, (3 * CircularBufferDuration) \div (2 * Duration(h))) + 1

\* The constructor of the detector looks for a duration first.
EstimateCapacity == SetLast = "duration"

CapacityFor(h) ==
    IF EstimateCapacity THEN CapacityEstimate(h) ELSE CircularBufferSize

\* Fault: a buffer that grows.
PushBackGrowing(buf, cap, h) == Append(buf, h)

\* push_back of a circular buffer: the first element makes way.
PushBack(buf, cap, h) == Append(IF Len(buf) >= cap THEN Tail(buf) ELSE buf, h)

\* push_back, then sort by start time: h goes behind those that start before.
PlaceSorted(buf, cap, h) ==
    LET kept == IF Len(buf) >= cap THEN Tail(buf) ELSE buf
        k == Cardinality({i \in DOMAIN kept : kept[i].start < h.start})
    IN  SubSeq(kept, 1, k) \o <<h>> \o SubSeq(kept, k + 1, Len(kept))

Within(t, g) == g.start <= t /\ t <= g.end

\* Fault: only the start of the packet is looked at.
StartsInside(buf, h) == \E i \in DOMAIN buf : Within(h.start, buf[i])

\* The test for a GPS slip: an end of h lies in a buffered packet.
Slips(buf, h) ==
    \E i \in DOMAIN buf : Within(h.start, buf[i]) \/ Within(h.end, buf[i])

-----------------------------------------------------------------------------
(* allow().                                                                *)

Init ==
    /\ buffers = [c \in Names |-> <<>>]
    /\ capacity = [c \in Names |-> 0]
    /\ calls = 0
    /\ allowed = [c \in Names |-> {}]
    /\ recorded = [c \in Names |-> {}]
    /\ last = [result |-> "none"]

Answer(c, h, result) ==
    /\ last' = [result |-> result, name |-> c, header |-> h]
    /\ allowed' = IF result = "allow"
                  THEN [allowed EXCEPT ![c] = @ \union {h}]
                  ELSE allowed
    /\ recorded' = [recorded EXCEPT ![c] = @ \union Range(buffers'[c])]

\* The constructor of the header throws: allow() answers no.
Malformed(c, h) ==
    /\ h.n = 0
    /\ UNCHANGED <<buffers, capacity>>
    /\ Answer(c, h, "reject")

FirstOfChannel(c, h) ==
    /\ h.n > 0
    /\ buffers[c] = <<>>
    /\ buffers' = [buffers EXCEPT ![c] = <<h>>]
    /\ capacity' = [capacity EXCEPT ![c] = CapacityFor(h)]
    /\ Answer(c, h, "allow")

\* The channel is known, and comparing h with its headers gave found.
Known(c, h, found) ==
    /\ h.n > 0
    /\ buffers[c] # <<>>
    /\ Find(buffers[c], h, found)

\* operator== throws; allow() lets the exception pass.
Inconsistent(c, h) ==
    /\ Known(c, h, "throw")
    /\ UNCHANGED <<buffers, capacity>>
    /\ Answer(c, h, "throw")

Duplicate(c, h) ==
    /\ Known(c, h, "same")
    /\ UNCHANGED <<buffers, capacity>>
    /\ Answer(c, h, "reject")

Front(c) == buffers[c][1]
Back(c)  == buffers[c][Len(buffers[c])]

Full(c) == Len(buffers[c]) >= capacity[c]

\* The packet starts after the end of the last one.
Newest(c, h) ==
    /\ Known(c, h, "different")
    /\ h.start > Back(c).end
    /\ buffers' = [buffers EXCEPT ![c] = PushBack(@, capacity[c], h)]
    /\ UNCHANGED capacity
    /\ Answer(c, h, "allow")

\* Fault: the answer to an old packet that finds the buffer full is turned
\* round, as if what the buffer has forgotten had never been seen.
ExpiredAllowed(c, h) ==
    /\ Known(c, h, "different")
    /\ h.start <= Back(c).end
    /\ h.end < Front(c).start
    /\ buffers' = [buffers EXCEPT ![c] =
                     IF Full(c) THEN @ ELSE <<h>> \o @]
    /\ UNCHANGED capacity
    /\ Answer(c, h, IF Full(c) THEN "allow" ELSE "reject")

\* The packet ends before the first one: it is remembered if there is room,
\* and not allowed in either case.
Expired(c, h) ==
    /\ Known(c, h, "different")
    /\ h.start <= Back(c).end
    /\ h.end < Front(c).start
    /\ buffers' = [buffers EXCEPT ![c] =
                     IF Full(c) THEN @ ELSE <<h>> \o @]
    /\ UNCHANGED capacity
    /\ Answer(c, h, "reject")

\* The packet is neither the newest nor expired.
InBetween(c, h) ==
    /\ Known(c, h, "different")
    /\ h.start <= Back(c).end
    /\ h.end >= Front(c).start

Slip(c, h) ==
    /\ InBetween(c, h)
    /\ Slips(buffers[c], h)
    /\ UNCHANGED <<buffers, capacity>>
    /\ Answer(c, h, "reject")

\* Fault: the sort after push_back is missing.
BackfillUnsorted(c, h) ==
    /\ InBetween(c, h)
    /\ ~Slips(buffers[c], h)
    /\ buffers' = [buffers EXCEPT ![c] = PushBack(@, capacity[c], h)]
    /\ UNCHANGED capacity
    /\ Answer(c, h, "allow")

Backfill(c, h) ==
    /\ InBetween(c, h)
    /\ ~Slips(buffers[c], h)
    /\ buffers' = [buffers EXCEPT ![c] = PlaceSorted(@, capacity[c], h)]
    /\ UNCHANGED capacity
    /\ Answer(c, h, "allow")

Allow(p) ==
    /\ calls < MaxCalls
    /\ calls' = calls + 1
    /\ \/ Malformed(p.name, Header(p))
       \/ FirstOfChannel(p.name, Header(p))
       \/ Inconsistent(p.name, Header(p))
       \/ Duplicate(p.name, Header(p))
       \/ Newest(p.name, Header(p))
       \/ Expired(p.name, Header(p))
       \/ Slip(p.name, Header(p))
       \/ Backfill(p.name, Header(p))

Next == \E p \in Packets : Allow(p)

Spec == Init /\ [][Next]_vars

-----------------------------------------------------------------------------
(* Properties.                                                             *)

Headers == [start : Nat, end : Int, hertz : Nat, n : Nat]

\* Every variable has its type, and no buffer outgrows its capacity.
TypeOK ==
    /\ buffers \in [Names -> Seq(Headers)]
    /\ capacity \in [Names -> Nat]
    /\ calls \in 0..MaxCalls
    /\ allowed \in [Names -> SUBSET Headers]
    /\ recorded \in [Names -> SUBSET Headers]
    /\ \A c \in Names : Len(buffers[c]) <= capacity[c]

\* Each buffer is sorted by start time, none twice: front() and back(), which
\* allow() takes for the oldest and the newest packet, are that.
Sorted ==
    \A c \in Names : \A i, j \in DOMAIN buffers[c] :
      i < j => buffers[c][i].start < buffers[c][j].start

\* All headers of a buffer have one rounded rate.  The comparison with the
\* first of them therefore throws or none does, and a channel is never split
\* between two rates.
OneRate ==
    \A c \in Names : \A i, j \in DOMAIN buffers[c] :
      buffers[c][i].hertz = buffers[c][j].hertz

\* Strictly longer on both sides.
Contains(g, h) == g.start < h.start /\ h.end < g.end

Disjoint(g, h) == g.end < h.start \/ h.end < g.start

\* Buffered packets do not overlap, until a packet is let in that contains
\* another: the slip test only looks at the two ends of the new one.
DisjointUnlessNested ==
    \A c \in Names :
      LET buf == buffers[c]
      IN  (\A i, j \in DOMAIN buf : ~Contains(buf[i], buf[j])) =>
            \A i, j \in DOMAIN buf : i # j => Disjoint(buf[i], buf[j])

\* The call repeats a packet that was allowed before.
Repeats == \E g \in allowed[last'.name] : Compare(g, last'.header) = "same"

\* No packet that the channel's buffer ever held contains another, and two of
\* them, end to end, are as long as the tolerance.
Plain(headers) ==
    /\ \A g, k \in headers : ~Contains(g, k)
    /\ \A g \in headers : 2 * (g.end - g.start) >= Tolerance(g.hertz)

\* Where that is so a packet that compares equal to one allowed before is never
\* allowed again, even when the buffer has dropped the header it repeats:
\* everything older than the buffer is refused.  (A packet let in around another
\* is sorted before it; when its header has been displaced and it comes again,
\* its ends again lie in no buffered packet.)
NoReadmissionUnlessNested ==
    [][last'.result = "allow" /\ Plain(recorded'[last'.name]) => ~Repeats]_vars

\* A packet that begins behind all that was allowed on its channel, where that
\* has its rate and is as long as the tolerance.
Forward(c, h) ==
    /\ h.n > 0
    /\ Tolerance(h.hertz) > 0
    /\ \A g \in allowed[c] : /\ h.hertz = g.hertz
                             /\ h.start > g.end
                             /\ g.end - g.start >= Tolerance(g.hertz)

\* The detector never holds up a stream that moves forward, whatever old
\* packets come between.
ForwardIsAllowed ==
    [][Forward(last'.name, last'.header) => last'.result = "allow"]_vars

\* A packet that overlaps nothing in the buffer of its channel and equals
\* nothing there, while that has room and so has forgotten nothing.
Apart(c, h) ==
    /\ h.n > 0
    /\ Tolerance(h.hertz) > 0
    /\ ~Full(c)
    /\ \A i \in DOMAIN buffers[c] : /\ buffers[c][i].hertz = h.hertz
                                    /\ Disjoint(buffers[c][i], h)
                                    /\ Compare(buffers[c][i], h) = "different"

\* "True indicates the data does not appear to be a duplicate", in whatever
\* order the packets come: the test of that shuffles them and requires each to
\* be allowed.
AnyOrderIsAllowed ==
    [][Apart(last'.name, last'.header) => last'.result = "allow"]_vars

=============================================================================
