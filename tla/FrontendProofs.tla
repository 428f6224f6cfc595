--------------------------- MODULE FrontendProofs ---------------------------
(***************************************************************************)
(* What the frontend's count counts, when a publisher is cut off, and what *)
(* stop() leaves behind: for every set of publishers and all limits.       *)
(***************************************************************************)
EXTENDS Frontend, SequenceTheorems, FiniteSetTheorems, TLAPS

-----------------------------------------------------------------------------
(* The inductive invariant.                                                *)

Rejections == {"RESOURCE_EXHAUSTED", "UNAUTHENTICATED"}

\* The flag is up from the construction of the frontend to stop().
FlagFollowsPhase == keepRunning <=> phase \in {"created", "serving"}

\* No reader before there is a server, and none after it was shut down.
NoReaderOutside ==
    /\ phase = "created" => ~bound /\ \A p \in Publishers : pc[p] = "idle"
    /\ phase = "down" => \A p \in Publishers : pc[p] \in {"idle", "done"}

\* A reader has a status when it has been finished.
StatusFollowsPlace ==
    \A p \in Publishers :
      status[p] = "none" <=>
        pc[p] \in {"idle", "limit", "count", "begin", "reading"}

\* The positions of the invalid packets after the last one taken.
RunOf(s) == {i \in DOMAIN s : /\ s[i] = "invalid"
                              /\ \A j \in i..Len(s) : s[j] # "taken"}

\* The counter of a reader counts its run, and the status tells when it has
\* passed the limit.
RunIsCounted(p) ==
    /\ IsFiniteSet(RunOf(inbox[p]))
    /\ consecutive[p] = Cardinality(RunOf(inbox[p]))
    /\ status[p] = "INVALID_ARGUMENT" <=> consecutive[p] > MaxInvalid

\* A packet read with the flag down was the reader's last.
LateIsLast(p) ==
    \/ late[p] = 0
    \/ late[p] = 1 /\ ~keepRunning /\ pc[p] \in {"finished", "leave", "done"}

FInv ==
    /\ TypeOK
    /\ FlagFollowsPhase /\ NoReaderOutside /\ StatusFollowsPlace
    /\ CountIsOff /\ DownIsReset
    /\ \A p \in Publishers : RunIsCounted(p) /\ LateIsLast(p)

-----------------------------------------------------------------------------
(* What a packet does to a run.                                            *)

LEMMA RunGrows ==
    ASSUME NEW s \in Seq(Kinds), NEW kind \in Kinds, IsFiniteSet(RunOf(s))
    PROVE  /\ IsFiniteSet(RunOf(Append(s, kind)))
           /\ Cardinality(RunOf(Append(s, kind))) =
                CASE kind = "taken"   -> 0
                  [] kind = "invalid" -> Cardinality(RunOf(s)) + 1
                  [] kind = "thrown"  -> Cardinality(RunOf(s))
<1> DEFINE t == Append(s, kind)
           n == Len(s) + 1
<1>1. /\ Len(s) \in Nat /\ DOMAIN s = 1..Len(s)
      /\ Len(t) = n /\ DOMAIN t = 1..n
      /\ \A i \in 1..Len(s) : t[i] = s[i]
      /\ t[n] = kind
  BY AppendProperties, LenProperties
<1> HIDE DEF t
<1>2. n \in 1..n /\ n \notin DOMAIN s /\ \A i \in 1..n : i \in 1..Len(s) \/ i = n
  BY <1>1
<1>3. CASE kind = "taken"
  <2>1. \A i \in 1..n : n \in i..Len(t) /\ t[n] = "taken"
    BY <1>1, <1>2, <1>3
  <2>2. RunOf(t) = {}
    BY <1>1, <2>1 DEF RunOf
  <2> QED
    BY <1>3, <2>2, FS_EmptySet DEF t
<1>4. CASE kind # "taken"
  <2>1. ASSUME NEW i \in 1..Len(s)
        PROVE  i \in RunOf(t) <=> i \in RunOf(s)
    <3>1. \A j \in i..n : j \in i..Len(s) \/ j = n
      BY <1>1
    <3>2. \A j \in i..Len(s) : j \in 1..Len(s) /\ j \in i..n
      BY <1>1
    <3>3. i \in 1..n
      BY <1>1
    <3> QED
      BY <1>1, <1>4, <3>1, <3>2, <3>3 DEF RunOf
  <2>2. n \in RunOf(t) <=> kind = "invalid"
    <3>1. \A j \in n..n : j = n
      BY <1>1
    <3> QED
      BY <1>1, <1>2, <1>4, <3>1 DEF RunOf
  <2>3. RunOf(s) \subseteq 1..Len(s) /\ RunOf(t) \subseteq 1..n
    BY <1>1 DEF RunOf
  <2>4. CASE kind = "invalid"
    <3>1. RunOf(t) = RunOf(s) \union {n} /\ n \notin RunOf(s)
      BY <1>1, <1>2, <2>1, <2>2, <2>3, <2>4
    <3> QED
      BY <2>4, <3>1, FS_AddElement DEF t
  <2>5. CASE kind = "thrown"
    <3>1. RunOf(t) = RunOf(s)
      BY <1>1, <1>2, <2>1, <2>2, <2>3, <2>5
    <3> QED
      BY <2>5, <3>1 DEF t
  <2> QED
    BY <1>4, <2>4, <2>5 DEF Kinds
<1> QED
  BY <1>3, <1>4

-----------------------------------------------------------------------------
(* The count: what joins and what leaves the two sets it is made of.       *)

LEMMA OpenAndGhostsAreFinite ==
    /\ IsFiniteSet(Open) /\ IsFiniteSet(Ghosts)
    /\ Cardinality(Open) \in Nat /\ Cardinality(Ghosts) \in Nat
<1>1. Open \subseteq Publishers /\ Ghosts \subseteq Publishers
  BY DEF Open, Ghosts
<1> QED
  BY <1>1, FrontendAssumption, FS_Subset, FS_CardinalityType

\* As long as the members of both sets stay the same, so does their balance.
LEMMA BalanceKept ==
    ASSUME FInv, UNCHANGED <<phase, numberOfPublishers>>,
           \A q \in Publishers : /\ (q \in Open') <=> (q \in Open)
                                 /\ (q \in Ghosts') <=> (q \in Ghosts)
    PROVE  CountIsOff'
<1>1. /\ Open \subseteq Publishers /\ Open' \subseteq Publishers
      /\ Ghosts \subseteq Publishers /\ Ghosts' \subseteq Publishers
  BY DEF Open, Ghosts
<1>2. Open' = Open /\ Ghosts' = Ghosts
  BY <1>1
<1> QED
  BY <1>2 DEF FInv, CountIsOff

-----------------------------------------------------------------------------
(* The steps of a reader.                                                  *)

Reads(p) == Publish(p) \/ Constructing(p) \/ ClientActs(p) \/ Ending(p)

\* No reader moves before start() or after stop().
LEMMA ReaderSetting ==
    ASSUME FInv, NEW p \in Publishers, Reads(p)
    PROVE  /\ UNCHANGED <<phase, bound, keepRunning>>
           /\ phase \notin {"created", "down"}
           /\ FlagFollowsPhase' /\ NoReaderOutside' /\ DownIsReset'
<1>1. UNCHANGED <<phase, bound, keepRunning>>
  BY DEF Reads, Publish, Constructing, CheckLimit, Count, Begin, ClientActs,
     EndOfStream, ReadPacket, Ending, OnDone, Leave, server
<1>2. phase \notin {"created", "down"}
  <2>1. CASE Publish(p)
    BY <2>1 DEF Publish
  <2>2. CASE pc[p] \notin {"idle", "done"}
    BY <2>2 DEF FInv, NoReaderOutside
  <2> QED
    BY <2>1, <2>2 DEF Reads, Constructing, CheckLimit, Count, Begin,
       ClientActs, EndOfStream, ReadPacket, Ending, OnDone, Leave
<1> QED
  BY <1>1, <1>2 DEF FInv, FlagFollowsPhase, NoReaderOutside, DownIsReset

\* Steps that neither read a packet nor change the count.
LEMMA PlainSteps ==
    ASSUME FInv, NEW p \in Publishers,
           Publish(p) \/ CheckLimit(p) \/ Begin(p) \/ EndOfStream(p) \/ OnDone(p)
    PROVE  FInv'
<1> USE DEF FInv
<1>1. /\ UNCHANGED <<phase, bound, keepRunning>>
      /\ FlagFollowsPhase' /\ NoReaderOutside' /\ DownIsReset'
  BY ReaderSetting DEF Reads, Constructing, ClientActs, Ending
<1>2. UNCHANGED <<numberOfPublishers, consecutive, total, rejected, inbox, late>>
  BY DEF Publish, CheckLimit, Begin, EndOfStream, OnDone, tallies
<1>3. /\ pc' = [pc EXCEPT ![p] = pc'[p]]
      /\ status' = [status EXCEPT ![p] = status'[p]]
      /\ pc'[p] \in Places /\ status'[p] \in Statuses
      /\ \/ /\ status'[p] = "none" /\ status[p] = "none"
            /\ \/ pc[p] = "idle" /\ pc'[p] = "limit"
               \/ pc[p] = "limit" /\ pc'[p] = "count"
               \/ pc[p] = "begin" /\ pc'[p] = "reading" /\ keepRunning
         \/ /\ pc[p] = "limit" /\ pc'[p] = "finished"
            /\ status[p] = "none" /\ status'[p] \in Rejections
         \/ /\ pc[p] \in {"begin", "reading"} /\ pc'[p] = "finished"
            /\ status[p] = "none" /\ status'[p] = "OK"
            /\ pc[p] = "begin" => ~keepRunning
         \/ /\ pc[p] = "finished" /\ status'[p] = status[p] /\ status[p] # "none"
            /\ pc'[p] = IF keepRunning THEN "leave" ELSE "done"
  BY DEF Publish, CheckLimit, Begin, EndOfStream, OnDone, Goto, Finish, TypeOK,
     Places, Statuses, StatusFollowsPlace, Rejections
<1>4. TypeOK'
  <2>1. response' \in [Publishers -> Nat \X Nat]
    BY DEF Publish, CheckLimit, Begin, EndOfStream, OnDone, tallies, TypeOK
  <2>2. pc' \in [Publishers -> Places] /\ status' \in [Publishers -> Statuses]
    BY <1>3 DEF TypeOK
  <2> QED
    BY <1>1, <1>2, <2>1, <2>2 DEF TypeOK
<1>5. StatusFollowsPlace'
  BY <1>3 DEF StatusFollowsPlace, TypeOK, Rejections
<1>6. CountIsOff'
  <2>1. CASE phase = "serving"
    <3>1. keepRunning
      BY <2>1 DEF FlagFollowsPhase
    <3> QED
      BY <1>1, <1>2, <1>3, <3>1, BalanceKept
      DEF Open, Ghosts, TypeOK, Rejections
  <2>2. CASE phase # "serving"
    BY <1>1, <2>2 DEF CountIsOff
  <2> QED
    BY <2>1, <2>2
<1>7. ASSUME NEW q \in Publishers PROVE RunIsCounted(q)' /\ LateIsLast(q)'
  <2>1. RunIsCounted(q) /\ LateIsLast(q)
    OBVIOUS
  <2>2. CASE q = p
    <3>1. status'[p] = "INVALID_ARGUMENT" <=> status[p] = "INVALID_ARGUMENT"
      BY <1>3 DEF Rejections
    <3>2. RunIsCounted(p)'
      BY <1>2, <2>1, <2>2, <3>1 DEF RunIsCounted
    <3>3. LateIsLast(p)'
      BY <1>1, <1>2, <1>3, <2>1, <2>2 DEF LateIsLast
    <3> QED
      BY <2>2, <3>2, <3>3
  <2>3. CASE q # p
    <3>1. pc'[q] = pc[q] /\ status'[q] = status[q]
      BY <1>3, <2>3 DEF TypeOK
    <3> QED
      BY <1>1, <1>2, <2>1, <3>1 DEF RunIsCounted, LateIsLast
  <2> QED
    BY <2>2, <2>3
<1> QED
  BY <1>1, <1>4, <1>5, <1>6, <1>7

\* The fetch_add of the constructor and the fetch_sub of OnDone.
LEMMA CountSteps ==
    ASSUME FInv, NEW p \in Publishers, Count(p) \/ Leave(p)
    PROVE  FInv'
<1> USE DEF FInv
<1>1. /\ UNCHANGED <<phase, bound, keepRunning>>
      /\ FlagFollowsPhase' /\ NoReaderOutside' /\ DownIsReset'
  BY ReaderSetting DEF Reads, Constructing, Ending
<1>2. UNCHANGED <<status, consecutive, total, rejected, response, inbox, late>>
  BY DEF Count, Leave, tallies
<1>3. /\ pc' = [pc EXCEPT ![p] = pc'[p]]
      /\ \/ /\ pc[p] = "count" /\ pc'[p] = "begin" /\ status[p] = "none"
            /\ numberOfPublishers' = numberOfPublishers + 1
         \/ /\ pc[p] = "leave" /\ pc'[p] = "done" /\ status[p] # "none"
            /\ numberOfPublishers' = numberOfPublishers - 1
  BY DEF Count, Leave, Goto, TypeOK, StatusFollowsPlace
<1>4. TypeOK' /\ StatusFollowsPlace'
  <2>1. pc'[p] \in Places /\ numberOfPublishers' \in Int
    BY <1>3 DEF Places, TypeOK
  <2>2. TypeOK'
    BY <1>1, <1>2, <1>3, <2>1 DEF TypeOK
  <2>3. StatusFollowsPlace'
    BY <1>2, <1>3 DEF TypeOK, StatusFollowsPlace
  <2> QED
    BY <2>2, <2>3
<1>5. CountIsOff'
  <2> DEFINE o == Cardinality(Open)
             g == Cardinality(Ghosts)
  <2>1. CASE phase # "serving"
    BY <1>1, <2>1 DEF CountIsOff
  <2>2. ASSUME phase = "serving"
        PROVE  numberOfPublishers' = Cardinality(Open') - Cardinality(Ghosts')
    <3>1. /\ IsFiniteSet(Open) /\ IsFiniteSet(Ghosts) /\ o \in Nat /\ g \in Nat
          /\ numberOfPublishers = o - g
      BY <2>2, OpenAndGhostsAreFinite DEF CountIsOff
    <3>2. CASE pc[p] = "count" /\ pc'[p] = "begin" /\ status[p] = "none"
      <4>1. Open' = Open \union {p} /\ p \notin Open /\ Ghosts' = Ghosts
        BY <1>2, <1>3, <3>2 DEF Open, Ghosts, TypeOK
      <4>2. Cardinality(Open') = o + 1 /\ Cardinality(Ghosts') = g
        BY <3>1, <4>1, FS_AddElement
      <4> QED
        BY <1>3, <3>1, <3>2, <4>2
    <3>3. CASE /\ pc[p] = "leave" /\ pc'[p] = "done"
               /\ status[p] \notin Rejections /\ status[p] # "none"
      <4>1. Open' = Open \ {p} /\ p \in Open /\ Ghosts' = Ghosts
        BY <1>2, <1>3, <3>3 DEF Open, Ghosts, TypeOK, Rejections
      <4>2. Cardinality(Open') = o - 1 /\ Cardinality(Ghosts') = g
        BY <3>1, <4>1, FS_RemoveElement
      <4> QED
        BY <1>3, <3>1, <3>3, <4>2
    <3>4. CASE /\ pc[p] = "leave" /\ pc'[p] = "done"
               /\ status[p] \in Rejections
      <4>1. Open' = Open /\ Ghosts' = Ghosts \union {p} /\ p \notin Ghosts
        BY <1>2, <1>3, <3>4 DEF Open, Ghosts, TypeOK, Rejections
      <4>2. Cardinality(Open') = o /\ Cardinality(Ghosts') = g + 1
        BY <3>1, <4>1, FS_AddElement
      <4> QED
        BY <1>3, <3>1, <3>4, <4>2
    <3> QED
      BY <1>3, <3>2, <3>3, <3>4
  <2> QED
    BY <1>1, <2>1, <2>2 DEF CountIsOff
<1>6. ASSUME NEW q \in Publishers PROVE RunIsCounted(q)' /\ LateIsLast(q)'
  <2>1. RunIsCounted(q) /\ LateIsLast(q)
    OBVIOUS
  <2> QED
    BY <1>1, <1>2, <1>3, <2>1 DEF RunIsCounted, LateIsLast, TypeOK
<1> QED
  BY <1>1, <1>4, <1>5, <1>6

\* OnReadDone with a packet.
LEMMA PacketStep ==
    ASSUME FInv, NEW p \in Publishers, NEW kind \in Kinds, ReadPacket(p, kind)
    PROVE  FInv'
<1> USE DEF FInv
<1>1. /\ UNCHANGED <<phase, bound, keepRunning>>
      /\ FlagFollowsPhase' /\ NoReaderOutside' /\ DownIsReset'
  BY ReaderSetting DEF Reads, ClientActs
<1>2. /\ UNCHANGED <<numberOfPublishers, response>>
      /\ total' = [total EXCEPT ![p] = @ + 1]
      /\ rejected' = [rejected EXCEPT ![p] = IF kind = "taken" THEN @ ELSE @ + 1]
      /\ consecutive' =
           [consecutive EXCEPT ![p] = CASE kind = "taken"   -> 0
                                        [] kind = "invalid" -> @ + 1
                                        [] kind = "thrown"  -> @]
      /\ inbox' = [inbox EXCEPT ![p] = Append(@, kind)]
      /\ late' = [late EXCEPT ![p] = IF keepRunning THEN @ ELSE @ + 1]
      /\ pc[p] = "reading" /\ status[p] = "none"
  BY DEF ReadPacket, Tally, StatusFollowsPlace
<1>3. /\ pc' = [pc EXCEPT ![p] = pc'[p]]
      /\ status' = [status EXCEPT ![p] = status'[p]]
      /\ pc'[p] \in Places /\ status'[p] \in Statuses
      /\ \/ /\ consecutive'[p] > MaxInvalid
            /\ pc'[p] = "finished" /\ status'[p] = "INVALID_ARGUMENT"
         \/ /\ consecutive'[p] <= MaxInvalid /\ keepRunning
            /\ pc'[p] = "reading" /\ status'[p] = "none"
         \/ /\ consecutive'[p] <= MaxInvalid /\ ~keepRunning
            /\ pc'[p] = "finished" /\ status'[p] = "UNAVAILABLE"
  BY <1>2 DEF ReadPacket, Goto, Finish, TypeOK, Places, Statuses
<1>4. consecutive[p] \in 0..MaxInvalid /\ MaxInvalid \in Nat
  <2>1. RunIsCounted(p)
    OBVIOUS
  <2>2. ~(consecutive[p] > MaxInvalid)
    BY <1>2, <2>1 DEF RunIsCounted
  <2> QED
    BY <2>2, FrontendAssumption DEF TypeOK
<1>5. TypeOK'
  <2>1. consecutive' \in [Publishers -> 0..(MaxInvalid + 1)]
    BY <1>2, <1>4 DEF TypeOK, Kinds
  <2>2. inbox' \in [Publishers -> Seq(Kinds)]
    BY <1>2, AppendProperties DEF TypeOK
  <2>3. /\ total' \in [Publishers -> Nat] /\ rejected' \in [Publishers -> Nat]
        /\ late' \in [Publishers -> Nat]
    <3>1. total[p] + 1 \in Nat /\ rejected[p] + 1 \in Nat /\ late[p] + 1 \in Nat
      BY DEF TypeOK
    <3> QED
      BY <1>2, <3>1 DEF TypeOK
  <2>4. pc' \in [Publishers -> Places] /\ status' \in [Publishers -> Statuses]
    BY <1>3 DEF TypeOK
  <2> QED
    BY <1>1, <1>2, <2>1, <2>2, <2>3, <2>4 DEF TypeOK
<1>6. StatusFollowsPlace'
  BY <1>2, <1>3 DEF StatusFollowsPlace, TypeOK
<1>7. CountIsOff'
  BY <1>1, <1>2, <1>3, BalanceKept DEF Open, Ghosts, TypeOK
<1>8. ASSUME NEW q \in Publishers PROVE RunIsCounted(q)' /\ LateIsLast(q)'
  <2>1. RunIsCounted(q) /\ LateIsLast(q)
    OBVIOUS
  <2>2. CASE q = p
    <3>1. inbox[p] \in Seq(Kinds) /\ inbox'[p] = Append(inbox[p], kind)
      BY <1>2 DEF TypeOK
    <3>2. /\ IsFiniteSet(RunOf(inbox[p]))
          /\ consecutive[p] = Cardinality(RunOf(inbox[p]))
      BY <2>1, <2>2 DEF RunIsCounted
    <3>3. consecutive'[p] = CASE kind = "taken"   -> 0
                              [] kind = "invalid" -> consecutive[p] + 1
                              [] kind = "thrown"  -> consecutive[p]
      BY <1>2 DEF TypeOK
    <3>4. /\ IsFiniteSet(RunOf(inbox'[p]))
          /\ consecutive'[p] = Cardinality(RunOf(inbox'[p]))
      BY <3>1, <3>2, <3>3, RunGrows DEF Kinds
    <3>5. consecutive'[p] \in Int
      BY <1>5 DEF TypeOK
    <3>6. status'[p] = "INVALID_ARGUMENT" <=> consecutive'[p] > MaxInvalid
      BY <1>3, <1>4, <3>5
    <3>7. LateIsLast(p)'
      BY <1>1, <1>2, <1>3, <2>1, <2>2 DEF LateIsLast, TypeOK
    <3> QED
      BY <2>2, <3>4, <3>6, <3>7 DEF RunIsCounted
  <2>3. CASE q # p
    <3>1. /\ pc'[q] = pc[q] /\ status'[q] = status[q] /\ late'[q] = late[q]
          /\ consecutive'[q] = consecutive[q] /\ inbox'[q] = inbox[q]
      BY <1>2, <1>3, <2>3 DEF TypeOK
    <3> QED
      BY <1>1, <2>1, <3>1 DEF RunIsCounted, LateIsLast
  <2> QED
    BY <2>2, <2>3
<1> QED
  BY <1>1, <1>5, <1>6, <1>7, <1>8

-----------------------------------------------------------------------------
(* The steps of the main thread.                                           *)

LEMMA StartStep ==
    ASSUME FInv, Start
    PROVE  FInv'
<1> USE DEF FInv
<1>1. /\ phase = "created" /\ phase' = "serving" /\ bound' \in BOOLEAN
      /\ keepRunning' = TRUE /\ numberOfPublishers' = 0 /\ keepRunning
      /\ UNCHANGED <<pc, status, consecutive, total, rejected, response, inbox,
                     late>>
      /\ \A p \in Publishers : pc[p] = "idle"
  BY DEF Start, readers, tallies, FlagFollowsPhase, NoReaderOutside
<1>2. TypeOK'
  BY <1>1 DEF TypeOK, Phases
<1>3. /\ FlagFollowsPhase' /\ NoReaderOutside' /\ StatusFollowsPlace'
      /\ DownIsReset'
  BY <1>1 DEF FlagFollowsPhase, NoReaderOutside, StatusFollowsPlace, DownIsReset
<1>4. CountIsOff'
  <2>1. Open' = {} /\ Ghosts' = {}
    BY <1>1 DEF Open, Ghosts
  <2> QED
    BY <1>1, <2>1, FS_EmptySet DEF CountIsOff
<1>5. \A p \in Publishers : RunIsCounted(p)' /\ LateIsLast(p)'
  BY <1>1 DEF RunIsCounted, LateIsLast
<1> QED
  BY <1>2, <1>3, <1>4, <1>5

LEMMA StopSteps ==
    ASSUME FInv, Stop \/ Shutdown \/ ShutdownReturns \/ Terminated \/ UNCHANGED vars
    PROVE  FInv'
<1> USE DEF FInv
<1>1. UNCHANGED <<pc, status, consecutive, total, rejected, response, inbox, late,
                  bound>>
  BY DEF Stop, Shutdown, ShutdownReturns, Terminated, vars, server, readers,
     tallies
<1>2. /\ phase' \in Phases
      /\ phase' = "serving" => UNCHANGED <<phase, numberOfPublishers>>
      /\ phase' = "created" => phase = "created"
      /\ phase' = "down" =>
           /\ numberOfPublishers' = 0
           /\ \A p \in Publishers : pc[p] \in {"idle", "done"}
      /\ keepRunning' => keepRunning
      /\ keepRunning' <=> phase' \in {"created", "serving"}
      /\ numberOfPublishers' \in Int
  <2>1. /\ phase \in Phases
        /\ numberOfPublishers \in Int
        /\ keepRunning <=> phase \in {"created", "serving"}
        /\ phase = "down" =>
             /\ numberOfPublishers = 0
             /\ \A p \in Publishers : pc[p] \in {"idle", "done"}
    BY DEF TypeOK, FlagFollowsPhase, NoReaderOutside, DownIsReset
  <2>2. CASE Stop \/ Shutdown
    BY <2>1, <2>2 DEF Stop, Shutdown, Phases
  <2>3. CASE ShutdownReturns
    BY <2>1, <2>3 DEF ShutdownReturns, Phases
  <2>4. CASE Terminated \/ UNCHANGED vars
    BY <2>1, <2>4 DEF Terminated, vars, server
  <2> QED
    BY <2>2, <2>3, <2>4
<1>3. TypeOK'
  <2>1. keepRunning' \in BOOLEAN
    BY DEF Stop, Shutdown, ShutdownReturns, Terminated, vars, server, TypeOK
  <2> QED
    BY <1>1, <1>2, <2>1 DEF TypeOK
<1>4. /\ FlagFollowsPhase' /\ NoReaderOutside' /\ StatusFollowsPlace'
      /\ DownIsReset'
  BY <1>1, <1>2 DEF FlagFollowsPhase, NoReaderOutside, StatusFollowsPlace,
     DownIsReset
<1>5. CountIsOff'
  BY <1>1, <1>2 DEF CountIsOff, Open, Ghosts
<1>6. \A p \in Publishers : RunIsCounted(p)' /\ LateIsLast(p)'
  BY <1>1, <1>2 DEF RunIsCounted, LateIsLast
<1> QED
  BY <1>3, <1>4, <1>5, <1>6

-----------------------------------------------------------------------------
(* The theorems.                                                           *)

LEMMA Initially == Init => FInv
<1> SUFFICES ASSUME Init PROVE FInv
  OBVIOUS
<1>1. TypeOK
  <2>1. inbox \in [Publishers -> Seq(Kinds)]
    BY EmptySeq DEF Init
  <2>2. consecutive \in [Publishers -> 0..(MaxInvalid + 1)]
    BY FrontendAssumption DEF Init
  <2>3. /\ pc \in [Publishers -> Places] /\ status \in [Publishers -> Statuses]
        /\ phase \in Phases
    BY DEF Init, Places, Statuses, Phases
  <2>4. response \in [Publishers -> Nat \X Nat]
    BY DEF Init
  <2>5. /\ total \in [Publishers -> Nat] /\ rejected \in [Publishers -> Nat]
        /\ late \in [Publishers -> Nat]
    BY DEF Init
  <2>6. bound \in BOOLEAN /\ keepRunning \in BOOLEAN
    BY DEF Init
  <2>7. numberOfPublishers \in Int
    BY DEF Init
  <2> QED
    BY <2>1, <2>2, <2>3, <2>4, <2>5, <2>6, <2>7 DEF TypeOK
<1>2. /\ FlagFollowsPhase /\ NoReaderOutside /\ StatusFollowsPlace
      /\ CountIsOff /\ DownIsReset
  BY DEF Init, FlagFollowsPhase, NoReaderOutside, StatusFollowsPlace,
     CountIsOff, DownIsReset
<1>3. RunOf(<<>>) = {}
  <2>1. DOMAIN <<>> = {}
    OBVIOUS
  <2> QED
    BY <2>1 DEF RunOf
<1>4. ASSUME NEW p \in Publishers PROVE RunIsCounted(p) /\ LateIsLast(p)
  <2>1. /\ inbox[p] = <<>> /\ consecutive[p] = 0 /\ late[p] = 0
        /\ status[p] = "none"
    BY DEF Init
  <2>2. IsFiniteSet(RunOf(inbox[p])) /\ Cardinality(RunOf(inbox[p])) = 0
    BY <1>3, <2>1, FS_EmptySet
  <2> QED
    BY <2>1, <2>2, FrontendAssumption DEF RunIsCounted, LateIsLast
<1> QED
  BY <1>1, <1>2, <1>4 DEF FInv

LEMMA Inductive == FInv /\ [Next]_vars => FInv'
BY PlainSteps, CountSteps, PacketStep, StartStep, StopSteps
DEF Next, Constructing, ClientActs, Ending

\* FInv holds in every reachable state: what the theorems below rest on.
THEOREM Invariance == Spec => []FInv
BY Initially, Inductive, PTL DEF Spec

\* Every variable keeps its type, and the counter of invalid packets never
\* passes the limit by more than one.
THEOREM TypeCorrectness == Spec => []TypeOK
BY Invariance, PTL DEF FInv

\* While the frontend serves, mNumberOfPublishers is the number of open RPCs
\* less one for every RPC that the constructor ever turned away.
THEOREM CountLosesRejections == Spec => []CountIsOff
BY Invariance, PTL DEF FInv

\* stop() leaves the count at zero, however it overlaps with OnDone.
THEOREM CountEndsAtZero == Spec => []DownIsReset
BY Invariance, PTL DEF FInv

\* A publisher is cut off exactly when it has sent more than MaxInvalid invalid
\* packets with none taken in between.
THEOREM CutOffIsExact == Spec => []CutOff
<1>1. FInv => CutOff
  <2> SUFFICES ASSUME FInv, NEW p \in Publishers
               PROVE  status[p] = "INVALID_ARGUMENT" <=> InvalidRun(p) > MaxInvalid
    BY DEF CutOff
  <2>1. InvalidRun(p) = Cardinality(RunOf(inbox[p]))
    BY DEF InvalidRun, RunOf
  <2> QED
    BY <2>1 DEF FInv, RunIsCounted
<1> QED
  BY <1>1, Invariance, PTL

\* Once stop() has lowered the flag, no reader takes a second packet.
THEOREM AtMostOneLate == Spec => []OnePacketAfterStop
<1>1. FInv => OnePacketAfterStop
  BY DEF FInv, LateIsLast, OnePacketAfterStop
<1> QED
  BY <1>1, Invariance, PTL

=============================================================================
