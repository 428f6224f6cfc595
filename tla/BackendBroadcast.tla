------------------------- MODULE BackendBroadcast -------------------------
(***************************************************************************)
(* Backend implements Broadcast: enqueuePacket publishes, a writer whose   *)
(* pump runs is a reader, and its cursor is the last packet gRPC took.     *)
(***************************************************************************)
EXTENDS Backend

\* The writers that can still be sent something: subscribed, and not on their
\* way to Finish.
Served == {w \in Writers : pc[w] \in {"pump", "fetch", "dequeue", "parked"}}

\* The last packet gRPC took for w, or the newest when w joined.
Cursor(w) == IF sent[w] = <<>> THEN joined[w] ELSE sent[w][Len(sent[w])]

Position == [w \in Writers |-> IF w \in Served THEN Cursor(w) ELSE 0]

Abstract == INSTANCE Broadcast WITH
    Readers   <- Writers,
    Capacity  <- QueueCapacity,
    published <- count,
    members   <- Served,
    position  <- Position

\* Streams that overwrite, batches that move between two queues, writes that
\* fail, purges, RPCs that come, go and are cancelled: to a subscriber all of
\* it looks like one cursor that goes forward through the packets enqueued
\* since it joined and skips none of the QueueCapacity newest.
ImplementsBroadcast == Abstract!Spec

=============================================================================
