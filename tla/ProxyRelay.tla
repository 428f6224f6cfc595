----------------------------- MODULE ProxyRelay -----------------------------
(***************************************************************************)
(* Proxy implements Relay: addPacketCallback offers, enqueuePacket of the  *)
(* backend is a relay, and what is suppressed, evicted or refused is lost. *)
(***************************************************************************)
EXTENDS Proxy

Abstract == INSTANCE Relay WITH
    offered <- made,
    lost    <- suppressed \union evicted \union refused

\* Whatever readers and propagator do to the queue at once, every packet of a
\* publisher is relayed once and after all its predecessors that ever will be,
\* or lost once and for all.
ImplementsRelay == Abstract!Spec

=============================================================================
