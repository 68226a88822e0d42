---------------------------- MODULE EgressTunnel ----------------------------
(* The way out of a sandbox: the bridge on the host (src/src/egress-bridge.ts)*)
(* and the client inside (src/src/egress-client.ts), one CONNECT per request. *)
(* The dialer is the seam the host supplies; a dial is answered late, or not: *)
(* the bridge's own dialer never answers a dial that fails, since its handler *)
(* throws what it means to reject with (fail, line 70), which ends the host   *)
(* if nothing catches it; that end is left out.                               *)
(* A request asks for one response of Body parts; bytes are counted in parts. *)
EXTENDS Naturals, FiniteSets

CONSTANTS
    Conns,          \* connections a client opens, one per hop of a request
    Admitted,       \* those whose host is on the allowlist
    MaxConnections, \* sockets the bridge serves at once
    Body            \* parts of a whole response

ASSUME EgressAssumption ==
    /\ IsFiniteSet(Conns) /\ Admitted \subseteq Conns
    /\ MaxConnections \in Nat \ {0} /\ Body \in Nat

VARIABLES
    inbound,    \* the bridge's end of each connection
    upstream,   \* its dial: "none", "dialing", "open", "closed"
    served,     \* the sockets set of the bridge
    accepted,   \* connectionsAccepted
    bridge,     \* "open", "closing", then its receipt
    receipt,    \* socketsJoined of that receipt
    client,     \* what the client has of each connection
    got         \* parts of the response each client has read

egressVars == <<inbound, upstream, served, accepted, bridge, receipt, client, got>>

EgressInit ==
    /\ inbound = [c \in Conns |-> "none"]
    /\ upstream = [c \in Conns |-> "none"]
    /\ served = {} /\ accepted = 0
    /\ bridge = "open" /\ receipt = FALSE
    /\ client = [c \in Conns |-> "idle"]
    /\ got = [c \in Conns |-> 0]

Closing == bridge # "open"

\* settle: the first of close, error, idle and handshake timer ends both halves.
\* A dial that is still under way is not cancelled; it is dropped when it answers.
Settle(c) ==
    /\ inbound' = [inbound EXCEPT ![c] = "closed"]
    /\ served' = served \ {c}
    /\ upstream' = [upstream EXCEPT ![c] = IF @ = "open" THEN "closed" ELSE @]

\* connectEgress reaches the listener; the bridge keeps the socket or destroys it.
RoomFor(c) == ~Closing /\ Cardinality(served) < MaxConnections

Accept(c) ==
    /\ client[c] = "idle" /\ bridge # "closed"
    /\ client' = [client EXCEPT ![c] = "connect"]
    /\ IF RoomFor(c)
       THEN /\ inbound' = [inbound EXCEPT ![c] = "head"]
            /\ served' = served \cup {c}
       ELSE inbound' = [inbound EXCEPT ![c] = "closed"] /\ UNCHANGED served
    /\ UNCHANGED <<upstream, accepted, bridge, receipt, got>>

\* The head is complete: anything but CONNECT to an admitted host on 443 is
\* answered with a refusal and served until that is flushed; otherwise the host
\* dials.
HostAllowed(c) == c \in Admitted

Handshake(c) ==
    /\ inbound[c] = "head"
    /\ inbound' = [inbound EXCEPT ![c] = IF HostAllowed(c) THEN "paused" ELSE "ending"]
    /\ upstream' = [upstream EXCEPT ![c] = IF HostAllowed(c) THEN "dialing" ELSE @]
    /\ UNCHANGED <<served, accepted, bridge, receipt, client, got>>

\* Mutant: only a closing bridge drops a late dial.
DialWhileOpen(c) == ~Closing

\* The dial answers.  A socket that settled meanwhile, or a bridge that closes,
\* gets nothing: the new upstream is destroyed at once.
DialWanted(c) == ~Closing /\ inbound[c] # "closed"

DialOK(c) ==
    /\ upstream[c] = "dialing"
    /\ IF DialWanted(c)
       THEN /\ upstream' = [upstream EXCEPT ![c] = "open"]
            /\ inbound' = [inbound EXCEPT ![c] = "tunnel"]
            /\ accepted' = accepted + 1
       ELSE /\ upstream' = [upstream EXCEPT ![c] = "closed"]
            /\ UNCHANGED <<inbound, accepted>>
    /\ UNCHANGED <<served, bridge, receipt, client, got>>

\* The dial is rejected: a socket that still waits is answered 502.
DialFailed(c) ==
    /\ upstream[c] = "dialing"
    /\ upstream' = [upstream EXCEPT ![c] = "closed"]
    /\ inbound' = [inbound EXCEPT ![c] = IF @ = "paused" THEN "ending" ELSE @]
    /\ UNCHANGED <<served, accepted, bridge, receipt, client, got>>

\* What settles a served socket: a refusal that is flushed, the idle timer, the
\* handshake timer, an error or a close of either half, the client's among them.
Drop(c) ==
    /\ c \in served
    /\ Settle(c)
    /\ UNCHANGED <<accepted, bridge, receipt, client, got>>

\* close: every socket is destroyed and waited for.  The wait has a deadline,
\* and only an empty set is reported as joined.
CloseBridge ==
    /\ bridge = "open"
    /\ bridge' = "closing"
    /\ UNCHANGED <<inbound, upstream, served, accepted, receipt, client, got>>

Joined == served = {}

BridgeReceipt ==
    /\ bridge = "closing"
    /\ bridge' = "closed" /\ receipt' = Joined
    /\ UNCHANGED <<inbound, upstream, served, accepted, client, got>>

\* The client sees the 200, and layers TLS and its one request on the tunnel.
Connected(c) ==
    /\ client[c] = "connect" /\ inbound[c] = "tunnel"
    /\ client' = [client EXCEPT ![c] = "request"]
    /\ UNCHANGED <<inbound, upstream, served, accepted, bridge, receipt, got>>

ReadPart(c) ==
    /\ client[c] = "request" /\ upstream[c] = "open" /\ got[c] < Body
    /\ got' = [got EXCEPT ![c] = @ + 1]
    /\ UNCHANGED <<inbound, upstream, served, accepted, bridge, receipt, client>>

\* done settles the request once and destroys the client's socket, which the
\* bridge notices later (Drop): a body that reached its length is whole, one cut
\* short by an orderly end is handed out as it is, and an error, an abort or a
\* timeout is a failure.
Finish(c) ==
    /\ client[c] = "request"
    /\ \/ got[c] = Body /\ client' = [client EXCEPT ![c] = "whole"]
       \/ /\ got[c] < Body /\ inbound[c] = "closed"
          /\ client' = [client EXCEPT ![c] = "short"]
    /\ UNCHANGED <<inbound, upstream, served, accepted, bridge, receipt, got>>

GiveUp(c) ==
    /\ client[c] \in {"connect", "request"}
    /\ client' = [client EXCEPT ![c] = "failed"]
    /\ UNCHANGED <<inbound, upstream, served, accepted, bridge, receipt, got>>

EgressNext ==
    \/ \E c \in Conns : Accept(c) \/ Handshake(c) \/ DialOK(c) \/ DialFailed(c) \/ Drop(c)
                        \/ Connected(c) \/ ReadPart(c) \/ Finish(c) \/ GiveUp(c)
    \/ CloseBridge \/ BridgeReceipt

EgressSpec == EgressInit /\ [][EgressNext]_egressVars

-----------------------------------------------------------------------------
\* A host socket is open only for a connection the bridge still serves, on an
\* admitted host and within the limit, however late the dial answered; so a
\* receipt that says the sockets were joined leaves no way out of the sandbox,
\* then or later.
NoTunnelOutlivesItsEnd ==
    /\ {c \in Conns : upstream[c] = "open"} \subseteq served \cap Admitted
    /\ Cardinality(served) <= MaxConnections
    /\ receipt => \A c \in Conns : upstream[c] # "open"
=============================================================================
