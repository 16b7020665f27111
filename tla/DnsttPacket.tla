---------------------------- MODULE DnsttPacket -----------------------------
(***************************************************************************)
(* x/dnstt/dnspacketconn.go and the DNS transports below it.  Packets of   *)
(* the tunnel leave as DNS queries; a server can only answer queries, so   *)
(* sendLoop also sends empty ones: after every response with data, and     *)
(* when a timer with exponential back-off expires.  The DoT transport      *)
(* writes the queries to a TCP connection that it dials again when both of *)
(* its loops have ended.  turbotunnel.QueuePacketConn (bounded queues that *)
(* drop when full and refuse writes after Close) is external.              *)
(***************************************************************************)
EXTENDS Naturals

CONSTANTS Kinds,         \* transports: "udp", "dot", "doh", "resolver"
          MaxOut,        \* bound: packets waiting to leave
          PollLimit,     \* capacity of pollChan (16 in the code)
          MaxBackoff,    \* doublings until maxPollDelay (5 in the code)
          QueueSize      \* queries waiting in the transport

ASSUME BoundsAssumption == MaxOut \in Nat /\ PollLimit \in Nat /\ MaxBackoff \in Nat
                           /\ QueueSize \in Nat \ {0}

VARIABLES kind,          \* the transport of this session
          outq,          \* packets KCP has queued
          polls,         \* pollChan
          loop,          \* sendLoop: first, second, chosen, timer, send
          picked,        \* what the select took: data, poll, expired
          timer,         \* pollTimer: "armed" or "stopped"
          tick,          \* its channel: "none", "current", or a "stale" expiry
          backoff,       \* doublings of pollDelay
          dnsq,          \* queries queued in the transport
          tcp,           \* DoT connection: up, broken, closed, gone
          reader,        \* DoT recvLoop: running, ended
          writer,        \* DoT sendLoop: running, ended
          holdoff,       \* DoH: notBefore lies in the future
          state          \* "open" until Close

loopVars == <<outq, polls, loop, picked, timer, tick, backoff>>
dotVars == <<tcp, reader, writer>>
packetVars == <<kind, loopVars, dnsq, dotVars, holdoff, state>>

PacketInit == /\ kind \in Kinds
              /\ outq = 0 /\ polls = 0 /\ dnsq = 0
              /\ loop = "first" /\ picked = "data"
              /\ timer = "armed" /\ tick = "none" /\ backoff = 0
              /\ tcp = "up" /\ reader = "running" /\ writer = "running"
              /\ holdoff = "no"
              /\ state = "open"

Lesser(a, b) == IF a < b THEN a ELSE b

-----------------------------------------------------------------------------
(* The poll loop.                                                          *)

KcpSends == /\ outq < MaxOut
            /\ outq' = outq + 1
            /\ UNCHANGED <<kind, polls, loop, picked, timer, tick, backoff, dnsq, dotVars,
                           holdoff, state>>

TimerFires == /\ timer = "armed"
              /\ timer' = "stopped"
              /\ tick' = "current"
              /\ UNCHANGED <<kind, outq, polls, loop, picked, backoff, dnsq, dotVars, holdoff,
                             state>>

(* The selects: data first, then whatever comes.                           *)
Select ==
    /\ \/ /\ loop \in {"first", "second"} /\ outq > 0
          /\ outq' = outq - 1 /\ picked' = "data" /\ loop' = "chosen"
          /\ UNCHANGED <<polls, tick>>
       \/ /\ loop = "first" /\ outq = 0
          /\ loop' = "second"
          /\ UNCHANGED <<outq, polls, tick, picked>>
       \/ /\ loop = "second" /\ polls > 0
          /\ polls' = polls - 1 /\ picked' = "poll" /\ loop' = "chosen"
          /\ UNCHANGED <<outq, tick>>
       \/ /\ loop = "second" /\ tick # "none"
          /\ tick' = "none" /\ picked' = "expired" /\ loop' = "chosen"
          /\ UNCHANGED <<outq, polls>>
    /\ UNCHANGED <<kind, timer, backoff, dnsq, dotVars, holdoff, state>>

(* A query with data does the work of one pending poll.                    *)
AbsorbPoll == /\ loop = "chosen"
              /\ polls' = IF picked = "data" /\ polls > 0 THEN polls - 1 ELSE polls
              /\ loop' = "timer"
              /\ UNCHANGED <<kind, outq, picked, timer, tick, backoff, dnsq, dotVars, holdoff,
                             state>>

(* Variant: a timer that could not be stopped keeps its expiry.            *)
ResetTimerUndrained ==
    /\ loop = "timer"
    /\ backoff' = IF picked = "expired" THEN Lesser(backoff + 1, MaxBackoff) ELSE 0
    /\ timer' = "armed"
    /\ tick' = IF tick = "none" THEN "none" ELSE "stale"
    /\ loop' = "send"
    /\ UNCHANGED <<kind, outq, polls, picked, dnsq, dotVars, holdoff, state>>

(* Variant: the timer is armed again only after it expired.                *)
ResetTimerOnExpiryOnly ==
    /\ loop = "timer"
    /\ IF picked = "expired"
       THEN /\ backoff' = Lesser(backoff + 1, MaxBackoff)
            /\ timer' = "armed"
            /\ UNCHANGED tick
       ELSE backoff' = 0 /\ tick' = "none" /\ timer' = "stopped"
    /\ loop' = "send"
    /\ UNCHANGED <<kind, outq, polls, picked, dnsq, dotVars, holdoff, state>>

(* Back-off after an expiry; otherwise the timer is stopped, an expiry     *)
(* that came first is drained, and the delay starts over.                  *)
ResetTimer ==
    /\ loop = "timer"
    /\ IF picked = "expired"
       THEN /\ backoff' = Lesser(backoff + 1, MaxBackoff)
            /\ tick' = IF tick = "none" THEN "none" ELSE "stale"
       ELSE backoff' = 0 /\ tick' = "none"
    /\ timer' = "armed"
    /\ loop' = "send"
    /\ UNCHANGED <<kind, outq, polls, picked, dnsq, dotVars, holdoff, state>>

(* send: the query goes to the socket or into the transport's queue, which *)
(* drops it when it is full, and fails after Close.                        *)
Send == /\ loop = "send"
        /\ loop' = "first"
        /\ dnsq' = IF state = "open" /\ kind # "udp" THEN Lesser(dnsq + 1, QueueSize) ELSE dnsq
        /\ UNCHANGED <<kind, outq, polls, picked, timer, tick, backoff, dotVars, holdoff, state>>

(* recvLoop: a well-formed response with at least one packet asks for one  *)
(* more query.                                                             *)
Respond == polls' \in {polls, Lesser(polls + 1, PollLimit)}

UdpResponse == /\ kind = "udp" /\ state = "open"
               /\ Respond
               /\ UNCHANGED <<kind, outq, loop, picked, timer, tick, backoff, dnsq, dotVars,
                              holdoff, state>>

-----------------------------------------------------------------------------
(* DNS over TLS.                                                           *)

DotReads == /\ kind = "dot" /\ tcp = "up" /\ reader = "running"
            /\ Respond
            /\ UNCHANGED <<kind, outq, loop, picked, timer, tick, backoff, dnsq, dotVars, holdoff,
                           state>>

DotReadEnds == /\ kind = "dot" /\ tcp = "broken" /\ reader = "running"
               /\ reader' = "ended"
               /\ UNCHANGED <<kind, loopVars, dnsq, tcp, writer, holdoff, state>>

(* The writer takes a query; on a broken connection the first writes may   *)
(* still seem to succeed.                                                  *)
DotWrites == /\ kind = "dot" /\ writer = "running" /\ dnsq > 0
             /\ dnsq' = dnsq - 1
             /\ UNCHANGED <<kind, loopVars, dotVars, holdoff, state>>

DotWriteFails == /\ kind = "dot" /\ writer = "running" /\ dnsq > 0
                 /\ tcp = "broken"
                 /\ dnsq' = dnsq - 1
                 /\ writer' = "ended"
                 /\ UNCHANGED <<kind, loopVars, tcp, reader, holdoff, state>>

(* After wg.Wait: close the connection, dial the next; a failed dial       *)
(* closes the transport.                                                   *)
DotRedial ==
    /\ kind = "dot" /\ reader = "ended" /\ writer = "ended" /\ tcp # "gone"
    /\ \/ /\ tcp' = "up" /\ reader' = "running" /\ writer' = "running"
          /\ UNCHANGED state
       \/ /\ tcp' = "gone" /\ state' = "closed"
          /\ UNCHANGED <<reader, writer>>
    /\ UNCHANGED <<kind, loopVars, dnsq, holdoff>>

DotBreaks == /\ kind = "dot" /\ tcp = "up"
             /\ tcp' = "broken"
             /\ UNCHANGED <<kind, loopVars, dnsq, reader, writer, holdoff, state>>

-----------------------------------------------------------------------------
(* DNS over HTTPS and through a resolver: senders take queries; a refusal  *)
(* of the server makes the DoH senders drop what comes until Retry-After.  *)

DohSends == /\ kind = "doh" /\ dnsq > 0
            /\ dnsq' = dnsq - 1
            /\ \/ holdoff = "yes" /\ UNCHANGED <<polls, holdoff>>
               \/ holdoff = "no" /\ Respond /\ UNCHANGED holdoff
               \/ holdoff = "no" /\ holdoff' = "yes" /\ UNCHANGED polls
            /\ UNCHANGED <<kind, outq, loop, picked, timer, tick, backoff, dotVars, state>>

HoldoffEnds == /\ holdoff = "yes"
               /\ holdoff' = "no"
               /\ UNCHANGED <<kind, loopVars, dnsq, dotVars, state>>

ResolverSends == /\ kind = "resolver" /\ dnsq > 0
                 /\ dnsq' = dnsq - 1
                 /\ Respond
                 /\ UNCHANGED <<kind, outq, loop, picked, timer, tick, backoff, dotVars, holdoff,
                                state>>

(* Close of the dialer closes both packet conns: their queues, no loop.    *)
PacketClose == /\ state = "open"
               /\ state' = "closed"
               /\ UNCHANGED <<kind, loopVars, dnsq, dotVars, holdoff>>

SendLoop == Select \/ AbsorbPoll \/ ResetTimer \/ Send
Dot == DotReads \/ DotReadEnds \/ DotWrites \/ DotWriteFails \/ DotRedial \/ DotBreaks

PacketNext == \/ SendLoop \/ KcpSends \/ TimerFires \/ UdpResponse
              \/ Dot
              \/ DohSends \/ HoldoffEnds \/ ResolverSends
              \/ PacketClose

PacketFairness == /\ WF_packetVars(SendLoop) /\ WF_packetVars(TimerFires)
                  /\ WF_packetVars(DotReadEnds) /\ WF_packetVars(DotRedial)
                  /\ SF_packetVars(DotWriteFails)
                  /\ WF_packetVars(DotWrites \/ DotWriteFails)

PacketSpec == PacketInit /\ [][PacketNext]_packetVars /\ PacketFairness

-----------------------------------------------------------------------------
(* An expiry in the timer's channel belongs to the delay that is running:  *)
(* the loop never takes one from before the last Reset, which would send a *)
(* poll early and double the delay.                                        *)
NoStaleExpiry == tick # "stale"

(* A silent tunnel is polled for ever, and a broken DoT connection is      *)
(* noticed through those polls and replaced, unless the dialer is closed.  *)
TunnelKeepsPolling ==
    /\ []<>(loop = "send")
    /\ (kind = "dot" /\ tcp = "broken") ~> (tcp # "broken" \/ state = "closed")

(* "Close tears down the underlying session and any DNS transports."  The  *)
(* Close of the DoT transport is that of its queues: the connection stays. *)
CloseTearsDownDot == (kind = "dot" /\ state = "closed") ~> (tcp \in {"broken", "gone"})

-----------------------------------------------------------------------------
(* Variant: without the length byte of every label.                        *)
DnsNameCapacityUnlabelled(D) == ((254 - D) * 5) \div 8

(* Room for payload in a name whose domain takes D bytes on the wire.      *)
DnsNameCapacity(D) == ((((254 - D) * 63) \div 64) * 5) \div 8

(* The payload limit of dialSession: client ID, prefix, padding, length.   *)
Mtu(D) == DnsNameCapacity(D) - (8 + 1 + 3 + 1)
DialAccepts(D) == DnsNameCapacity(D) >= 13 + 80

(* Bytes of the name of a query with n bytes of payload: base32 without    *)
(* padding, cut into labels of at most 63 bytes, each with a length byte,  *)
(* the domain and the root.                                                *)
Decoded(n) == 8 + 1 + (IF n = 0 THEN 8 ELSE 3) + (IF n = 0 THEN 0 ELSE 1 + n)
Encoded(n) == (Decoded(n) * 8 + 4) \div 5
NameLength(n, D) == Encoded(n) + ((Encoded(n) + 62) \div 63) + D + 1

NamesFit == \A D \in 0 .. 254 : DialAccepts(D) =>
    \A n \in 0 .. Mtu(D) : NameLength(n, D) <= 255 /\ n < 224

(* Whatever domain dialSession accepts, every payload up to the MTU it     *)
(* sets and every empty poll makes a legal name and passes the length test *)
(* of send, so that no query of a session is refused for its size.         *)
QueriesFit == loop = "send" => NamesFit

(* The sending loop works on the delay and the sizes that hold at the time *)
(* it sends.                                                               *)
PacketsSound == NoStaleExpiry /\ QueriesFit
=============================================================================
