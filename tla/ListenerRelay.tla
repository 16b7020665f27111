--------------------------- MODULE ListenerRelay ----------------------------
(***************************************************************************)
(* packetrelay.PacketListenerRelay: one association over a net.PacketConn. *)
(* The idle timeout is the deadline of the connection: every SendPacket    *)
(* pushes it back, and it takes effect in the goroutine that is blocked in *)
(* ReadFrom, which then closes the association.                            *)
(*                                                                         *)
(* A section under association.mu is one action; ListenPacket, WriteTo,    *)
(* ReadFrom, HandlePacket and the Close of the connection happen outside   *)
(* the lock and are actions of their own.  `left' is the time left until   *)
(* the deadline of the connection, 0 once it has passed.                   *)
(***************************************************************************)
EXTENDS Integers, FiniteSets

CONSTANTS Sends,     \* SendPacket calls
          Owners,   \* Close calls made by the owner of the association
          Timeouts   \* the timeouts SetWriteIdleTimeout is called with

ASSUME TimeoutsAssumption == Timeouts \subseteq Nat \ {0} /\ Timeouts # {}

VARIABLES relayTimeout,  \* relay.writeIdleTimeout
          na,            \* the NewAssociation call
          limit,         \* association.writeIdleTimeout, 0 before it is set
          assocClosed,        \* association.closed
          packetConn,    \* association.packetConn: "nil" or "conn"
          left,          \* time left until the deadline of the connection
          connCloses,        \* number of packetConn.Close() calls made
          sender,         \* state of each SendPacket call
          owner,         \* state of each Close call
          reader,          \* the ReceivePackets call
          cause          \* why it returned: none, read, handler

listenerVars == <<relayTimeout, na, limit, assocClosed, packetConn, left, connCloses, sender,
                  owner, reader, cause>>

assocVars == <<limit, assocClosed, packetConn, left, connCloses>>

ListenerTypeOK == /\ relayTimeout \in Timeouts
                  /\ na \in {"idle", "configured", "listened", "closing", "ready", "failed"}
                  /\ limit \in Timeouts \cup {0}
                  /\ assocClosed \in BOOLEAN
                  /\ packetConn = IF assocClosed \/ na \in {"idle", "configured"} \/ limit = 0
                                  THEN "nil" ELSE "conn"
                  /\ left \in 0..limit
                  /\ connCloses \in Nat
                  /\ sender \in [Sends -> {"idle", "refreshed", "gotConn", "nilConn", "sent",
                                          "writeFailed", "failed", "errClosed"}]
                  /\ owner \in [Owners -> {"idle", "closing", "done", "errClosed"}]
                  /\ reader \in {"idle", "reading", "handling", "readFailed", "closing", "returned"}
                  /\ cause \in {"none", "read", "handler"}

(* NewPacketRelayFromPacketListener                                        *)
ListenerInit == /\ relayTimeout \in Timeouts
                /\ na = "idle"
                /\ limit = 0
                /\ assocClosed = FALSE
                /\ packetConn = "nil"
                /\ left = 0
                /\ connCloses = 0
                /\ sender = [c \in Sends |-> "idle"]
                /\ owner = [k \in Owners |-> "idle"]
                /\ reader = "idle"
                /\ cause = "none"

-----------------------------------------------------------------------------
SetWriteIdleTimeout(t) ==
    /\ relayTimeout' = t
    /\ UNCHANGED <<na, sender, owner, reader, cause>>
    /\ UNCHANGED assocVars

(* NewAssociation: the timeout is read under the lock of the relay, ...    *)
ReadConfig ==
    /\ na = "idle"
    /\ na' = "configured"
    /\ limit' = relayTimeout
    /\ UNCHANGED <<relayTimeout, assocClosed, packetConn, left, connCloses, sender, owner,
                   reader, cause>>

(* ... ListenPacket succeeds or fails, ...                                 *)
ListenPacket ==
    /\ na = "configured"
    /\ \/ na' = "listened" /\ packetConn' = "conn" /\ UNCHANGED limit
       \/ na' = "failed" /\ limit' = 0 /\ UNCHANGED packetConn
    /\ UNCHANGED <<relayTimeout, assocClosed, left, connCloses, sender, owner, reader, cause>>

(* Variant that returns the error of SetDeadline without closing.          *)
FirstDeadlineLeaks ==
    /\ na = "listened"
    /\ \/ na' = "ready" /\ left' = limit
       \/ na' = "failed" /\ UNCHANGED left
    /\ UNCHANGED <<relayTimeout, limit, assocClosed, packetConn, connCloses, sender, owner,
                   reader, cause>>

(* ... and the first deadline is set; if that fails the association is     *)
(* closed and NewAssociation fails.                                        *)
FirstDeadline ==
    /\ na = "listened"
    /\ \/ /\ na' = "ready"
          /\ left' = limit
          /\ UNCHANGED <<assocClosed, packetConn>>
       \/ /\ na' = "closing"
          /\ assocClosed' = TRUE
          /\ packetConn' = "nil"
          /\ UNCHANGED left
    /\ UNCHANGED <<relayTimeout, limit, connCloses, sender, owner, reader, cause>>

NewAssociationCloses ==
    /\ na = "closing"
    /\ na' = "failed"
    /\ connCloses' = connCloses + 1
    /\ UNCHANGED <<relayTimeout, limit, assocClosed, packetConn, left, sender, owner,
                   reader, cause>>

-----------------------------------------------------------------------------
(* SendPacket(c)                                                           *)

SGoto(c, s) == sender' = [sender EXCEPT ![c] = s]

(* refreshDeadline; SetDeadline may fail.                                  *)
RefreshDeadline(c) ==
    /\ na = "ready"
    /\ sender[c] = "idle"
    /\ \/ assocClosed /\ SGoto(c, "errClosed") /\ UNCHANGED left
       \/ ~assocClosed /\ SGoto(c, "refreshed") /\ left' = limit
       \/ ~assocClosed /\ SGoto(c, "failed") /\ UNCHANGED left
    /\ UNCHANGED <<relayTimeout, na, limit, assocClosed, packetConn, connCloses, owner,
                   reader, cause>>

(* Variant of getPacketConn that trusts the test made by refreshDeadline.  *)
GetPacketConnUnguarded(c) ==
    /\ sender[c] = "refreshed"
    /\ SGoto(c, IF packetConn = "nil" THEN "nilConn" ELSE "gotConn")
    /\ UNCHANGED <<relayTimeout, na, owner, reader, cause>>
    /\ UNCHANGED assocVars

GetPacketConn(c) ==
    /\ sender[c] = "refreshed"
    /\ \/ assocClosed /\ SGoto(c, "errClosed")
       \/ ~assocClosed /\ SGoto(c, IF packetConn = "nil" THEN "nilConn" ELSE "gotConn")
    /\ UNCHANGED <<relayTimeout, na, owner, reader, cause>>
    /\ UNCHANGED assocVars

(* packetConn.WriteTo fails on a closed connection and after the deadline, *)
(* and may fail for reasons of its own.                                    *)
WriteTo(c) ==
    /\ sender[c] = "gotConn"
    /\ \/ connCloses = 0 /\ left > 0 /\ SGoto(c, "sent")
       \/ SGoto(c, "writeFailed")
    /\ UNCHANGED <<relayTimeout, na, owner, reader, cause>>
    /\ UNCHANGED assocVars

-----------------------------------------------------------------------------
(* Close(k), and the close() it shares with the reader.                    *)

(* Variant of close() that does not test the flag.                         *)
CloseListenerUnguarded(k) ==
    /\ na = "ready"
    /\ owner[k] = "idle"
    /\ assocClosed' = TRUE
    /\ packetConn' = "nil"
    /\ owner' = [owner EXCEPT ![k] = "closing"]
    /\ UNCHANGED <<relayTimeout, na, limit, left, connCloses, sender, reader, cause>>

CloseListener(k) ==
    /\ na = "ready"
    /\ owner[k] = "idle"
    /\ \/ /\ assocClosed
          /\ owner' = [owner EXCEPT ![k] = "errClosed"]
          /\ UNCHANGED <<assocClosed, packetConn>>
       \/ /\ ~assocClosed
          /\ owner' = [owner EXCEPT ![k] = "closing"]
          /\ assocClosed' = TRUE
          /\ packetConn' = "nil"
    /\ UNCHANGED <<relayTimeout, na, limit, left, connCloses, sender, reader, cause>>

CloserClosesConn(k) ==
    /\ owner[k] = "closing"
    /\ owner' = [owner EXCEPT ![k] = "done"]
    /\ connCloses' = connCloses + 1
    /\ UNCHANGED <<relayTimeout, na, limit, assocClosed, packetConn, left, sender, reader, cause>>

-----------------------------------------------------------------------------
(* ReceivePackets, on its own reference to the connection.                 *)

OutsideReader == UNCHANGED <<relayTimeout, na, sender, owner>>

StartReading ==
    /\ na = "ready"
    /\ reader = "idle"
    /\ reader' = "reading"
    /\ UNCHANGED cause
    /\ UNCHANGED assocVars
    /\ OutsideReader

Readable == connCloses = 0 /\ left > 0

(* ReadFrom returns a datagram, one that is longer than the buffer         *)
(* (io.ErrShortBuffer, the loop goes on), or one whose source address      *)
(* cannot be parsed.                                                       *)
ReadPacket ==
    /\ reader = "reading"
    /\ Readable
    /\ reader' = "handling"
    /\ UNCHANGED cause
    /\ UNCHANGED assocVars
    /\ OutsideReader

ReadShort ==
    /\ reader = "reading"
    /\ Readable
    /\ UNCHANGED listenerVars

ReadBadSource ==
    /\ reader = "reading"
    /\ Readable
    /\ reader' = "returned"
    /\ cause' = "handler"
    /\ UNCHANGED assocVars
    /\ OutsideReader

(* ReadFrom fails: the deadline has passed or the connection is closed ... *)
ReadEnds ==
    /\ reader = "reading"
    /\ ~Readable
    /\ reader' = "readFailed"
    /\ UNCHANGED cause
    /\ UNCHANGED assocVars
    /\ OutsideReader

(* ... or for a reason of its own.                                         *)
ReadFails ==
    /\ reader = "reading"
    /\ Readable
    /\ reader' = "readFailed"
    /\ UNCHANGED cause
    /\ UNCHANGED assocVars
    /\ OutsideReader

(* handler.HandlePacket                                                    *)
HandlePacket ==
    /\ reader = "handling"
    /\ \/ reader' = "reading" /\ UNCHANGED cause
       \/ reader' = "returned" /\ cause' = "handler"
    /\ UNCHANGED assocVars
    /\ OutsideReader

(* Variant of the error branch that goes on reading.                       *)
ReaderRetries ==
    /\ reader = "readFailed"
    /\ reader' = "reading"
    /\ UNCHANGED cause
    /\ UNCHANGED assocVars
    /\ OutsideReader

(* r.association.close() of the reader, up to the unlock.                  *)
ReaderCloses ==
    /\ reader = "readFailed"
    /\ \/ /\ assocClosed
          /\ reader' = "returned"
          /\ cause' = "read"
          /\ UNCHANGED <<assocClosed, packetConn>>
       \/ /\ ~assocClosed
          /\ reader' = "closing"
          /\ assocClosed' = TRUE
          /\ packetConn' = "nil"
          /\ UNCHANGED cause
    /\ UNCHANGED <<limit, left, connCloses>>
    /\ OutsideReader

ReaderClosesConn ==
    /\ reader = "closing"
    /\ reader' = "returned"
    /\ cause' = "read"
    /\ connCloses' = connCloses + 1
    /\ UNCHANGED <<limit, assocClosed, packetConn, left>>
    /\ OutsideReader

DeadlineTick == /\ left > 0
                /\ left' = left - 1
                /\ UNCHANGED <<relayTimeout, na, limit, assocClosed, packetConn, connCloses, sender,
                               owner, reader, cause>>

-----------------------------------------------------------------------------
NewAssociation == ReadConfig \/ ListenPacket \/ FirstDeadline \/ NewAssociationCloses

SendToListener(c) == RefreshDeadline(c) \/ GetPacketConn(c) \/ WriteTo(c)

ReaderStep == ReadEnds \/ HandlePacket \/ ReaderCloses \/ ReaderClosesConn

ListenerNext == \/ \E t \in Timeouts : SetWriteIdleTimeout(t)
                \/ NewAssociation
                \/ \E c \in Sends : SendToListener(c)
                \/ \E k \in Owners : CloseListener(k) \/ CloserClosesConn(k)
                \/ StartReading
                \/ ReaderStep
                \/ ReadPacket
                \/ ReadShort
                \/ ReadBadSource
                \/ ReadFails
                \/ DeadlineTick

ListenerSpec == ListenerInit /\ [][ListenerNext]_listenerVars

(* Time passes, a goroutine that can go on does, ReadFrom returns once the *)
(* deadline has passed or the connection is closed, and HandlePacket       *)
(* returns.  Nobody is obliged to send, to close or to start receiving,    *)
(* and no packet need arrive.                                              *)
ListenerFairness == /\ WF_listenerVars(DeadlineTick)
                    /\ WF_listenerVars(ReaderStep)
                    /\ \A k \in Owners : WF_listenerVars(CloserClosesConn(k))

ListenerFairSpec == ListenerSpec /\ ListenerFairness

-----------------------------------------------------------------------------
(* The connection is closed exactly once by a closed association and never *)
(* by an open one, whichever of Close calls, the reader and a failing      *)
(* NewAssociation gets there first.                                        *)
ConnClosedOnce ==
    LET owed == Cardinality({k \in Owners : owner[k] = "closing"})
                + (IF reader = "closing" THEN 1 ELSE 0)
                + (IF na = "closing" THEN 1 ELSE 0)
    IN  connCloses + owed = IF assocClosed THEN 1 ELSE 0

(* a.packetConn is set to nil by close(); no SendPacket call that is       *)
(* between its two locked sections ever gets hold of that nil.             *)
NoNilConn == \A c \in Sends : sender[c] # "nilConn"

(* A NewAssociation that fails leaves no open connection behind, and the   *)
(* reader that meets a read error (the idle deadline among them) leaves no *)
(* open association behind, although the owner may be closing it too.      *)
NoConnLeak == /\ na = "failed" => packetConn = "nil"
              /\ cause = "read" => assocClosed

(* The connection of an association is in exactly one hand: usable by a    *)
(* sender, being closed by one goroutine, or closed.                       *)
ConnInOneHand == ConnClosedOnce /\ NoNilConn /\ NoConnLeak

-----------------------------------------------------------------------------
(* The association keeps the contract.  A send is taken when it gets the   *)
(* connection.                                                             *)
ListenerAssoc == INSTANCE RelayAssoc
         WITH Calls    <- Sends,
              status   <- IF assocClosed THEN "closed" ELSE "open",
              accepted <- {c \in Sends : sender[c] \in {"gotConn", "sent", "writeFailed"}},
              recv       <- IF reader \in {"idle", "returned"} THEN reader ELSE "active"

ListenerContract == ListenerAssoc!Contract

-----------------------------------------------------------------------------
(* network.PacketListenerProxy: this relay behind the adapter to the older *)
(* PacketProxy interface.  NewSession starts a goroutine that runs         *)
(* ReceivePackets and then closes the response receiver; HandlePacket is   *)
(* WriteFrom of that receiver, so it fails when WriteFrom does.            *)
VARIABLE resp    \* the PacketResponseReceiver: "open" until its Close

proxyVars == <<listenerVars, resp>>

ProxyInit == ListenerInit /\ resp = "open"

(* respReceiver.Close() after ReceivePackets has returned.                 *)
CloseRespReceiver == /\ reader = "returned"
                     /\ resp = "open"
                     /\ resp' = "closed"
                     /\ UNCHANGED listenerVars

ProxyNext == \/ ListenerNext /\ UNCHANGED resp
             \/ CloseRespReceiver

(* The goroutine of NewSession starts receiving and, afterwards, closes.   *)
ProxyFairness == /\ ListenerFairness
                 /\ WF_proxyVars(StartReading /\ UNCHANGED resp)
                 /\ WF_proxyVars(CloseRespReceiver)

ProxySpec == ProxyInit /\ [][ProxyNext]_proxyVars /\ ProxyFairness

(* The response receiver of every session is closed in the end, on its     *)
(* own: by an idle timeout, a close or an error.                           *)
RespReceiverCloses == na = "ready" ~> resp = "closed"

(* "if there are no WriteTo operations on the UDP session created by       *)
(* NewSession for the specified amount of time, the proxy will end this    *)
(* session."  Only the reader notices the deadline, and a reader that      *)
(* WriteFrom ended does not close the association: its connection then     *)
(* stays open for as long as the owner does not close it.                  *)
IdleSessionEnds == na = "ready" ~> connCloses > 0
=============================================================================
