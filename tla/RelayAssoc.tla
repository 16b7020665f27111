----------------------------- MODULE RelayAssoc -----------------------------
(***************************************************************************)
(* The contract of one packet association, as the PacketSender and         *)
(* PacketReceiver interfaces of network/packetrelay state it.  The         *)
(* decorators and relays of the SDK are built on associations that keep    *)
(* this contract and must keep it themselves; their modules name this one  *)
(* as the specification they implement.                                    *)
(***************************************************************************)
CONSTANTS Calls          \* the SendPacket calls ever made on the association

VARIABLES status,        \* "open" until the association ends
          accepted,      \* the SendPacket calls the association took
          recv           \* the ReceivePackets call: idle, active, returned

vars == <<status, accepted, recv>>

TypeOK == /\ status \in {"open", "closed"}
          /\ accepted \subseteq Calls
          /\ recv \in {"idle", "active", "returned"}

Init == /\ status = "open"
        /\ accepted = {}
        /\ recv = "idle"

(* A SendPacket call is taken only while the association is open: "Any     *)
(* future attempts to call SendPacket should fail with ErrClosed."         *)
Accept(c) == /\ status = "open"
             /\ c \notin accepted
             /\ accepted' = accepted \cup {c}
             /\ UNCHANGED <<status, recv>>

(* Close of the sender, or the relay ending the association by itself.     *)
End == /\ status = "open"
       /\ status' = "closed"
       /\ UNCHANGED <<accepted, recv>>

StartReceive == /\ recv = "idle"
                /\ recv' = "active"
                /\ UNCHANGED <<status, accepted>>

(* "It returns when the association is closed or an error occurs."         *)
ReturnReceive == /\ recv = "active"
                 /\ recv' = "returned"
                 /\ UNCHANGED <<status, accepted>>

(* A ReceivePackets call on an association that ended is refused at once.  *)
RefuseReceive == /\ recv = "idle"
                 /\ status = "closed"
                 /\ recv' = "returned"
                 /\ UNCHANGED <<status, accepted>>

Next == \/ \E c \in Calls : Accept(c)
        \/ End
        \/ StartReceive
        \/ ReturnReceive
        \/ RefuseReceive

Safety == Init /\ [][Next]_vars

(* "calling Close MUST cause any active ReceivePackets call on the         *)
(* associated PacketReceiver to return and release its resources."         *)
CloseEndsReceive == (status = "closed" /\ recv = "active") ~> (recv = "returned")

Contract == Safety /\ CloseEndsReceive
=============================================================================
