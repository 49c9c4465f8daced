---------------------------- MODULE CommandLink ----------------------------
(***************************************************************************)
(* What the host's users rely on when they queue commands for a            *)
(* micro-controller: the blocks sent are delivered in order, none twice    *)
(* and none skipped, and a block is acked only after it was delivered.     *)
(* SerialProtocol implements this specification.                           *)
(***************************************************************************)
EXTENDS Integers, Sequences

VARIABLES
    sent,       \* number of blocks sent
    delivered,  \* the blocks delivered, by position in the order of sending
    acked       \* number of blocks known to be delivered

linkVars == <<sent, delivered, acked>>

Init == sent = 0 /\ delivered = <<>> /\ acked = 0

Send == sent' = sent + 1 /\ UNCHANGED <<delivered, acked>>

Deliver ==
    /\ Len(delivered) < sent
    /\ delivered' = Append(delivered, Len(delivered) + 1)
    /\ UNCHANGED <<sent, acked>>

\* One message from the mcu may ack several blocks.
Ack ==
    /\ acked' \in (acked + 1)..Len(delivered)
    /\ UNCHANGED <<sent, delivered>>

Next == Send \/ Deliver \/ Ack

Spec == Init /\ [][Next]_linkVars
=============================================================================
