----------------------------- MODULE PacketStream -----------------------------
(***************************************************************************)
(* What reading packets promises: over one connection they are handed over *)
(* whole and in the order in which they were sent, until the connection is *)
(* given up: the packet that is being read then may be handed over with    *)
(* what came of it.  A reader that takes the end of the connection for     *)
(* data hands over nothing of what was sent any more.                      *)
(***************************************************************************)
EXTENDS Naturals, Sequences

CONSTANT Packets    \* those the server sends over a connection, in order

VARIABLES
    handed,         \* the packets handed over
    givenUp,        \* 1: the connection is not used any more
    fooled          \* 1: the end of the connection was taken for data

streamVars == <<handed, givenUp, fooled>>

StreamInit == handed = <<>> /\ givenUp = 0 /\ fooled = 0

HandOver ==
    /\ givenUp = 0 /\ fooled = 0
    /\ Len(handed) < Len(Packets)
    /\ handed' = Append(handed, Packets[Len(handed) + 1])
    /\ UNCHANGED <<givenUp, fooled>>

(* The first k bytes of a payload, and zeros for the others. *)
CutOff(payload, k) ==
    [j \in DOMAIN payload |-> IF j <= k THEN payload[j] ELSE 0]

GiveUp ==
    /\ givenUp = 0
    /\ givenUp' = 1
    /\ UNCHANGED <<handed, fooled>>

GiveUpInAPacket ==
    /\ givenUp = 0 /\ fooled = 0
    /\ Len(handed) < Len(Packets)
    /\ LET packet == Packets[Len(handed) + 1] IN
       \E payload \in {CutOff(packet.payload, k) : k \in 0..Len(packet.payload)}
                        \cup {<<>>} :
         handed' = Append(handed, [packet EXCEPT !.payload = payload])
    /\ givenUp' = 1
    /\ UNCHANGED fooled

BeFooled ==
    /\ givenUp = 0 /\ fooled = 0
    /\ fooled' = 1
    /\ UNCHANGED <<handed, givenUp>>

(* A new connection, which the server starts again on.                     *)
Renew ==
    handed' = <<>> /\ givenUp' = 0 /\ fooled' = 0

StreamNext == HandOver \/ GiveUp \/ GiveUpInAPacket \/ BeFooled \/ Renew

StreamSpec == StreamInit /\ [][StreamNext]_streamVars

=============================================================================
