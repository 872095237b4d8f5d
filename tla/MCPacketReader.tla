---------------------------- MODULE MCPacketReader ----------------------------
(* Two packets: one whose length takes three digits, and one without payload. *)
EXTENDS PacketReader

TwoPackets == <<[header |-> 1, payload |-> <<3, 1, 0, 2>>], [header |-> 2, payload |-> <<>>]>>

=============================================================================
