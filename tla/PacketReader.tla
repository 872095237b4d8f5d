----------------------------- MODULE PacketReader -----------------------------
(***************************************************************************)
(* How bytes become packets: readPacket() of instamsg.c over socket_read() *)
(* of the Linux port, directly or through the SSL engine of socket.c.      *)
(*                                                                         *)
(* The bytes arrive in pieces, and late.  One call of recv is one action:  *)
(* it returns a part of what was asked for, a time-out, the end of the     *)
(* connection or an error.  The handshake of SSL is over when a behaviour  *)
(* begins; the engine is OpenSSL, as far as socket.c can see it: it asks   *)
(* for the bytes of a record and then has plain text.                      *)
(***************************************************************************)
EXTENDS Integers, Sequences

CONSTANTS
    Packets,            \* what the server sends: headers and payloads
    Base,               \* 128: the values of a digit of the remaining length
    Width,              \* 2^32, of an int
    RecordHeader,       \* the bytes in front of an SSL record
    MaxTries            \* MAX_TRIES_ALLOWED_WHILE_READING_FROM_SOCKET_MEDIUM

Byte == 0..(2 * Base - 1)

ASSUME ReaderAssumption ==
    /\ {Base, RecordHeader, MaxTries} \subseteq Nat \ {0} /\ Base > 1
    /\ Width \in Nat /\ Width > 2 * Base
    /\ Packets \in Seq([header : Byte, payload : Seq(Byte)])

VARIABLES
    secure,             \* the socket reads through the SSL engine
    arrived, connection,    \* bytes that have come, and how it ends
    taken,              \* bytes that recv has returned
    errno,              \* 0 or not; a successful call does not clear it
    fed, lost,          \* the engine: bytes it was given; a byte is missing
    read,               \* bytes of plain text that were read
    want, bytes,        \* socket_read(): its length, 0 outside; and so far
    need, buffer,       \* the read of a socket: its length, and its bytes
    reading,            \* readPacket(): what it is reading
    numRetries, rem_len, multiplier, i, readbuf,
    socketCorrupted,
    handed, fooled      \* history: packets handed over; see PacketStream

network    == <<arrived, connection>>
engineVars == <<fed, lost, read>>
callVars   == <<want, bytes, need, buffer>>
packetVars == <<reading, numRetries, rem_len, multiplier, i, readbuf>>
readerVars == <<secure, network, taken, errno, engineVars, callVars, packetVars,
                socketCorrupted, handed, fooled>>

-----------------------------------------------------------------------------
(* The bytes of a packet, of all of them, and of the connection.           *)

(* MQTTPacket_encode: the last digit has no mark. *)
Encoded[n \in Nat] ==
    IF n < Base THEN <<n>> ELSE <<(n % Base) + Base>> \o Encoded[n \div Base]

Bytes(p) == <<p.header>> \o Encoded[Len(p.payload)] \o p.payload

(* The bytes of the first k packets. *)
Text[k \in 0..Len(Packets)] ==
    IF k = 0 THEN <<>> ELSE Text[k - 1] \o Bytes(Packets[k])

PlainText == Text[Len(Packets)]

Plain(k) == Len(Text[k])

(* A packet is sent as one record: where the first k of them end. *)
RecordEnd(k) == Plain(k) + k * RecordHeader

OnTheWire == IF secure = 1 THEN RecordEnd(Len(Packets)) ELSE Len(PlainText)

Waiting == arrived - taken

(* The records the engine has in full, and what it asks for next: the rest *)
(* of a record's header, or of the record.                                 *)
Records == CHOOSE k \in 0..Len(Packets) :
             /\ RecordEnd(k) <= fed
             /\ k = Len(Packets) \/ RecordEnd(k + 1) > fed

Request ==
    LET start == RecordEnd(Records) IN
    IF fed < start + RecordHeader \/ Records = Len(Packets)
    THEN start + RecordHeader - fed
    ELSE RecordEnd(Records + 1) - fed

-----------------------------------------------------------------------------
(* A read of the socket: of n bytes.  Without SSL it is a socket_read().   *)
Read(n) ==
    /\ need' = n /\ buffer' = <<>>
    /\ want' = IF secure = 1 THEN 0 ELSE n
    /\ bytes' = 0

NoRead == need' = 0 /\ buffer' = <<>> /\ want' = 0 /\ bytes' = 0

(* Everything but the header byte is read with "guaranteed". *)
Guaranteed == reading # "header"

(* Mutant: the tries are not counted from the start.                     *)
ReadPacketKeepingRetries ==
    /\ reading = "idle" /\ socketCorrupted = 0
    /\ reading' = "header"
    /\ rem_len' = 0 /\ multiplier' = 1 /\ readbuf' = <<>>
    /\ i' \in Byte                      \* not initialised
    /\ Read(1)
    /\ UNCHANGED <<secure, numRetries, network, taken, errno, engineVars,
                   socketCorrupted, handed, fooled>>

ReadPacket ==
    /\ reading = "idle" /\ socketCorrupted = 0
    /\ reading' = "header" /\ numRetries' = MaxTries
    /\ rem_len' = 0 /\ multiplier' = 1 /\ readbuf' = <<>>
    /\ i' \in Byte                      \* not initialised
    /\ Read(1)
    /\ UNCHANGED <<secure, network, taken, errno, engineVars, socketCorrupted,
                   handed, fooled>>

(* A FAILURE of the read, at any depth.  After the header readPacket()     *)
(* still returns SUCCESS then, that of its last read: its caller has the   *)
(* packet as far as it came, with zeros for the rest, and nothing in       *)
(* fixedHeader.                                                            *)
ReadFails ==
    /\ socketCorrupted' = 1
    /\ reading' = "idle"
    /\ handed' =
         IF reading = "header" \/ fooled = 1 THEN handed
         ELSE Append(handed,
                [header |-> readbuf[1],
                 payload |-> IF reading = "length" THEN <<>>
                             ELSE buffer \o [k \in 1..(need - Len(buffer)) |-> 0]])
    /\ NoRead
    /\ UNCHANGED <<numRetries, rem_len, multiplier, i, readbuf>>

-----------------------------------------------------------------------------
(* secure_socket_read.                                                     *)

ReadPlainText ==
    /\ secure = 1 /\ want = 0 /\ Len(buffer) < need
    /\ read < Plain(Records)
    /\ LET all == Plain(Records) - read
           k   == IF all < need - Len(buffer) THEN all ELSE need - Len(buffer)
       IN  /\ buffer' = buffer \o SubSeq(PlainText, read + 1, read + k)
           /\ read' = read + k
    /\ UNCHANGED <<secure, network, taken, errno, fed, lost, want, bytes, need,
                   packetVars, socketCorrupted, handed, fooled>>

(* BIO_should_read: read_pending_data_from_network, never with             *)
(* must_read_some_bytes_from_wire.                                         *)
ReadPending ==
    /\ secure = 1 /\ want = 0 /\ Len(buffer) < need
    /\ read = Plain(Records)
    /\ \/ lost = 0 /\ want' = Request
       \/ lost = 1 /\ want' \in 1..RecordHeader
    /\ bytes' = 0
    /\ UNCHANGED <<secure, network, taken, errno, engineVars, need, buffer,
                   packetVars, socketCorrupted, handed, fooled>>

(* A record that misses a byte is not authentic. *)
NoRetryCase ==
    /\ secure = 1 /\ want = 0 /\ Len(buffer) < need
    /\ read = Plain(Records) /\ lost = 1
    /\ ReadFails
    /\ UNCHANGED <<secure, network, taken, errno, engineVars, fooled>>

-----------------------------------------------------------------------------
(* socket_read: one recv.                                                  *)

(* Some bytes.  When they are all there BIO_write gives them to the engine.*)
Recv ==
    /\ want > bytes
    /\ \E n \in 1..Waiting :
        LET all == secure = 1 /\ bytes + n = want IN
        /\ n <= want - bytes
        /\ taken' = taken + n
        /\ bytes' = IF all THEN 0 ELSE bytes + n
        /\ want' = IF all THEN 0 ELSE want
        /\ buffer' = IF secure = 1 THEN buffer
                     ELSE buffer \o SubSeq(PlainText, taken + 1, taken + n)
        /\ fed' = IF all /\ lost = 0 THEN fed + want ELSE fed
    /\ UNCHANGED <<secure, network, errno, lost, read, need, packetVars,
                   socketCorrupted, handed, fooled>>

(* SOCKET_READ_TIMEOUT for readPacket: there is nothing to read. *)
NothingToRead ==
    /\ numRetries' = numRetries - 1
    /\ IF numRetries = 1
       THEN reading' = "idle" /\ NoRead
       ELSE Read(1) /\ UNCHANGED reading

(* EAGAIN: a second has passed.  What socket_read has so far is in a       *)
(* buffer nobody looks at again.                                           *)
RecvTimesOut ==
    /\ want > bytes /\ Waiting = 0 /\ connection = "open"
    /\ errno' = 1
    /\ lost' = IF secure = 1 /\ bytes > 0 THEN 1 ELSE lost
    /\ IF Guaranteed
       THEN /\ want' = IF secure = 1 THEN 0 ELSE want
            /\ bytes' = IF secure = 1 THEN 0 ELSE bytes
            /\ UNCHANGED <<need, buffer, reading, numRetries>>
       ELSE NothingToRead
    /\ UNCHANGED <<secure, network, taken, fed, read, rem_len, multiplier, i,
                   readbuf, socketCorrupted, handed, fooled>>

RecvFails ==
    /\ want > bytes /\ connection = "broken"
    /\ errno' = 1
    /\ ReadFails
    /\ UNCHANGED <<secure, network, taken, engineVars, fooled>>

AtEnd == want > bytes /\ Waiting = 0 /\ connection = "closed"

(* Mutant: no test for 0, so that it counts as 0 bytes. *)
RecvEndAddsNothing == AtEnd /\ errno # 0 /\ UNCHANGED readerVars

(* recv returns 0, and errno is what an earlier call has left.             *)
RecvEnd ==
    /\ AtEnd /\ errno # 0
    /\ ReadFails
    /\ UNCHANGED <<secure, network, taken, errno, engineVars, fooled>>

(* With errno 0 it counts as all of the bytes: those of the buffer as it   *)
(* was, or what the wire buffer holds, for the engine.                     *)
RecvEndUnnoticed ==
    /\ AtEnd /\ errno = 0
    /\ fooled' = 1
    /\ bytes' = 0 /\ want' = 0
    /\ lost' = IF secure = 1 THEN 1 ELSE lost
    /\ buffer' = IF secure = 1 THEN buffer
                 ELSE buffer \o [k \in 1..(need - Len(buffer)) |->
                                   IF reading = "length" THEN i ELSE 0]
    /\ UNCHANGED <<secure, network, taken, errno, fed, read, need, packetVars,
                   socketCorrupted, handed>>

-----------------------------------------------------------------------------
(* readPacket, when a read has all of its bytes.                           *)
Done == need > 0 /\ Len(buffer) = need

HeaderRead ==
    /\ Done /\ reading = "header"
    /\ reading' = "length"
    /\ readbuf' = buffer
    /\ Read(1)
    /\ UNCHANGED <<secure, network, taken, errno, engineVars, numRetries,
                   rem_len, multiplier, i, socketCorrupted, handed, fooled>>

(* The packet is whole. *)
HandOver(header, payload) ==
    /\ reading' = "idle"
    /\ NoRead
    /\ handed' = IF fooled = 1 THEN handed
                 ELSE Append(handed, [header |-> header, payload |-> payload])

(* rem_len += (i & 127) * weight; multiplier *= scale                      *)
ReadDigit(weight, scale) ==
    /\ Done /\ reading = "length"
    /\ i' = buffer[1]
    /\ rem_len' = (rem_len + (i' % Base) * weight) % Width
    /\ multiplier' = (multiplier * scale) % Width
    /\ \/ i' >= Base
          /\ Read(1)
          /\ UNCHANGED <<reading, handed>>
       \/ i' < Base /\ rem_len' \in 1..(Width \div 2 - 1)
          /\ reading' = "rest"
          /\ Read(rem_len')
          /\ UNCHANGED handed
       \/ i' < Base /\ rem_len' \notin 1..(Width \div 2 - 1)
          /\ HandOver(readbuf[1], <<>>)
    /\ UNCHANGED <<secure, network, taken, errno, engineVars, numRetries,
                   readbuf, socketCorrupted, fooled>>

(* Mutant: the multiplier stays 1.                                         *)
LengthReadUnscaled == ReadDigit(multiplier, 1)

(* Mutant: the multiplier grows before it is used.                         *)
LengthReadScaledFirst == ReadDigit(multiplier * Base, Base)

LengthRead == ReadDigit(multiplier, Base)

RestRead ==
    /\ Done /\ reading = "rest"
    /\ HandOver(readbuf[1], buffer)
    /\ UNCHANGED <<secure, network, taken, errno, engineVars, numRetries,
                   rem_len, multiplier, i, readbuf, socketCorrupted, fooled>>

-----------------------------------------------------------------------------
(* A new connection: in the process, or in the next one.                   *)
NewConnection ==
    /\ arrived' = 0 /\ connection' = "open" /\ taken' = 0
    /\ fed' = 0 /\ lost' = 0 /\ read' = 0
    /\ reading' = "idle" /\ NoRead
    /\ socketCorrupted' = 0
    /\ handed' = <<>> /\ fooled' = 0
    /\ UNCHANGED <<numRetries, rem_len, multiplier, i, readbuf>>

(* clearInstaMsg releases the socket, which with SSL is an exit.           *)
Reconnect ==
    /\ socketCorrupted = 1
    /\ IF secure = 1 THEN errno' \in 0..1 ELSE UNCHANGED errno
    /\ NewConnection
    /\ UNCHANGED secure

(* The guard of readPacket (module Watchdog). *)
WatchdogExpires ==
    /\ reading # "idle"
    /\ errno' \in 0..1
    /\ NewConnection
    /\ UNCHANGED secure

(* The network and the server.                                             *)
Arrive ==
    /\ connection = "open" /\ arrived < OnTheWire
    /\ arrived' = arrived + 1
    /\ UNCHANGED <<secure, connection, taken, errno, engineVars, callVars,
                   packetVars, socketCorrupted, handed, fooled>>

Disconnect ==
    /\ connection = "open"
    /\ connection' \in {"closed", "broken"}
    /\ UNCHANGED <<secure, arrived, taken, errno, engineVars, callVars,
                   packetVars, socketCorrupted, handed, fooled>>

-----------------------------------------------------------------------------
ReaderInit ==
    /\ secure \in 0..1
    /\ arrived = 0 /\ connection = "open" /\ taken = 0 /\ errno \in 0..1
    /\ fed = 0 /\ lost = 0 /\ read = 0
    /\ want = 0 /\ bytes = 0 /\ need = 0 /\ buffer = <<>>
    /\ reading = "idle" /\ numRetries = MaxTries
    /\ rem_len = 0 /\ multiplier = 1 /\ i = 0 /\ readbuf = <<>>
    /\ socketCorrupted = 0
    /\ handed = <<>> /\ fooled = 0

Reader ==
    \/ ReadPacket
    \/ ReadPlainText \/ ReadPending \/ NoRetryCase
    \/ Recv \/ RecvTimesOut \/ RecvFails \/ RecvEnd \/ RecvEndUnnoticed
    \/ HeaderRead \/ LengthRead \/ RestRead

ReaderNext == Reader \/ Reconnect \/ WatchdogExpires \/ Arrive \/ Disconnect

(* The driver keeps reading and the network brings what it has.            *)
ReaderFairness ==
    /\ WF_readerVars(Reader)
    /\ WF_readerVars(Arrive)

ReaderSpec == ReaderInit /\ [][ReaderNext]_readerVars /\ ReaderFairness

-----------------------------------------------------------------------------
(* Properties                                                              *)

(* The type of every variable. *)
ReaderTypeOK ==
    /\ {secure, errno, lost, socketCorrupted, fooled} \subseteq 0..1
    /\ connection \in {"open", "closed", "broken"}
    /\ {arrived, taken, fed, read, want, bytes, need} \subseteq Nat
    /\ numRetries \in 0..MaxTries
    /\ rem_len \in 0..(Width - 1) /\ multiplier \in 0..(Width - 1)
    /\ i \in Byte
    /\ buffer \in Seq(Byte) /\ readbuf \in Seq(Byte)
    /\ reading \in {"idle", "header", "length", "rest"}
    /\ handed \in Seq([header : Byte, payload : Seq(Byte)])

(* Packets are handed over whole and in order, however the bytes arrive    *)
(* and whatever SSL makes of a lost one, until the connection is given up; *)
(* only the one that is being read then may be cut off.                    *)
Stream == INSTANCE PacketStream WITH givenUp <- socketCorrupted
ReadsStream == Stream!StreamSpec

(* The end of a connection is noticed, in the middle of a packet or        *)
(* between two, unless recv reports it while errno is 0.                   *)
EndIsNoticed ==
    connection # "open" ~>
        (socketCorrupted = 1 \/ connection = "open" \/ fooled = 1)

(* A reader is not left behind by a network that has delivered everything: *)
(* all packets are handed over, unless the connection ends or the engine   *)
(* was deprived of a byte.                                                 *)
ArrivedIsRead ==
    arrived = OnTheWire ~>
        (Len(handed) = Len(Packets) \/ arrived # OnTheWire \/ lost = 1
         \/ connection # "open" \/ socketCorrupted = 1)

=============================================================================
