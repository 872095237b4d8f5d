------------------------------ MODULE Delivery ------------------------------
(***************************************************************************)
(* The guaranteed-delivery core of the InstaMsg driver: the main loop of   *)
(* start(), publish() with its PUBACK wait, the reading and dispatching of *)
(* packets, the result-handler table, the data log that outlives the       *)
(* process, and rebooting (common/instamsg/driver/instamsg.c).             *)
(*                                                                         *)
(* The program is one thread, but it is re-entrant: publish() reads        *)
(* packets while it waits for its PUBACK, and a packet's handler may       *)
(* publish again.  "calls" is the stack of publish() calls that have not   *)
(* returned, innermost last; "reading" says that the innermost            *)
(* readAndProcessIncomingMQTTPacketsIfAny() is between two packets.        *)
(* Between two reads the code runs alone, so an action is one packet, or   *)
(* one unsuccessful readPacket() and what the callers do until the next    *)
(* read.  The server, the network and crashes interleave with that.        *)
(***************************************************************************)
EXTENDS Integers, Sequences, SequencesExt, FiniteSets

CONSTANTS
    AppMsgs,            \* messages of the application
    FileAcks,           \* acknowledgements of file-transfer commands
    NoMsg,              \* a NULL lastPubTopic / lastPubPayload
    Commands,           \* what the server may send: see CommandKinds
    HasBusinessLogic,   \* start() was given a non-NULL business logic
    ExitOnClear,        \* SSL_ENABLED or MEDIA_STREAMING_ENABLED is 1
    HeapMayFail,        \* sg_malloc may return NULL
    MAX_PACKET_ID, MAX_MESSAGE_HANDLERS, MQTT_RESULT_HANDLER_TIMEOUT,
    MAX_CYCLES_TO_WAIT_FOR_PUBACK,
    MAX_CONNECTION_WAIT,    \* the literal 10 of the connection wait
    MAX_CONN_ATTEMPTS_WITH_PHYSICAL_LAYER_FINE,
    MAX_DATA_RECORDS,   \* records that fit in MAX_DATA_LOGGER_SIZE_BYTES
    MaxCalls,           \* bound: publish() calls that may be nested
    MaxToClient         \* bound: packets on the way to the client

CommandKinds == {"reboot", "plain", "file1", "file2", "callback"}
Msgs == AppMsgs \cup FileAcks

ASSUME ConstantsAssumption ==
    /\ AppMsgs \cap FileAcks = {} /\ NoMsg \notin Msgs
    /\ Commands \subseteq CommandKinds
    /\ {HasBusinessLogic, ExitOnClear, HeapMayFail} \subseteq BOOLEAN
    /\ {MAX_PACKET_ID, MAX_MESSAGE_HANDLERS, MAX_CYCLES_TO_WAIT_FOR_PUBACK,
        MAX_CONNECTION_WAIT, MAX_DATA_RECORDS, MaxCalls, MaxToClient}
          \subseteq Nat \ {0}
    /\ {MQTT_RESULT_HANDLER_TIMEOUT,
        MAX_CONN_ATTEMPTS_WITH_PHYSICAL_LAYER_FINE} \subseteq Nat

VARIABLES
    \* the process
    pc,                  \* where the main loop of start() is
    calls, reading,      \* the stack of publish() calls, see above
    socketCorrupted, connected,
    pubAckMsgId, waitingForPuback, pubAckRecvAttempts, lastPub,
    nextPacketId, resultHandlers,
    rebootPending, msgSource,
    runOnceAtStart, onceTried, connectionWait, connectionAttempts,
    \* the device's storage
    dataLog,
    \* the connection and the server
    toServer, toClient, delivered, stable,
    \* history: messages handed to publish(), and whether the answer to
    \* pubAckMsgId was read while the driver waited for it
    handed, ackSeen

callVars    == <<calls, reading>>
socketVars  == <<socketCorrupted, connected>>
ackVars     == <<pubAckMsgId, waitingForPuback, pubAckRecvAttempts, lastPub,
                 ackSeen>>
tableVars   == <<nextPacketId, resultHandlers>>
retryVars   == <<rebootPending, msgSource>>
staticVars  == <<runOnceAtStart, onceTried, connectionWait,
                 connectionAttempts>>
netVars     == <<toServer, toClient>>
serverVars  == <<delivered, stable>>
vars == <<pc, callVars, socketVars, ackVars, tableVars, retryVars, staticVars,
          dataLog, netVars, serverVars, handed>>

-----------------------------------------------------------------------------
(* Packets.  Only what the properties tell apart is kept of them.          *)

Connect        == [type |-> "CONNECT"]
Connack(rc)    == [type |-> "CONNACK", rc |-> rc]
Ack(t, id)     == [type |-> t, id |-> id]
Message(m, id, qos) == [type |-> "PUBLISH", id |-> id, qos |-> qos, msg |-> m]
Command(k, m)  == [type |-> "COMMAND", kind |-> k, msg |-> m]

(* Main-loop locations; "down": no process; "init": before initInstaMsg.   *)
Locations == {"down", "init", "loop", "connect", "read", "resend", "resent",
              "tick", "stats", "ping", "gps", "business", "ran", "located",
              "tail"}

(* At these locations the main loop itself is inside a read.               *)
ReadLocations == {"connect", "read"}

-----------------------------------------------------------------------------
(* Result handlers.                                                        *)

NextPacketIdUnbounded == nextPacketId + 1  \* mutant: no wrap-around

NextPacketId == IF nextPacketId = MAX_PACKET_ID THEN 1 ELSE nextPacketId + 1

(* A NULL handler is not attached, a full table drops the handler.         *)
AttachResultHandler(table, id, isNull) ==
    IF isNull \/ Cardinality(table) = MAX_MESSAGE_HANDLERS
    THEN table
    ELSE table \cup {[msgId |-> id, timeout |-> MQTT_RESULT_HANDLER_TIMEOUT]}

(* Each pass of the main loop, not each second, uses one unit up.          *)
ExpireHandlers(table) ==
    {[h EXCEPT !.timeout = @ - 1] : h \in {x \in table : x.timeout > 0}}

HandlersOf(id) == {h \in resultHandlers : h.msgId = id}

SeesAnswer(id) ==
    ackSeen' = (ackSeen \/ (id = pubAckMsgId
                            /\ waitingForPuback = "WAITING_FOR_PUBACK"))

StopWaiting ==
    /\ waitingForPuback' = "NOT_WAITING_FOR_PUBACK"
    /\ pubAckRecvAttempts' = 0
    /\ lastPub' = NoMsg

(* Mutant: the state of the wait is not updated. *)
FireResultHandlerOnly(id) ==
    /\ SeesAnswer(id)
    /\ UNCHANGED <<waitingForPuback, pubAckRecvAttempts, lastPub, pubAckMsgId>>

(* Mutant: the cycles of one wait are left to the next. *)
FireResultHandlerKeepingAttempts(id) ==
    /\ SeesAnswer(id)
    /\ IF HandlersOf(id) # {} /\ id = pubAckMsgId
       THEN /\ waitingForPuback' = "NOT_WAITING_FOR_PUBACK"
            /\ lastPub' = NoMsg
       ELSE UNCHANGED <<waitingForPuback, lastPub>>
    /\ UNCHANGED <<pubAckMsgId, pubAckRecvAttempts>>

(* Mutant: any answer with a handler ends the wait. *)
FireResultHandlerForAny(id) ==
    /\ SeesAnswer(id)
    /\ IF HandlersOf(id) # {}
       THEN StopWaiting
       ELSE UNCHANGED <<waitingForPuback, pubAckRecvAttempts, lastPub>>
    /\ UNCHANGED pubAckMsgId

(* fireResultHandlerAndRemove: nothing happens when no handler is found,   *)
(* even if the id is the one publish() waits for.                          *)
FireResultHandler(id) ==
    /\ SeesAnswer(id)
    /\ IF HandlersOf(id) # {} /\ id = pubAckMsgId
       THEN StopWaiting
       ELSE UNCHANGED <<waitingForPuback, pubAckRecvAttempts, lastPub>>
    /\ UNCHANGED pubAckMsgId

-----------------------------------------------------------------------------
(* sendPacket and the data log.                                            *)

CanSend == ~socketCorrupted /\ connected

SendPacketSucceeds == CanSend /\ UNCHANGED socketCorrupted

(* The write fails, or it is not attempted.                                *)
SendPacketFails ==
    \/ ~CanSend /\ UNCHANGED socketCorrupted
    \/ CanSend /\ ~stable /\ socketCorrupted' = TRUE

(* A rolling log: the oldest record makes room for the newest.             *)
SaveRecord(log, m) ==
    Append(IF Len(log) < MAX_DATA_RECORDS THEN log ELSE Tail(log), m)

(* Mutant: no reboot is asked for. *)
SaveWithoutReboot(log, m) ==
    /\ UNCHANGED rebootPending
    /\ dataLog' = SaveRecord(log, m)
    /\ waitingForPuback' = "PUBACK_TIMEOUT"
    /\ lastPub' = NoMsg

(* Mutant: the wait is not marked as timed out. *)
SaveWithoutTimeout(log, m) ==
    /\ rebootPending' = TRUE
    /\ dataLog' = SaveRecord(log, m)
    /\ waitingForPuback' = "WAITING_FOR_PUBACK"
    /\ lastPub' = NoMsg

(* Mutant: the record is not written. *)
SaveNothing(log, m) ==
    /\ rebootPending' = TRUE
    /\ dataLog' = log
    /\ waitingForPuback' = "PUBACK_TIMEOUT"
    /\ lastPub' = NoMsg

(* saveFailedPublishedMessage for message m; without heap it returns early.*)
SaveFailedPublishedMessage(log, m) ==
    /\ rebootPending' = TRUE
    /\ \/ /\ dataLog' = SaveRecord(log, m)
          /\ waitingForPuback' = "PUBACK_TIMEOUT"
          /\ lastPub' = NoMsg
       \/ /\ HeapMayFail
          /\ dataLog' = log
          /\ waitingForPuback' = "WAITING_FOR_PUBACK"
          /\ lastPub' = m

-----------------------------------------------------------------------------
(* publish(), called with QOS1 or QOS2, up to its first read.  The caller  *)
(* has left "log" in the data log.                                         *)
Publish(m, qos, isNull, log) ==
    LET id == NextPacketId
        Started == \E at \in {"compulsory", "wait"} :
            calls' = Append(calls, [msg |-> m, id |-> id, qos |-> qos,
                                    at |-> at, cycles |-> 0])
    IN
    /\ nextPacketId' = id
    /\ pubAckMsgId' = id
    /\ ackSeen' = FALSE
    /\ handed' = handed \cup {m}
    /\ UNCHANGED pubAckRecvAttempts
    /\ \/ /\ resultHandlers' = AttachResultHandler(resultHandlers, id, isNull)
          /\ SendPacketSucceeds
          /\ toServer' = Append(toServer, Message(m, id, qos))
          /\ waitingForPuback' = "WAITING_FOR_PUBACK"
          /\ lastPub' = m
          /\ dataLog' = log
          /\ Started
          /\ reading' = TRUE
          /\ UNCHANGED rebootPending
       \/ /\ resultHandlers' = AttachResultHandler(resultHandlers, id, isNull)
          /\ SendPacketFails
          /\ SaveFailedPublishedMessage(log, m)
          /\ UNCHANGED <<calls, reading, toServer>>
       \/ /\ HeapMayFail
          /\ waitingForPuback' = "WAITING_FOR_PUBACK"
          /\ lastPub' = NoMsg
          /\ dataLog' = log
          /\ UNCHANGED <<resultHandlers, socketCorrupted, rebootPending,
                         calls, reading, toServer>>

(* publish() with QOS0: the compulsory read is all that is left of it.     *)
PublishPlain ==
    /\ UNCHANGED <<ackVars, tableVars, rebootPending, dataLog, handed,
                   toServer>>
    /\ \/ SendPacketSucceeds /\ UNCHANGED callVars
       \/ /\ SendPacketSucceeds
          /\ calls' = Append(calls, [msg |-> NoMsg, id |-> 0, qos |-> 0,
                                     at |-> "compulsory", cycles |-> 0])
          /\ reading' = TRUE
       \/ SendPacketFails /\ UNCHANGED callVars

(* The innermost publish() returns: to the packet handler that called it,  *)
(* whose read loop goes on, or to the main loop.                           *)
Return ==
    /\ calls' = Front(calls)
    /\ reading' = (Len(calls) > 1 \/ pc \in ReadLocations)

-----------------------------------------------------------------------------
(* exitApp(), resetDevice() or a crash: only the data log survives; the    *)
(* monitor script starts the program again.  The values are those of the   *)
(* C statics at start.                                                     *)
Exit ==
    /\ pc' = "down"
    /\ calls' = <<>> /\ reading' = FALSE
    /\ socketCorrupted' = FALSE /\ connected' = FALSE
    /\ pubAckMsgId' = 0 /\ waitingForPuback' = "WAITING_FOR_PUBACK"
    /\ pubAckRecvAttempts' = 0 /\ lastPub' = NoMsg /\ ackSeen' = FALSE
    /\ nextPacketId' = 0 /\ resultHandlers' = {}
    /\ rebootPending' = FALSE /\ msgSource' = "PERSISTENT_STORAGE"
    /\ runOnceAtStart' = FALSE /\ onceTried' = FALSE
    /\ connectionWait' = 0 /\ connectionAttempts' = 0
    /\ toClient' = <<>>
    /\ UNCHANGED <<dataLog, toServer, serverVars, handed>>

(* initInstaMsg, with the CONNECT of MQTTConnect when the socket is fine   *)
(* and the SIMULATED connection when it is not.                            *)
InitInstaMsg ==
    /\ pc \in {"down", "init"}
    /\ pc' = "loop"
    /\ resultHandlers' = {} /\ nextPacketId' = MAX_PACKET_ID
    /\ connected' = FALSE
    /\ pubAckRecvAttempts' = 0
    /\ waitingForPuback' = "NOT_WAITING_FOR_PUBACK"
    /\ rebootPending' = FALSE
    /\ toClient' = <<>>
    /\ \/ /\ socketCorrupted' = FALSE
          /\ toServer' = <<Connect>>
          /\ UNCHANGED msgSource
       \/ /\ ~stable
          /\ socketCorrupted' = TRUE
          /\ toServer' = <<>>
          /\ msgSource' = "GENERAL"
    /\ UNCHANGED <<callVars, pubAckMsgId, lastPub, ackSeen, staticVars,
                   dataLog, serverVars, handed>>

-----------------------------------------------------------------------------
(* readPacket() does not return SUCCESS: nothing in time, or a socket      *)
(* error.  A stable network answers before the read times out.             *)

Quiet == toServer = <<>> /\ toClient = <<>>

ReadPacketFails ==
    /\ reading
    /\ \/ (socketCorrupted \/ ~stable \/ Quiet) /\ UNCHANGED socketCorrupted
       \/ ~socketCorrupted /\ ~stable /\ socketCorrupted' = TRUE
    /\ UNCHANGED <<connected, tableVars, netVars, serverVars, handed>>

Top == Last(calls)

(* The read of publish()'s "out-of-order socket-read" ends.                *)
CompulsoryReadEnds ==
    /\ calls # <<>> /\ Top.at = "compulsory"
    /\ ReadPacketFails
    /\ IF Top.qos = 0
       THEN Return
       ELSE /\ calls' = [calls EXCEPT ![Len(calls)].at = "wait"]
            /\ UNCHANGED reading
    /\ UNCHANGED <<pc, ackVars, retryVars, staticVars, dataLog>>

Waiting == calls # <<>> /\ Top.at = "wait"

(* waitForPubAck: one more cycle without the PUBACK.                       *)
PubAckCycle ==
    /\ Waiting /\ waitingForPuback = "WAITING_FOR_PUBACK"
    /\ pubAckRecvAttempts + 1 < MAX_CYCLES_TO_WAIT_FOR_PUBACK
    /\ ReadPacketFails
    /\ pubAckRecvAttempts' = pubAckRecvAttempts + 1
    /\ calls' = [calls EXCEPT ![Len(calls)].cycles = @ + 1]
    /\ UNCHANGED <<pc, reading, pubAckMsgId, waitingForPuback, lastPub,
                   ackSeen, retryVars, staticVars, dataLog>>

(* waitForPubAck gives up: the message goes back to the data log.          *)
PubAckTimeout ==
    /\ Waiting /\ waitingForPuback = "WAITING_FOR_PUBACK"
    /\ pubAckRecvAttempts + 1 >= MAX_CYCLES_TO_WAIT_FOR_PUBACK
    /\ ReadPacketFails
    /\ pubAckRecvAttempts' = 0
    /\ SaveFailedPublishedMessage(dataLog, lastPub)
    /\ Return
    /\ UNCHANGED <<pc, pubAckMsgId, ackSeen, msgSource, staticVars>>

(* waitForPubAck finds that nobody waits any more.                         *)
PubAckWaitEnds ==
    /\ Waiting /\ waitingForPuback # "WAITING_FOR_PUBACK"
    /\ ReadPacketFails
    /\ Return
    /\ UNCHANGED <<pc, ackVars, retryVars, staticVars, dataLog>>

(* waitForPingResp ends.  Its cycles are not counted here: without an      *)
(* answer, which a stable server gives, a reboot may be asked for.         *)
PingWaitEnds ==
    /\ calls # <<>> /\ Top.at = "ping"
    /\ ReadPacketFails
    /\ Return
    /\ \/ UNCHANGED rebootPending
       \/ ~stable /\ rebootPending' = TRUE
    /\ UNCHANGED <<pc, ackVars, msgSource, staticVars, dataLog>>

(* The read of the main loop's connection wait ends.                       *)
ConnectionWaitCycle ==
    /\ calls = <<>> /\ pc = "connect"
    /\ ReadPacketFails
    /\ IF connectionWait + 1 >= MAX_CONNECTION_WAIT
       THEN /\ connectionWait' = 0 /\ onceTried' = TRUE /\ pc' = "read"
       ELSE /\ connectionWait' = connectionWait + 1
            /\ pc' = IF connected THEN "read" ELSE "connect"
            /\ UNCHANGED onceTried
    /\ UNCHANGED <<callVars, ackVars, retryVars, runOnceAtStart,
                   connectionAttempts, dataLog>>

MainReadEnds ==
    /\ calls = <<>> /\ pc = "read"
    /\ ReadPacketFails
    /\ reading' = FALSE /\ pc' = "resend"
    /\ UNCHANGED <<calls, ackVars, retryVars, staticVars, dataLog>>

ReadEnds ==
    \/ CompulsoryReadEnds
    \/ PubAckCycle
    \/ PubAckTimeout
    \/ PubAckWaitEnds
    \/ PingWaitEnds
    \/ ConnectionWaitCycle
    \/ MainReadEnds

-----------------------------------------------------------------------------
(* readAndProcessIncomingMQTTPacketsIfAny: one packet.                     *)

Arrives(type) ==
    /\ reading /\ ~socketCorrupted
    /\ toClient # <<>> /\ Head(toClient).type = type

ReceiveAck ==
    /\ Arrives("PUBACK") \/ Arrives("PUBCOMP")
    /\ toClient' = Tail(toClient)
    /\ FireResultHandler(Head(toClient).id)
    /\ resultHandlers' = resultHandlers \ HandlersOf(Head(toClient).id)
    /\ UNCHANGED <<pc, callVars, socketVars, nextPacketId, retryVars,
                   staticVars, dataLog, toServer, serverVars, handed>>

(* PUBREC: the same, then a handler for the PUBCOMP and the PUBREL.        *)
ReceivePubrec ==
    /\ Arrives("PUBREC")
    /\ toClient' = Tail(toClient)
    /\ LET id == Head(toClient).id IN
       /\ FireResultHandler(id)
       /\ resultHandlers' =
            AttachResultHandler(resultHandlers \ HandlersOf(id), id, FALSE)
       /\ \/ /\ SendPacketSucceeds
             /\ toServer' = Append(toServer, Ack("PUBREL", id))
          \/ SendPacketFails /\ UNCHANGED toServer
    /\ UNCHANGED <<pc, callVars, connected, nextPacketId, retryVars,
                   staticVars, dataLog, serverVars, handed>>

(* handleConnOrProvAckGeneric.  Its QOS0 publishes (session data, editable *)
(* configs, the notification of a new secret) run connected; at most one   *)
(* of their compulsory reads is kept.  onConnectCallback is a function of  *)
(* the application: what it publishes is that of the command "callback",   *)
(* read right after the CONNACK.                                           *)
ReceiveConnack ==
    /\ Arrives("CONNACK")
    /\ IF Head(toClient).rc = "accepted"
       THEN /\ toClient' = Tail(toClient)
            /\ connected' = TRUE
            /\ msgSource' = "PERSISTENT_STORAGE"
            /\ \/ UNCHANGED <<callVars, socketCorrupted>>
               \/ /\ calls' = Append(calls, [msg |-> NoMsg, id |-> 0, qos |-> 0,
                                       at |-> "compulsory", cycles |-> 0])
                  /\ UNCHANGED <<reading, socketCorrupted>>
               \/ /\ ~stable /\ socketCorrupted' = TRUE
                  /\ UNCHANGED callVars
            /\ UNCHANGED <<pc, ackVars, tableVars, rebootPending, staticVars,
                           dataLog, toServer, serverVars, handed>>
       ELSE Exit

(* A function of the application publishes with guarantee, or does not.    *)
ApplicationPublishes ==
    \/ \E m \in AppMsgs \ handed : Publish(m, 1, FALSE, dataLog)
    \/ UNCHANGED <<callVars, socketCorrupted, ackVars, tableVars,
                   rebootPending, dataLog, toServer, handed>>

(* PUBLISH: the commands of the server.  A handler publishes plainly (log, *)
(* config, one-to-one reply), the file-transfer handler acknowledges with  *)
(* the command's own QOS and a NULL result handler, a handler of the       *)
(* application publishes with guarantee, or the driver calls exitApp().    *)
ReceiveCommand ==
    /\ Arrives("COMMAND")
    /\ LET c == Head(toClient) IN
       IF c.kind = "reboot"
       THEN Exit
       ELSE /\ toClient' = Tail(toClient)
            /\ \/ c.kind = "plain" /\ PublishPlain
               \/ c.kind = "file1" /\ Publish(c.msg, 1, TRUE, dataLog)
               \/ c.kind = "file2" /\ Publish(c.msg, 2, TRUE, dataLog)
               \/ /\ c.kind = "callback"
                  /\ ApplicationPublishes
            /\ UNCHANGED <<pc, connected, msgSource, staticVars, serverVars>>

ReceivePacket ==
    \/ ReceiveAck
    \/ ReceivePubrec
    \/ ReceiveConnack
    \/ ReceiveCommand

-----------------------------------------------------------------------------
(* The main loop of start(), at a location that does not read.             *)

At(location) == pc = location /\ ~reading

EnterLoop ==
    /\ At("loop")
    /\ IF socketCorrupted
       THEN pc' = "tick" /\ UNCHANGED reading
       ELSE /\ pc' = IF connected \/ onceTried THEN "read" ELSE "connect"
            /\ reading' = TRUE
    /\ UNCHANGED <<calls, socketVars, ackVars, tableVars, retryVars,
                   staticVars, dataLog, netVars, serverVars, handed>>

MayResend ==
    /\ msgSource = "PERSISTENT_STORAGE"
    /\ waitingForPuback # "WAITING_FOR_PUBACK"
    /\ ~rebootPending

(* Mutant: the record stays in the log while it is sent. *)
ResendKeepingRecord ==
    /\ At("resend") /\ MayResend /\ dataLog # <<>>
    /\ pc' = "resent"
    /\ Publish(Head(dataLog), 1, FALSE, dataLog)
    /\ UNCHANGED <<connected, msgSource, staticVars, toClient, serverVars>>

(* Mutant: the record leaves the log and is not published. *)
ResendNothing ==
    /\ At("resend") /\ MayResend /\ dataLog # <<>>
    /\ pc' = "resent"
    /\ dataLog' = Tail(dataLog)
    /\ UNCHANGED <<callVars, socketVars, ackVars, tableVars, retryVars,
                   staticVars, netVars, serverVars, handed>>

(* send_previously_unsent_data: the oldest record leaves the data log and  *)
(* is published; without heap for its copy it is dropped.                  *)
ResendRecord ==
    /\ At("resend") /\ MayResend /\ dataLog # <<>>
    /\ pc' = "resent"
    /\ \/ Publish(Head(dataLog), 1, FALSE, Tail(dataLog))
       \/ /\ HeapMayFail
          /\ dataLog' = Tail(dataLog)
          /\ UNCHANGED <<callVars, socketCorrupted, ackVars, tableVars,
                         rebootPending, toServer, handed>>
    /\ UNCHANGED <<connected, msgSource, staticVars, toClient, serverVars>>

NothingToResend ==
    /\ At("resend") /\ ~(MayResend /\ dataLog # <<>>)
    /\ pc' = "resent"
    /\ msgSource' = IF MayResend THEN "GENERAL" ELSE msgSource
    /\ UNCHANGED <<callVars, socketVars, ackVars, tableVars, rebootPending,
                   staticVars, dataLog, netVars, serverVars, handed>>

AfterResend ==
    /\ At("resent")
    /\ pc' = "tick"
    /\ msgSource' = IF rebootPending THEN "GENERAL" ELSE msgSource
    /\ UNCHANGED <<callVars, socketVars, ackVars, tableVars, rebootPending,
                   staticVars, dataLog, netVars, serverVars, handed>>

RemoveExpiredResultHandlers ==
    /\ At("tick")
    /\ pc' = "stats"
    /\ resultHandlers' = ExpireHandlers(resultHandlers)
    /\ UNCHANGED <<callVars, socketVars, ackVars, nextPacketId, retryVars,
                   staticVars, dataLog, netVars, serverVars, handed>>

(* sendPingReqToServer: the answer is awaited even if nothing was sent.    *)
Ping ==
    /\ ~socketCorrupted
    /\ SendPacketSucceeds \/ SendPacketFails
    /\ calls' = Append(calls, [msg |-> NoMsg, id |-> 0, qos |-> 0,
                               at |-> "ping", cycles |-> 0])
    /\ reading' = TRUE
    /\ UNCHANGED <<ackVars, tableVars, rebootPending, dataLog, handed,
                   toServer>>

(* What may be due by the clock, in the order of the loop.                 *)
AfterTimed == [stats |-> "ping", ping |-> "gps", gps |-> "business"]

(* The network statistics, the PINGREQ and the GPS location: each is sent  *)
(* when its time has come.                                                 *)
TimedPublishes ==
    /\ pc \in DOMAIN AfterTimed /\ ~reading
    /\ pc' = AfterTimed[pc]
    /\ \/ pc # "ping" /\ PublishPlain
       \/ pc = "ping" /\ Ping
       \/ UNCHANGED <<callVars, socketCorrupted, ackVars, tableVars,
                      rebootPending, dataLog, toServer, handed>>
    /\ UNCHANGED <<connected, msgSource, staticVars, toClient, serverVars>>

(* The business logic is due, and publishes a message or nothing.          *)
RunBusinessLogic ==
    /\ At("business") /\ HasBusinessLogic
    /\ pc' = "ran"
    /\ ApplicationPublishes
    /\ UNCHANGED <<connected, msgSource, staticVars, toClient, serverVars>>

(* It is not due, or there is none.                                        *)
SkipBusinessLogic ==
    /\ At("business")
    /\ HasBusinessLogic => runOnceAtStart
    /\ pc' = "tail"
    /\ UNCHANGED <<callVars, socketVars, ackVars, tableVars, retryVars,
                   staticVars, dataLog, netVars, serverVars, handed>>

(* The GPS location follows the first run, unless its interval is 0.       *)
SendFirstGpsLocation ==
    /\ At("ran") /\ ~runOnceAtStart
    /\ pc' = "located"
    /\ \/ PublishPlain
       \/ UNCHANGED <<callVars, socketCorrupted, ackVars, tableVars,
                      rebootPending, dataLog, toServer, handed>>
    /\ UNCHANGED <<connected, msgSource, staticVars, toClient, serverVars>>

RebootDueAtStart == rebootPending /\ ~runOnceAtStart  \* mutant

RebootDue == rebootPending /\ runOnceAtStart

AfterBusinessLogic ==
    /\ At(IF runOnceAtStart THEN "ran" ELSE "located")
    /\ IF RebootDue
       THEN Exit
       ELSE /\ msgSource' = IF runOnceAtStart THEN msgSource
                            ELSE "PERSISTENT_STORAGE"
            /\ runOnceAtStart' = TRUE
            /\ pc' = "tail"
            /\ UNCHANGED <<callVars, socketVars, ackVars, tableVars,
                           rebootPending, onceTried, connectionWait,
                           connectionAttempts, dataLog, netVars, serverVars,
                           handed>>

(* clearInstaMsg, and back to initInstaMsg if the process survives it.     *)
ClearInstaMsg ==
    IF ExitOnClear
    THEN Exit
    ELSE /\ pc' = "init"
         /\ connected' = FALSE
         /\ UNCHANGED <<callVars, socketCorrupted, ackVars, tableVars,
                        retryVars, runOnceAtStart, onceTried, connectionWait,
                        dataLog, netVars, serverVars, handed>>

EndOfLoop ==
    LET exhausted ==
          connectionAttempts + 1 > MAX_CONN_ATTEMPTS_WITH_PHYSICAL_LAYER_FINE
        unconnected == ~connected /\ ~socketCorrupted
    IN
    /\ At("tail")
    /\ \/ /\ socketCorrupted
          /\ ClearInstaMsg
          /\ ExitOnClear \/ UNCHANGED connectionAttempts
       \/ /\ unconnected /\ exhausted
          /\ ClearInstaMsg
          /\ ExitOnClear \/ connectionAttempts' = 0
       \/ /\ ~socketCorrupted /\ ~(unconnected /\ exhausted)
          /\ connectionAttempts' = IF connected THEN connectionAttempts
                                   ELSE connectionAttempts + 1
          /\ pc' = "loop"
          /\ UNCHANGED <<callVars, socketVars, ackVars, tableVars, retryVars,
                         runOnceAtStart, onceTried, connectionWait, dataLog,
                         netVars, serverVars, handed>>

Client ==
    \/ InitInstaMsg
    \/ ReadEnds
    \/ ReceivePacket
    \/ EnterLoop
    \/ ResendRecord
    \/ NothingToResend
    \/ AfterResend
    \/ RemoveExpiredResultHandlers
    \/ TimedPublishes
    \/ RunBusinessLogic
    \/ SkipBusinessLogic
    \/ SendFirstGpsLocation
    \/ AfterBusinessLogic
    \/ EndOfLoop

-----------------------------------------------------------------------------
(* The server, as src/ relies on it: it answers each packet, in order.     *)

Reply(packet) ==
    toClient' = IF pc \in {"down", "init"} THEN toClient
                ELSE Append(toClient, packet)

ServerAnswers ==
    /\ toServer # <<>>
    /\ toServer' = Tail(toServer)
    /\ LET p == Head(toServer) IN
       \/ /\ p.type = "CONNECT"
          /\ \/ Reply(Connack("accepted"))
             \/ ~stable /\ Reply(Connack("refused"))
          /\ UNCHANGED delivered
       \/ /\ p.type = "PUBLISH"
          /\ delivered' = delivered \cup {p.msg}
          /\ Reply(Ack(IF p.qos = 1 THEN "PUBACK" ELSE "PUBREC", p.id))
       \/ /\ p.type = "PUBREL"
          /\ Reply(Ack("PUBCOMP", p.id))
          /\ UNCHANGED delivered
    /\ UNCHANGED <<pc, callVars, socketVars, ackVars, tableVars, retryVars,
                   staticVars, dataLog, stable, handed>>

CommandsUnderway == {i \in DOMAIN toClient : toClient[i].type = "COMMAND"}

(* A command; that of a file transfer names the message it is answered by. *)
ServerCommands ==
    /\ connected /\ ~stable
    /\ Len(toClient) < MaxToClient
    /\ Len(calls) + Cardinality(CommandsUnderway) < MaxCalls
    /\ \E kind \in Commands :
       \E m \in IF kind \in {"file1", "file2"} THEN FileAcks \ handed
                ELSE {NoMsg} :
          /\ \A i \in CommandsUnderway : m = NoMsg \/ toClient[i].msg # m
          /\ toClient' = Append(toClient, Command(kind, m))
    /\ UNCHANGED <<pc, callVars, socketVars, ackVars, tableVars, retryVars,
                   staticVars, dataLog, toServer, serverVars, handed>>

(* A crash, a power cut, a watchdog reset.                                 *)
Crash == pc # "down" /\ ~stable /\ Exit

(* From here on the network and the device behave: a horizon for liveness. *)
Stabilise ==
    /\ ~stable
    /\ stable' = TRUE
    /\ UNCHANGED <<pc, callVars, socketVars, ackVars, tableVars, retryVars,
                   staticVars, dataLog, netVars, delivered, handed>>

Environment == ServerAnswers \/ ServerCommands \/ Crash \/ Stabilise

Init ==
    /\ pc = "down"
    /\ calls = <<>> /\ reading = FALSE
    /\ socketCorrupted = FALSE /\ connected = FALSE
    /\ pubAckMsgId = 0 /\ waitingForPuback = "WAITING_FOR_PUBACK"
    /\ pubAckRecvAttempts = 0 /\ lastPub = NoMsg /\ ackSeen = FALSE
    /\ nextPacketId = 0 /\ resultHandlers = {}
    /\ rebootPending = FALSE /\ msgSource = "PERSISTENT_STORAGE"
    /\ runOnceAtStart = FALSE /\ onceTried = FALSE
    /\ connectionWait = 0 /\ connectionAttempts = 0
    /\ dataLog = <<>>
    /\ toServer = <<>> /\ toClient = <<>>
    /\ delivered = {} /\ stable = FALSE /\ handed = {}

Next == Client \/ Environment

Spec == Init /\ [][Next]_vars

(* The one thread keeps running, time passes (so the business logic is due *)
(* again and again), and a stable server answers.                          *)
Fairness ==
    /\ WF_vars(Client)
    /\ SF_vars(RunBusinessLogic)
    /\ WF_vars(stable /\ ServerAnswers)

FairSpec == Spec /\ Fairness

-----------------------------------------------------------------------------
(* Properties                                                              *)

Frames == [msg : Msgs \cup {NoMsg}, id : 0..MAX_PACKET_ID, qos : 0..2,
           at : {"compulsory", "wait", "ping"},
           cycles : Nat]

Handlers == [msgId : 1..MAX_PACKET_ID, timeout : 0..MQTT_RESULT_HANDLER_TIMEOUT]

ToServer == {Connect} \cup [type : {"PUBREL"}, id : 1..MAX_PACKET_ID]
            \cup [type : {"PUBLISH"}, id : 1..MAX_PACKET_ID, qos : {1, 2},
                  msg : Msgs \cup {NoMsg}]

ToClient == [type : {"CONNACK"}, rc : {"accepted", "refused"}]
            \cup [type : {"PUBACK", "PUBREC", "PUBCOMP"}, id : 1..MAX_PACKET_ID]
            \cup [type : {"COMMAND"}, kind : CommandKinds,
                  msg : FileAcks \cup {NoMsg}]

StackType == calls \in Seq(Frames)

FlagType ==
    /\ reading \in BOOLEAN /\ ackSeen \in BOOLEAN /\ stable \in BOOLEAN
    /\ socketCorrupted \in BOOLEAN /\ connected \in BOOLEAN
    /\ rebootPending \in BOOLEAN
    /\ runOnceAtStart \in BOOLEAN /\ onceTried \in BOOLEAN

AckType ==
    /\ pubAckMsgId \in 0..MAX_PACKET_ID
    /\ waitingForPuback \in {"WAITING_FOR_PUBACK", "NOT_WAITING_FOR_PUBACK",
                             "PUBACK_TIMEOUT"}
    /\ pubAckRecvAttempts \in 0..MAX_CYCLES_TO_WAIT_FOR_PUBACK
    /\ lastPub \in Msgs \cup {NoMsg}
    /\ nextPacketId \in 0..MAX_PACKET_ID
    /\ resultHandlers \in SUBSET Handlers

LoopType ==
    /\ pc \in Locations
    /\ msgSource \in {"PERSISTENT_STORAGE", "GENERAL"}
    /\ connectionWait \in 0..MAX_CONNECTION_WAIT
    /\ connectionAttempts \in 0..MAX_CONN_ATTEMPTS_WITH_PHYSICAL_LAYER_FINE

MessageType ==
    /\ dataLog \in Seq(Msgs \cup {NoMsg})
    /\ delivered \in SUBSET (Msgs \cup {NoMsg})
    /\ handed \in SUBSET (Msgs \cup {NoMsg})

NetType == toServer \in Seq(ToServer) /\ toClient \in Seq(ToClient)

(* The type of every variable. *)
TypeOK ==
    StackType /\ FlagType /\ AckType /\ LoopType /\ MessageType /\ NetType

Guaranteed == {i \in DOMAIN calls : calls[i].qos > 0}

(* While the driver waits for a PUBACK, it waits on behalf of the innermost*)
(* publish() with guarantee on the stack, and holds that call's message:   *)
(* what saveFailedPublishedMessage would store is never NULL nor another   *)
(* call's.  In particular nobody waits when the main loop is on its own,   *)
(* which would switch the resending of stored records off for good.        *)
WaitOwnsMessage ==
    (pc # "down" /\ waitingForPuback = "WAITING_FOR_PUBACK") =>
        /\ lastPub # NoMsg
        /\ \E i \in Guaranteed :
              /\ \A j \in Guaranteed : j <= i
              /\ calls[i].msg = lastPub /\ calls[i].id = pubAckMsgId

Places(m) ==
    {<<"log", i>> : i \in {j \in DOMAIN dataLog : dataLog[j] = m}}
      \cup (IF lastPub = m THEN {<<"lastPub", 0>>} ELSE {})

(* A message has one place at most: it is never both in the data log and   *)
(* the one publish() waits for, nor twice in the data log, across nested   *)
(* publishes, resends, timeouts, send failures and restarts.               *)
SingleCustodian == \A m \in Msgs : Cardinality(Places(m)) <= 1

(* Whenever records are in the data log, the running driver is set to      *)
(* resend them, or has a reboot pending that leads to a resend, or is not  *)
(* connected and will be set to resend by the CONNACK.                     *)
StoredWillBeResent ==
    dataLog # <<>> =>
        \/ ~connected
        \/ msgSource = "PERSISTENT_STORAGE"
        \/ rebootPending

(* A message the server has not seen is in the data log or is the one      *)
(* publish() holds; all others are lost.                                   *)
Lost == {m \in handed \cap Msgs :
            m \notin delivered /\ m # lastPub
              /\ \A i \in DOMAIN dataLog : dataLog[i] # m}

RolledOver(m) == Len(dataLog) = MAX_DATA_RECORDS /\ m = Head(dataLog)

TakenOver(m) == m = lastPub /\ calls # <<>> /\ nextPacketId' # nextPacketId

(* Nobody waits, although a PUBACK is waited for: this is what a failed    *)
(* allocation leaves behind.  A message in lastPub is then not sent again. *)
Abandoned ==
    pc # "down" /\ Guaranteed = {} /\ waitingForPuback = "WAITING_FOR_PUBACK"

(* Without publishes from packet handlers the driver keeps the promise of  *)
(* StoreAndForward: it forgets the message it holds only when the server   *)
(* has received it, puts it back in the log, or exits, or finds no heap;   *)
(* the oldest record is sent first, and is dropped only from a full log.   *)
Promised == INSTANCE StoreAndForward
                WITH Messages <- Msgs, Nothing <- NoMsg,
                     Capacity <- MAX_DATA_RECORDS, MayStarve <- HeapMayFail,
                     running <- pc # "down", accepted <- handed,
                     held <- IF Guaranteed = {} THEN NoMsg ELSE lastPub,
                     log <- dataLog, received <- delivered,
                     starved <- Abandoned

KeepsPromise == Promised!Promise

(* With publishes from packet handlers, a message is lost by an exit while *)
(* publish() holds it, as the oldest record of a full log, and in one more *)
(* way: a publish() with QOS1 or QOS2 from a packet handler overwrites the *)
(* message the interrupted call still waits for.                           *)
LossAccounted ==
    [][\A m \in Lost' \ Lost :
          (pc' = "down" /\ m = lastPub) \/ RolledOver(m) \/ TakenOver(m)]_vars

(* A message goes back to the data log only if its PUBACK (or PUBREC) was  *)
(* not read during the wait.                                               *)
TimeoutMeansUnacked == waitingForPuback = "PUBACK_TIMEOUT" => ~ackSeen

(* publish() gives its PUBACK the full number of read cycles: the global   *)
(* counter is that of the innermost waiting call.                          *)
FullWait ==
    (Waiting /\ waitingForPuback = "WAITING_FOR_PUBACK")
        => pubAckRecvAttempts = Top.cycles

(* A pending reboot is carried out.                                        *)
RebootHappens == rebootPending ~> (pc \in {"down", "init"})

Stored(m) == \E i \in DOMAIN dataLog : dataLog[i] = m

(* Once the network is stable, every stored record reaches the server,     *)
(* whatever happened before.                                               *)
StoredIsDelivered ==
    \A m \in Msgs : (stable /\ Stored(m)) ~> (m \in delivered)

=============================================================================
