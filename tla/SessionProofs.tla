---------------------------- MODULE SessionProofs ----------------------------
(* Theorems about Session, for every value of its constants.               *)
EXTENDS Session, SequenceTheorems, WellFoundedInduction, TLAPS

(* The constants' types, one by one.                                       *)
LEMMA Constants ==
    /\ NoTopic \notin Topics
    /\ MAX_MESSAGE_HANDLERS \in Nat \ {0}
    /\ MAX_CYCLES_TO_WAIT_FOR_PINGRESP \in Nat \ {0}
    /\ MaxIds \in Nat \ {0} /\ MaxInFlight \in Nat \ {0}
    /\ MAX_CONN_ATTEMPTS_WITH_PHYSICAL_LAYER_FINE \in Nat
BY SessionAssumption DEF SessionAssumption

USE Constants

-----------------------------------------------------------------------------
(* The type invariant in parts that the provers can take one at a time.    *)

FlagType ==
    /\ secret \in BOOLEAN /\ issued \in BOOLEAN /\ forgotten \in BOOLEAN
    /\ socketOk \in BOOLEAN /\ connected \in BOOLEAN
    /\ sendPacketIrrespective \in BOOLEAN
    /\ notifyServerOfSecretReceived \in BOOLEAN /\ noConnect \in BOOLEAN
    /\ pinging \in BOOLEAN /\ pingReqResponsePending \in BOOLEAN
    /\ rebootPending \in BOOLEAN
    /\ greeted \in BOOLEAN /\ notified \in BOOLEAN /\ stable \in BOOLEAN

CountType ==
    /\ pc \in {"down", "init", "loop", "ping", "certificate", "key"}
    /\ certificate \subseteq {"certificate", "key"}
    /\ pingRespAttempts \in 0..(MAX_CYCLES_TO_WAIT_FOR_PINGRESP - 1)
    /\ connectionAttempts \in 0..MAX_CONN_ATTEMPTS_WITH_PHYSICAL_LAYER_FINE
    /\ nextPacketId \in 0..MaxIds
    /\ granted \subseteq Topics

TableType ==
    messageHandlers \in [Slots -> [msgId : 0..MaxIds,
                                   topicFilter : Topics \cup {NoTopic}]]

ChannelType == toServer \in Seq(ToServer) /\ toClient \in Seq(ToClient)

LEMMA TypeParts == TypeOK <=> FlagType /\ CountType /\ TableType /\ ChannelType
<1>1. FlagType <=> {secret, issued, forgotten, socketOk, connected,
                    sendPacketIrrespective, notifyServerOfSecretReceived,
                    noConnect, pinging, pingReqResponsePending, rebootPending,
                    greeted, notified, stable} \subseteq BOOLEAN
  BY Zenon DEF FlagType
<1> QED
  BY <1>1, Zenon DEF TypeOK, CountType, TableType, ChannelType

(* What an answer of the server is, as its packet and its stability want.  *)
LEMMA AnswerTypes ==
    ASSUME NEW packet \in ToServer, packet.type # "NOTIFICATION",
           NEW answer \in Answers(packet)
    PROVE  /\ answer \in ToClient
           /\ answer.type = "CONNACK" => packet.type = "CONNECT" /\ packet.known
           /\ answer.type = "SUBACK" =>
                packet.type = "SUBSCRIBE" /\ answer.id = packet.id
           /\ answer.type \notin {"CERTIFICATE", "CONFIG"}
<1>1. CASE packet.type = "CONNECT" /\ packet.known
  BY <1>1 DEF Answers, ToServer, ToClient
<1>2. CASE packet.type = "CONNECT" /\ ~packet.known
  BY <1>2 DEF Answers, ToServer, ToClient
<1>3. CASE packet.type = "SUBSCRIBE"
  BY <1>3 DEF Answers, ToServer, ToClient
<1>4. CASE packet.type = "PINGREQ"
  BY <1>4 DEF Answers, ToServer, ToClient
<1> QED
  BY <1>1, <1>2, <1>3, <1>4 DEF ToServer

LEMMA InitFlags == Init => FlagType
BY Zenon DEF Init, FlagType

LEMMA ExitFlags ==
    ASSUME FlagType, ExitApp, stable' = stable, notified' = notified,
           secret' \in BOOLEAN, issued' \in BOOLEAN, forgotten' \in BOOLEAN
    PROVE  FlagType'
BY Zenon DEF ExitApp, Disconnected, FlagType

LEMMA SendFlags ==
    ASSUME FlagType, NEW packet, NEW irrespective \in BOOLEAN,
           NEW isConnected, NEW ok \in BOOLEAN,
           SendPacket(packet, irrespective, isConnected, ok)
    PROVE  sendPacketIrrespective' \in BOOLEAN /\ socketOk' \in BOOLEAN
BY Zenon DEF SendPacket

(* The same, without looking at what a flag is: most actions set a few of  *)
(* them and leave the others.                                              *)
Flag(b) == b \in BOOLEAN

Flags ==
    /\ Flag(secret) /\ Flag(issued) /\ Flag(forgotten) /\ Flag(socketOk) /\ Flag(connected)
    /\ Flag(sendPacketIrrespective) /\ Flag(notifyServerOfSecretReceived)
    /\ Flag(noConnect) /\ Flag(pinging) /\ Flag(pingReqResponsePending)
    /\ Flag(rebootPending) /\ Flag(greeted) /\ Flag(notified) /\ Flag(stable)

LEMMA FlagsAre ==
    /\ Flag(TRUE) /\ Flag(FALSE)
    /\ FlagType <=> Flags
    /\ FlagType' <=> Flags'
BY Zenon DEF Flag, Flags, FlagType

(* What is stored is or is not, whatever is saved and found.               *)
LEMMA SettingFlags ==
    FlagType /\ SaveSetting => secret' \in BOOLEAN /\ forgotten' \in BOOLEAN
BY Zenon DEF FlagType, SaveSetting

(* What InitInstaMsg does to the flags.                                    *)
LEMMA InitInstaMsgSteps ==
    ASSUME InitInstaMsg
    PROVE  \E ok, known \in BOOLEAN :
             /\ SendPacket([type |-> "CONNECT", known |-> known], TRUE, FALSE, ok)
             /\ UNCHANGED <<secret, forgotten>> \/ SaveSetting
             /\ known => secret'
             /\ pinging' = (pinging \/ ~ok)
             /\ notifyServerOfSecretReceived' = (notifyServerOfSecretReceived \/ known)
BY Zenon DEF InitInstaMsg, Found

LEMMA InitInstaMsgFlags == FlagType /\ InitInstaMsg => FlagType'
<1> SUFFICES ASSUME FlagType, InitInstaMsg PROVE FlagType'
  OBVIOUS
<1>1. PICK ok, known \in BOOLEAN :
        /\ SendPacket([type |-> "CONNECT", known |-> known], TRUE, FALSE, ok)
        /\ UNCHANGED <<secret, forgotten>> \/ SaveSetting
        /\ known => secret'
        /\ pinging' = (pinging \/ ~ok)
        /\ notifyServerOfSecretReceived' = (notifyServerOfSecretReceived \/ known)
  BY InitInstaMsgSteps
<1>2. sendPacketIrrespective' \in BOOLEAN /\ socketOk' \in BOOLEAN
  BY <1>1, SendFlags
<1>3. secret' \in BOOLEAN /\ forgotten' \in BOOLEAN
  BY <1>1, SettingFlags, Zenon DEF FlagType
<1>4. pinging' \in BOOLEAN /\ notifyServerOfSecretReceived' \in BOOLEAN
  BY <1>1, Zenon DEF FlagType
<1> QED
  BY <1>2, <1>3, <1>4, Zenon DEF InitInstaMsg, InitTables, FlagType, server

LEMMA NextFlags == FlagType /\ [Next]_vars => FlagType'
<1> SUFFICES ASSUME FlagType, [Next]_vars PROVE FlagType'
  OBVIOUS
<1>0. Flags /\ (Flags' => FlagType') /\ Flag(TRUE) /\ Flag(FALSE)
  BY FlagsAre
<1> USE DEF disk, link, keepalive, server
<1>1. CASE Start
  BY <1>0, <1>1, Zenon DEF Start, Flags
<1>2. CASE InitInstaMsg
  BY <1>2, InitInstaMsgFlags
<1>3. CASE InitWithoutHeap
  BY <1>0, <1>3, Zenon DEF InitWithoutHeap, InitTables, Flags
<1>4. CASE Connack
  BY <1>4, SendFlags, SettingFlags, Zenon DEF Connack, FlagType
<1>5. CASE Suback
  BY <1>0, <1>5, Zenon DEF Suback, Flags
<1>6. CASE Pingresp
  BY <1>0, <1>6, Zenon DEF Pingresp, Flags
<1>7. CASE Refused
  BY <1>7, ExitFlags, Zenon DEF Refused, FlagType
<1>8. CASE Provision
  BY <1>8, ExitFlags, Zenon DEF Provision, SaveSecret, FlagType
<1>9. CASE NoHeapToProvision
  BY <1>9, ExitFlags, Zenon DEF NoHeapToProvision, FlagType
<1>10. CASE ProvisionWithCertificate
  BY <1>0, <1>10, Zenon DEF ProvisionWithCertificate, SaveSecret, Flags
<1>11. CASE CertReceived
  BY <1>0, <1>11, Zenon DEF CertReceived, Flags
<1>12. CASE SaveCertificate
  BY <1>0, <1>12, Zenon DEF SaveCertificate, Flags
<1>13. CASE SaveKey
  BY <1>13, ExitFlags, Zenon DEF SaveKey, FlagType
<1>14. CASE NoHeapForCertificate
  BY <1>14, ExitFlags, Zenon DEF NoHeapForCertificate, FlagType
<1>15. CASE ReadFails
  BY <1>0, <1>15, Zenon DEF ReadFails, Flags
<1>16. CASE PingAnswered
  BY <1>0, <1>16, Zenon DEF PingAnswered, Flags
<1>17. CASE PingCycle
  BY <1>0, <1>17, Zenon DEF PingCycle, Flags
<1>18. ASSUME NEW t \in Topics, Subscribe(t) PROVE FlagType'
  <2>1. /\ SendPacket([type |-> "SUBSCRIBE", id |-> nextPacketId', topic |-> t],
                       sendPacketIrrespective, connected, socketOk)
        /\ UNCHANGED <<secret, issued, forgotten, connected,
                       notifyServerOfSecretReceived, noConnect, keepalive, server, stable>>
    BY <1>18, Zenon DEF Subscribe
  <2>2. sendPacketIrrespective' \in BOOLEAN /\ socketOk' \in BOOLEAN
    BY <2>1, SendFlags, Zenon DEF FlagType
  <2> QED
    BY <2>1, <2>2, Zenon DEF FlagType
<1>19. CASE SendPingReqToServer
  BY <1>19, SendFlags, Zenon DEF SendPingReqToServer, FlagType
<1>20. CASE Reboot
  BY <1>20, ExitFlags, Zenon DEF Reboot, FlagType
<1>21. CASE Crash
  BY <1>21, ExitFlags, Zenon DEF Crash, FlagType
<1>22. CASE EndOfPass
  BY <1>0, <1>22, Zenon DEF EndOfPass, Flags
<1>23. CASE ClearInstaMsg
  BY <1>23, ExitFlags, ZenonT(60) DEF ClearInstaMsg, Disconnected, FlagType
<1>24. CASE ServerAnswers
  BY <1>0, <1>24, Zenon DEF ServerAnswers, Flags
<1>25. CASE ServerNotified
  BY <1>0, <1>25, Zenon DEF ServerNotified, Flags
<1>26. CASE ServerCommands
  BY <1>0, <1>26, Zenon DEF ServerCommands, Flags
<1>27. CASE Stabilise
  BY <1>0, <1>27, Zenon DEF Stabilise, Flags
<1>28. CASE UNCHANGED vars
  BY <1>0, <1>28, Zenon DEF vars, Flags
<1>29. CASE ConfigReceived
  BY <1>29, SettingFlags, Zenon DEF ConfigReceived, FlagType
<1> QED
  BY <1>1, <1>2, <1>3, <1>4, <1>5, <1>6, <1>7, <1>8, <1>9, <1>10, <1>11,
     <1>12, <1>13, <1>14, <1>15, <1>16, <1>17, <1>18, <1>19, <1>20, <1>21,
     <1>22, <1>23, <1>24, <1>25, <1>26, <1>27, <1>28, <1>29
     DEF Next, Initialising, Packet, Provisioning, Waiting, Server

-----------------------------------------------------------------------------
LEMMA InitCounts == Init => CountType
BY DEF Init, CountType

LEMMA ExitCounts ==
    ASSUME CountType, ExitApp, certificate' \subseteq {"certificate", "key"}
    PROVE  CountType'
BY DEF ExitApp, Disconnected, CountType

LEMMA NextCounts == FlagType /\ CountType /\ ChannelType /\ [Next]_vars => CountType'
<1> SUFFICES ASSUME FlagType, CountType, ChannelType, [Next]_vars PROVE CountType'
  OBVIOUS
<1> USE DEF disk, link, keepalive, table, server
<1>1. CASE Start \/ Initialising
  <2>1. /\ pc' \in {"init", "loop"} /\ nextPacketId' \in {0, nextPacketId}
        /\ UNCHANGED <<certificate, granted, pingRespAttempts, connectionAttempts>>
    BY <1>1, Zenon
       DEF Start, Initialising, InitInstaMsg, InitWithoutHeap, InitTables
  <2> QED
    BY <2>1 DEF CountType
<1>2. CASE Connack
  BY <1>2 DEF Connack, CountType
<1>3. CASE Suback \/ Pingresp
  BY <1>3 DEF Suback, Pingresp, CountType
<1>4. CASE Refused \/ Provision \/ NoHeapToProvision
  BY <1>4, ExitCounts DEF Refused, Provision, NoHeapToProvision, CountType
<1>5. CASE ProvisionWithCertificate \/ CertReceived \/ ConfigReceived
  BY <1>5 DEF ProvisionWithCertificate, CertReceived, ConfigReceived, CountType
<1>6. CASE Provisioning
  BY <1>6, ExitCounts
     DEF Provisioning, SaveCertificate, SaveKey, NoHeapForCertificate, CountType
<1>7. CASE ReadFails \/ Waiting
  <2>1. /\ pc' \in {pc, "loop"}
        /\ UNCHANGED <<certificate, granted, nextPacketId, connectionAttempts>>
        /\ \/ pingRespAttempts' \in {0, pingRespAttempts}
           \/ /\ pingRespAttempts + 1 < MAX_CYCLES_TO_WAIT_FOR_PINGRESP
              /\ pingRespAttempts' = pingRespAttempts + 1
    BY <1>7, Zenon DEF ReadFails, Waiting, PingAnswered, PingCycle
  <2> QED
    BY <2>1 DEF CountType
<1>8. ASSUME NEW t \in Topics, Subscribe(t) PROVE CountType'
  BY <1>8 DEF Subscribe, CountType
<1>9. CASE SendPingReqToServer
  BY <1>9 DEF SendPingReqToServer, CountType
<1>10. CASE Reboot \/ Crash
  BY <1>10, ExitCounts DEF Reboot, Crash, CountType
<1>11. CASE EndOfPass
  <2>1. /\ UNCHANGED <<pc, certificate, granted, nextPacketId, pingRespAttempts>>
        /\ \/ connectionAttempts' = 0
           \/ /\ connectionAttempts < MAX_CONN_ATTEMPTS_WITH_PHYSICAL_LAYER_FINE
              /\ connectionAttempts' = connectionAttempts + 1
    BY <1>11, Zenon DEF EndOfPass
  <2> QED
    BY <2>1 DEF CountType
<1>12. CASE ClearInstaMsg
  BY <1>12, ExitCounts DEF ClearInstaMsg, Disconnected, CountType
<1>13. CASE ServerAnswers
  <2> DEFINE packet == Head(toServer)
  <2>1. packet \in ToServer /\ packet.type # "NOTIFICATION"
    BY <1>13 DEF ServerAnswers, ChannelType
  <2>2. PICK answer \in Answers(packet) :
          granted' = IF answer.type = "SUBACK" /\ answer.ok
                     THEN granted \cup {packet.topic} ELSE granted
    BY <1>13, Zenon DEF ServerAnswers
  <2>3. answer.type = "SUBACK" => packet.topic \in Topics
    BY <2>1, AnswerTypes DEF ToServer
  <2>4. granted' \subseteq Topics
    BY <2>2, <2>3 DEF CountType
  <2> QED
    BY <1>13, <2>4 DEF ServerAnswers, CountType
<1>14. CASE ServerNotified \/ ServerCommands \/ Stabilise
  BY <1>14 DEF ServerNotified, ServerCommands, Stabilise, CountType
<1>15. CASE UNCHANGED vars
  BY <1>15 DEF vars, CountType
<1> QED
  BY <1>1, <1>2, <1>3, <1>4, <1>5, <1>6, <1>7, <1>8, <1>9, <1>10, <1>11,
     <1>12, <1>13, <1>14, <1>15
     DEF Next, Packet, Server

(* The table changes in three ways: it is emptied, a subscription enters   *)
(* its first free slot, or one loses its topic.                            *)
LEMMA TableSteps ==
    ASSUME [Next]_vars
    PROVE  \/ messageHandlers' = EmptyTable /\ nextPacketId' = 0
           \/ \E t \in Topics : Subscribe(t)
           \/ Suback
           \/ UNCHANGED table
<1> USE DEF table
<1>1. CASE Next
  BY <1>1, Zenon
     DEF Next, Start, Initialising, InitInstaMsg, InitWithoutHeap, InitTables,
         Packet, Connack, Refused, Provision, ProvisionWithCertificate,
         NoHeapToProvision, CertReceived, ConfigReceived, Pingresp, ExitApp,
         Provisioning, SaveCertificate, SaveKey, NoHeapForCertificate,
         ReadFails, SendPingReqToServer, Waiting, PingAnswered, PingCycle,
         Reboot, EndOfPass, ClearInstaMsg, Crash,
         Server, ServerAnswers, ServerNotified, ServerCommands,
         Stabilise
<1>2. CASE UNCHANGED vars
  BY <1>2, Zenon DEF vars
<1> QED
  BY <1>1, <1>2

LEMMA EmptyTableType == EmptyTable \in [Slots -> [msgId : 0..MaxIds,
                                            topicFilter : Topics \cup {NoTopic}]]
BY DEF EmptyTable

LEMMA NextTable == CountType /\ TableType /\ [Next]_vars => TableType'
<1> SUFFICES ASSUME CountType, TableType, [Next]_vars PROVE TableType'
  OBVIOUS
<1>1. CASE messageHandlers' = EmptyTable
  BY <1>1, EmptyTableType DEF TableType
<1>2. ASSUME NEW t \in Topics, Subscribe(t) PROVE TableType'
  BY <1>2 DEF Subscribe, CountType, TableType
<1>3. CASE Suback
  BY <1>3 DEF Suback, TableType
<1>4. CASE UNCHANGED table
  BY <1>4 DEF table, TableType
<1> QED
  BY <1>1, <1>2, <1>3, <1>4, TableSteps

-----------------------------------------------------------------------------
(* What a packet more or less does to a channel.                           *)
LEMMA AppendIn ==
    ASSUME NEW S, NEW q \in Seq(S), NEW p \in S
    PROVE  /\ Append(q, p) \in Seq(S)
           /\ \A i \in DOMAIN Append(q, p) :
                 \/ i \in DOMAIN q /\ Append(q, p)[i] = q[i]
                 \/ i = Len(q) + 1 /\ Append(q, p)[i] = p
OBVIOUS

LEMMA TailIn ==
    ASSUME NEW S, NEW q \in Seq(S), q # <<>>
    PROVE  /\ Head(q) \in S /\ Head(q) = q[1] /\ 1 \in DOMAIN q
           /\ Tail(q) \in Seq(S)
           /\ \A i \in DOMAIN Tail(q) :
                 i \in Nat \ {0} /\ i + 1 \in DOMAIN q /\ Tail(q)[i] = q[i + 1]
OBVIOUS

LEMMA InitChannels == Init => ChannelType
BY DEF Init, ChannelType

(* The channels change in these ways only.                                 *)
SendsSome ==
    \E packet \in ToServer : toServer' \in {toServer, Append(toServer, packet)}

LEMMA SendSome ==
    ASSUME NEW packet \in ToServer, NEW irrespective, NEW isConnected, NEW ok,
           SendPacket(packet, irrespective, isConnected, ok)
    PROVE  SendsSome
BY Zenon DEF SendPacket, SendsSome

LEMMA NextChannels ==
    FlagType /\ CountType /\ ChannelType /\ [Next]_vars => ChannelType'
<1> SUFFICES ASSUME FlagType, CountType, ChannelType, [Next]_vars
             PROVE  ChannelType'
  OBVIOUS
<1> USE DEF channels
<1>1. ASSUME SendsSome, toClient' \in {toClient, Tail(toClient)},
             toClient' # toClient => toClient # <<>>
      PROVE  ChannelType'
  <2>1. toServer' \in Seq(ToServer)
    BY <1>1, AppendIn DEF SendsSome, ChannelType
  <2>2. toClient' \in Seq(ToClient)
    <3>1. toClient \in Seq(ToClient)
      BY DEF ChannelType
    <3>2. toClient # <<>> => Tail(toClient) \in Seq(ToClient)
      BY <3>1, TailIn
    <3>3. toClient' = toClient \/ (toClient' = Tail(toClient) /\ toClient # <<>>)
      BY <1>1
    <3> QED
      BY <3>1, <3>2, <3>3
  <2> QED
    BY <2>1, <2>2 DEF ChannelType
<1>2. ASSUME toServer' = <<>>, toClient' = <<>> PROVE ChannelType'
  BY <1>2 DEF ChannelType
<1>3. CASE InitInstaMsg
  <2>1. \A known \in BOOLEAN : [type |-> "CONNECT", known |-> known] \in ToServer
    BY DEF ToServer
  <2>2. SendsSome /\ toClient' = toClient
    BY <1>3, <2>1, SendSome, InitInstaMsgSteps, Zenon DEF InitInstaMsg
  <2> QED
    BY <2>2, <1>1
<1>4. CASE Connack
  <2>1. [type |-> "NOTIFICATION"] \in ToServer
    BY DEF ToServer
  <2>2. SendsSome
    BY <1>4, <2>1, SendSome, Zenon DEF Connack, SendsSome
  <2> QED
    BY <1>4, <2>2, <1>1, Zenon DEF Connack, Reading, Received
<1>5. ASSUME NEW t \in Topics, Subscribe(t) PROVE ChannelType'
  <2>1. [type |-> "SUBSCRIBE", id |-> nextPacketId', topic |-> t] \in ToServer
    BY <1>5 DEF ToServer, Subscribe, CountType
  <2>2. SendsSome /\ toClient' = toClient
    BY <1>5, <2>1, SendSome, Zenon DEF Subscribe
  <2> QED
    BY <2>2, <1>1
<1>6. CASE SendPingReqToServer
  <2>1. [type |-> "PINGREQ"] \in ToServer
    BY DEF ToServer
  <2>2. SendsSome /\ toClient' = toClient
    BY <1>6, <2>1, SendSome, Zenon DEF SendPingReqToServer
  <2> QED
    BY <2>2, <1>1
<1>7. CASE ServerAnswers
  <2> DEFINE packet == Head(toServer)
  <2>1. packet \in ToServer /\ packet.type # "NOTIFICATION"
    BY <1>7 DEF ServerAnswers, ChannelType
  <2>2. PICK answer \in Answers(packet) : toClient' = Append(toClient, answer)
    BY <1>7, Zenon DEF ServerAnswers
  <2>3. answer \in ToClient
    BY <2>1, AnswerTypes
  <2> QED
    BY <1>7, <2>2, <2>3, AppendIn, TailIn DEF ServerAnswers, ChannelType
<1>8. CASE ServerNotified
  BY <1>8, TailIn DEF ServerNotified, ChannelType
<1>9. CASE ServerCommands
  <2>1. \A type \in {"CERTIFICATE", "CONFIG"} : [type |-> type] \in ToClient
    BY DEF ToClient
  <2> QED
    BY <1>9, <2>1, AppendIn DEF ServerCommands, ChannelType
<1>10. CASE \/ ProvisionWithCertificate \/ CertReceived \/ ConfigReceived
            \/ Suback \/ Pingresp
  <2>1. toClient # <<>> /\ toClient' = Tail(toClient) /\ toServer' = toServer
    BY <1>10, Zenon
       DEF ProvisionWithCertificate, CertReceived, ConfigReceived, Suback,
           Pingresp, Reading, Received
  <2> QED
    BY <2>1, TailIn DEF ChannelType
<1>11. CASE \/ Refused \/ Provision \/ NoHeapToProvision \/ SaveKey
            \/ NoHeapForCertificate \/ Reboot \/ Crash \/ ClearInstaMsg
  BY <1>11, <1>2, Zenon
     DEF Refused, Provision, NoHeapToProvision, SaveKey, NoHeapForCertificate,
         Reboot, Crash, ClearInstaMsg, ExitApp, Disconnected
<1>12. CASE \/ Start \/ InitWithoutHeap \/ SaveCertificate \/ ReadFails
            \/ Waiting \/ EndOfPass \/ Stabilise \/ UNCHANGED vars
  <2>1. toServer' = toServer /\ toClient' = toClient
    BY <1>12, Zenon
       DEF Start, InitWithoutHeap, SaveCertificate, ReadFails, Waiting,
           PingAnswered, PingCycle, EndOfPass, Stabilise, vars
  <2> QED
    BY <2>1 DEF ChannelType
<1> QED
  BY <1>3, <1>4, <1>5, <1>6, <1>7, <1>8, <1>9, <1>10, <1>11, <1>12
     DEF Next, Initialising, Packet, Provisioning, Server

(* Every variable keeps its type.                                          *)
THEOREM TypeCorrect == Spec => []TypeOK
<1> DEFINE Parts == FlagType /\ CountType /\ TableType /\ ChannelType
<1>1. Init => Parts
  <2>1. Init => TableType
    BY EmptyTableType DEF Init, TableType
  <2> QED
    BY <2>1, InitFlags, InitCounts, InitChannels
<1>2. Parts /\ [Next]_vars => Parts'
  BY NextFlags, NextCounts, NextTable, NextChannels
<1>3. Parts <=> TypeOK
  BY TypeParts
<1> HIDE DEF Parts
<1> QED
  BY <1>1, <1>2, <1>3, PTL DEF Spec

-----------------------------------------------------------------------------
(* ConnectFirst.  Its invariant says who may write on a connection: after  *)
(* the server has accepted it, or with a permission, which only outlives   *)
(* an attempt to connect on a socket that is given up.                     *)

NoConnection ==
    pc \in {"down", "init"} =>
        /\ toServer = <<>> /\ toClient = <<>>
        /\ ~greeted /\ ~connected /\ granted = {}

Accepted ==
    /\ connected => greeted
    /\ \A i \in DOMAIN toClient :
          toClient[i].type = "CONNACK" /\ toClient[i].ok => greeted

Permission ==
    sendPacketIrrespective /\ socketOk =>
        pc \in {"down", "init"} \/ greeted \/ noConnect

ConnectInv == NoConnection /\ Accepted /\ Permission /\ ConnectFirst

(* CertificateKept.  A device that the server accepts has its secret, or   *)
(* had it when it connected.                                               *)
Provisioned == secret \/ forgotten

SecretKnown ==
    /\ greeted => Provisioned
    /\ \A i \in DOMAIN toServer :
          toServer[i].type = "CONNECT" /\ toServer[i].known => Provisioned
    /\ \A i \in DOMAIN toClient : toClient[i].type = "CERTIFICATE" => Provisioned

CertificateInv == SecretKnown /\ CertificateKept

(* HandlerForGranted.  The slots after that of the last packet id are      *)
(* free, no two slots have the same id, and an id is on its way once: in   *)
(* the subscription or in the answer to it.                                *)
TableInv ==
    /\ \A s \in Slots :
          /\ messageHandlers[s].msgId <= nextPacketId
          /\ s > nextPacketId => messageHandlers[s].topicFilter = NoTopic
    /\ \A r, s \in Slots :
          messageHandlers[r].msgId = messageHandlers[s].msgId =>
              r = s \/ messageHandlers[r].msgId = 0

Subscription(i) == i \in DOMAIN toServer /\ toServer[i].type = "SUBSCRIBE"
Answer(i) == i \in DOMAIN toClient /\ toClient[i].type = "SUBACK"

IdsInv ==
    /\ \A i \in DOMAIN toServer :
          Subscription(i) => toServer[i].id <= nextPacketId
    /\ \A i \in DOMAIN toClient :
          Answer(i) => toClient[i].id <= nextPacketId
    /\ \A i, j \in DOMAIN toServer :
          Subscription(i) /\ Subscription(j) /\ toServer[i].id = toServer[j].id
              => i = j
    /\ \A i \in DOMAIN toServer, j \in DOMAIN toClient :
          Subscription(i) /\ Answer(j) => toServer[i].id # toClient[j].id

(* A subscription under way has its slot, and a granted one as well: no    *)
(* refusal under way can take that away.                                   *)
Safe(s) ==
    /\ \A i \in DOMAIN toServer :
          Subscription(i) => toServer[i].id # messageHandlers[s].msgId
    /\ \A i \in DOMAIN toClient :
          Answer(i) /\ toClient[i].id = messageHandlers[s].msgId
              => toClient[i].ok

SlotsInv ==
    /\ \A i \in DOMAIN toServer :
          Subscription(i) =>
              \E s \in Slots : messageHandlers[s] = [msgId |-> toServer[i].id,
                                                  topicFilter |-> toServer[i].topic]
    /\ \A t \in granted :
          \E s \in Slots : messageHandlers[s].topicFilter = t /\ Safe(s)

HandlerInv == NoConnection /\ TableInv /\ IdsInv /\ SlotsInv

-----------------------------------------------------------------------------
(* The end of a connection, in whatever way.                               *)
Closes ==
    /\ toServer' = <<>> /\ toClient' = <<>>
    /\ greeted' = FALSE /\ connected' = FALSE /\ granted' = {}
    /\ pc' \in {"down", "init"}

ClosingActions ==
    \/ Refused \/ Provision \/ NoHeapToProvision \/ SaveKey
    \/ NoHeapForCertificate \/ Reboot \/ Crash \/ ClearInstaMsg

LEMMA ClosingCloses == ClosingActions => Closes
BY Zenon
   DEF ClosingActions, Closes, Refused, Provision, NoHeapToProvision, SaveKey,
       NoHeapForCertificate, Reboot, Crash, ClearInstaMsg, ExitApp, Disconnected

(* Steps that at most read a packet, or find the socket broken.            *)
Quiet ==
    /\ toServer' = toServer
    /\ toClient' \in {toClient, Tail(toClient)}
    /\ toClient' # toClient => toClient # <<>>
    /\ UNCHANGED <<greeted, connected, granted, sendPacketIrrespective, noConnect>>
    /\ socketOk' \in {socketOk, FALSE}
    /\ pc \in {"down", "init"} => pc' = pc
    /\ pc \notin {"down", "init"} => pc' \notin {"down", "init"}

QuietActions ==
    \/ ProvisionWithCertificate \/ CertReceived \/ ConfigReceived
    \/ Suback \/ Pingresp
    \/ SaveCertificate \/ ReadFails \/ Waiting \/ EndOfPass \/ Stabilise
    \/ UNCHANGED vars

LEMMA QuietIsQuiet == QuietActions => Quiet
<1> USE DEF link, keepalive, channels, server
<1>1. CASE ProvisionWithCertificate \/ CertReceived \/ ConfigReceived
  BY <1>1, Zenon
     DEF ProvisionWithCertificate, CertReceived, ConfigReceived, Reading, Received,
         Quiet
<1>2. CASE Suback \/ Pingresp
  BY <1>2, Zenon DEF Suback, Pingresp, Reading, Received, Quiet
<1>3. CASE SaveCertificate
  BY <1>3, Zenon DEF SaveCertificate, Quiet
<1>4. CASE ReadFails
  BY <1>4, Zenon DEF ReadFails, Quiet
<1>5. CASE Waiting
  BY <1>5, Zenon DEF Waiting, PingAnswered, PingCycle, Quiet
<1>6. CASE EndOfPass
  BY <1>6, Zenon DEF EndOfPass, Quiet
<1>7. CASE Stabilise
  BY <1>7, Zenon DEF Stabilise, Quiet
<1>8. CASE UNCHANGED vars
  BY <1>8, Zenon DEF vars, Quiet
<1> QED
  BY <1>1, <1>2, <1>3, <1>4, <1>5, <1>6, <1>7, <1>8 DEF QuietActions

LEMMA Steps ==
    ASSUME [Next]_vars
    PROVE  \/ Start \/ InitInstaMsg \/ InitWithoutHeap \/ Connack
           \/ \E t \in Topics : Subscribe(t)
           \/ SendPingReqToServer
           \/ ServerAnswers \/ ServerNotified \/ ServerCommands
           \/ ClosingActions \/ QuietActions
BY DEF Next, Initialising, Packet, Provisioning, Waiting, Server, ClosingActions,
       QuietActions

(* What passes through sendPacket on a connection that is accepted leaves  *)
(* no permission behind, and a packet that passes had one.                 *)
LEMMA SendAccepted ==
    ASSUME NEW packet, NEW irrespective \in BOOLEAN, NEW isConnected \in BOOLEAN,
           NEW ok \in BOOLEAN, SendPacket(packet, irrespective, isConnected, ok)
    PROVE  /\ \/ toServer' = toServer
              \/ toServer' = Append(toServer, packet) /\ (irrespective \/ isConnected)
                   /\ ok
           /\ sendPacketIrrespective' /\ socketOk' => irrespective /\ ok
           /\ irrespective /\ socketOk' /\ ok => ~sendPacketIrrespective'
BY Zenon DEF SendPacket

LEMMA InitConnect == Init => ConnectInv
BY DEF Init, ConnectInv, NoConnection, Accepted, Permission, ConnectFirst

LEMMA NextConnect ==
    FlagType /\ ChannelType /\ ConnectInv /\ [Next]_vars => ConnectInv'
<1> SUFFICES ASSUME FlagType, ChannelType, ConnectInv, [Next]_vars
             PROVE  ConnectInv'
  OBVIOUS
<1> USE DEF disk, link, keepalive, channels, server, ConnectInv
<1>1. CASE Start
  BY <1>1, Zenon DEF Start, NoConnection, Accepted, Permission, ConnectFirst
<1>2. CASE InitInstaMsg
  <2>1. /\ toServer = <<>> /\ toClient = <<>> /\ ~connected'
        /\ toClient' = <<>> /\ pc' = "loop"
    BY <1>2, Zenon DEF InitInstaMsg, InitTables, NoConnection
  <2>2. PICK ok, known \in BOOLEAN :
           SendPacket([type |-> "CONNECT", known |-> known], TRUE, FALSE, ok)
    BY <1>2, InitInstaMsgSteps
  <2> DEFINE packet == [type |-> "CONNECT", known |-> known]
  <2>3. /\ toServer' \in {<<>>, Append(<<>>, packet)}
        /\ ~(sendPacketIrrespective' /\ socketOk')
    BY <2>1, <2>2, Zenon DEF SendPacket
  <2>4. \A i \in DOMAIN toServer' : toServer'[i].type = "CONNECT"
    BY <2>3
  <2> QED
    BY <2>1, <2>3, <2>4 DEF NoConnection, Accepted, Permission, ConnectFirst
<1>3. CASE InitWithoutHeap
  <2>1. /\ toServer = <<>> /\ toClient = <<>> /\ ~connected'
        /\ toClient' = <<>> /\ toServer' = <<>> /\ pc' = "loop" /\ noConnect'
    BY <1>3, Zenon DEF InitWithoutHeap, InitTables, NoConnection
  <2> QED
    BY <2>1 DEF NoConnection, Accepted, Permission, ConnectFirst
<1>4. CASE Connack
  <2>1. /\ toClient # <<>> /\ Head(toClient).type = "CONNACK" /\ Head(toClient).ok
        /\ toClient' = Tail(toClient) /\ UNCHANGED <<pc, greeted, noConnect>>
        /\ pc \in {"loop", "ping"}
    BY <1>4, Zenon DEF Connack, Reading, Received
  <2>2. greeted
    BY <2>1, TailIn DEF Accepted, ChannelType
  <2> QED
    BY <2>1, <2>2 DEF NoConnection, Accepted, Permission, ConnectFirst
<1>5. ASSUME NEW packet, SendPacket(packet, sendPacketIrrespective, connected, socketOk),
             pc \in {"loop", "ping"}, pc' \in {"loop", "ping"},
             UNCHANGED <<toClient, greeted, connected, noConnect>>
      PROVE  ConnectInv'
  <2>1. /\ \/ toServer' = toServer
           \/ toServer' = Append(toServer, packet) /\ (greeted \/ noConnect)
        /\ sendPacketIrrespective' /\ socketOk' => greeted \/ noConnect
    BY <1>5, SendAccepted, Zenon DEF FlagType, Accepted, Permission
  <2>2. toServer' = toServer \/ greeted \/ noConnect
    BY <2>1, Zenon
  <2> QED
    BY <1>5, <2>1, <2>2, Zenon DEF NoConnection, Accepted, Permission, ConnectFirst
<1>6. ASSUME NEW t \in Topics, Subscribe(t) PROVE ConnectInv'
  BY <1>5, <1>6, Zenon DEF Subscribe
<1>7. CASE SendPingReqToServer
  BY <1>5, <1>7, Zenon DEF SendPingReqToServer
<1>8. CASE ServerAnswers
  <2>1. /\ toServer # <<>> /\ Head(toServer).type # "NOTIFICATION"
        /\ toServer' = Tail(toServer)
        /\ UNCHANGED <<pc, socketOk, connected, sendPacketIrrespective, noConnect>>
    BY <1>8, Zenon DEF ServerAnswers
  <2>2. PICK answer \in Answers(Head(toServer)) :
           /\ toClient' = Append(toClient, answer)
           /\ greeted' = (greeted \/ (answer.type = "CONNACK" /\ answer.ok))
    BY <1>8, Zenon DEF ServerAnswers
  <2>3. answer \in ToClient
    BY <2>1, AnswerTypes DEF ChannelType
  <2>4. \A i \in DOMAIN toClient' :
           \/ toClient'[i] = answer
           \/ i \in DOMAIN toClient /\ toClient'[i] = toClient[i]
    BY <2>2, <2>3, AppendIn DEF ChannelType
  <2>5. \A i \in DOMAIN toServer' :
           i + 1 \in DOMAIN toServer /\ toServer'[i] = toServer[i + 1]
    BY <2>1, TailIn DEF ChannelType
  <2>6. NoConnection' /\ Permission'
    BY <2>1, <2>2, Zenon DEF NoConnection, Permission
  <2>7. Accepted'
    BY <2>1, <2>2, <2>4, Zenon DEF Accepted
  <2>8. ConnectFirst'
    BY <2>1, <2>2, <2>5, Zenon DEF ConnectFirst
  <2> QED
    BY <2>6, <2>7, <2>8
<1>9. CASE ServerNotified
  <2>1. /\ toServer # <<>> /\ toServer' = Tail(toServer)
        /\ UNCHANGED <<pc, socketOk, connected, sendPacketIrrespective, noConnect,
                       toClient, greeted, granted>>
    BY <1>9, Zenon DEF ServerNotified
  <2>2. \A i \in DOMAIN toServer' :
           i + 1 \in DOMAIN toServer /\ toServer'[i] = toServer[i + 1]
    BY <2>1, TailIn DEF ChannelType
  <2> QED
    BY <2>1, <2>2, Zenon DEF NoConnection, Accepted, Permission, ConnectFirst
<1>10. CASE ServerCommands
  BY <1>10, Zenon
     DEF ServerCommands, NoConnection, Accepted, Permission, ConnectFirst
<1>11. CASE ClosingActions
  <2>1. Closes
    BY <1>11, ClosingCloses
  <2> QED
    BY <2>1 DEF Closes, NoConnection, Accepted, Permission, ConnectFirst
<1>12. CASE QuietActions
  <2>1. Quiet
    BY <1>12, QuietIsQuiet
  <2>2. \A i \in DOMAIN toClient' :
           \E j \in DOMAIN toClient : toClient'[i] = toClient[j]
    BY <2>1, TailIn DEF Quiet, ChannelType
  <2>3. NoConnection'
    BY <2>1, Zenon DEF Quiet, NoConnection
  <2>4. Accepted'
    BY <2>1, <2>2, Zenon DEF Quiet, Accepted
  <2>5. socketOk' => socketOk
    BY <2>1 DEF Quiet
  <2>6. Permission'
    BY <2>1, <2>5, Zenon DEF Quiet, Permission
  <2>7. ConnectFirst'
    BY <2>1, Zenon DEF Quiet, ConnectFirst
  <2> QED
    BY <2>3, <2>4, <2>6, <2>7
<1> QED
  BY <1>1, <1>2, <1>3, <1>4, <1>6, <1>7, <1>8, <1>9, <1>10, <1>11, <1>12, Steps

(* Nothing but CONNECT is on its way to a server that has not accepted the *)
(* connection, unless MQTTConnect had no heap: the permission that         *)
(* sendPacketIrrespective gives is used up by sendPacket on the connection *)
(* it was given for, or that connection's socket is given up.              *)
THEOREM ConnectIsFirst == Spec => []ConnectFirst
<1> DEFINE Inv == FlagType /\ ChannelType /\ ConnectInv
<1>1. Init => Inv
  BY InitFlags, InitChannels, InitConnect
<1>2. TypeOK /\ Inv /\ [Next]_vars => Inv'
  BY TypeParts, NextFlags, NextChannels, NextConnect
<1>3. Inv => ConnectFirst
  BY DEF ConnectInv
<1> HIDE DEF Inv
<1> QED
  BY <1>1, <1>2, <1>3, TypeCorrect, PTL DEF Spec

-----------------------------------------------------------------------------
LEMMA InitCertificate == Init => CertificateInv
BY DEF Init, CertificateInv, SecretKnown, CertificateKept

(* The secret is there from the first provisioning on, unless it is on     *)
(* record that it was lost, and is saved before the process goes on.       *)
LEMMA SettingStays ==
    ASSUME FlagType, SaveSetting \/ SaveSecret \/ UNCHANGED <<secret, forgotten>>
    PROVE  Provisioned => Provisioned'
<1>1. CASE SaveSetting /\ ~UNCHANGED <<secret, forgotten>>
  <2>1. forgotten' = (forgotten \/ secret)
    BY <1>1, Zenon DEF SaveSetting
  <2> QED
    BY <2>1 DEF FlagType, Provisioned
<1>2. CASE SaveSecret
  BY <1>2, Zenon DEF SaveSecret, Provisioned
<1>3. CASE UNCHANGED <<secret, forgotten>>
  BY <1>3, Zenon DEF Provisioned
<1> QED
  BY <1>1, <1>2, <1>3

LEMMA SecretSteps ==
    [Next]_vars =>
        SaveSetting \/ SaveSecret \/ UNCHANGED <<secret, forgotten>>
<1> SUFFICES ASSUME [Next]_vars
             PROVE  SaveSetting \/ SaveSecret \/ UNCHANGED <<secret, forgotten>>
  OBVIOUS
<1> USE DEF disk
<1>1. CASE InitInstaMsg
  BY <1>1, InitInstaMsgSteps, Zenon
<1>2. CASE Packet
  BY <1>2, Zenon
     DEF Packet, Connack, Refused, Provision, ProvisionWithCertificate,
         NoHeapToProvision, CertReceived, ConfigReceived, Pingresp, Suback
<1>3. CASE Next /\ ~InitInstaMsg /\ ~Packet
  BY <1>3, Zenon
     DEF Next, Start, Initialising, InitWithoutHeap,
         Provisioning, SaveCertificate, SaveKey, NoHeapForCertificate,
         ReadFails, Subscribe, SendPingReqToServer, Waiting, PingAnswered,
         PingCycle, Reboot, EndOfPass, ClearInstaMsg, Crash, Server,
         ServerAnswers, ServerNotified, ServerCommands, Stabilise
<1>4. CASE UNCHANGED vars
  BY <1>4, Zenon DEF vars
<1> QED
  BY <1>1, <1>2, <1>3, <1>4

LEMMA SecretStays ==
    ASSUME FlagType, [Next]_vars
    PROVE  Provisioned => Provisioned'
BY SecretSteps, SettingStays

(* What a step adds to the channels, and whether it greets.                *)
LEMMA SecretIsKnown ==
    FlagType /\ ChannelType /\ CertificateInv /\ [Next]_vars => SecretKnown'
<1> SUFFICES ASSUME FlagType, ChannelType, SecretKnown, [Next]_vars
             PROVE  SecretKnown'
  BY DEF CertificateInv
<1>0. Provisioned => Provisioned'
  BY SecretStays
<1> USE DEF disk, link, keepalive, channels, server
<1>1. ASSUME NEW packet, toServer' \in {toServer, Append(toServer, packet)},
             packet \in ToServer,
             packet.type = "CONNECT" /\ packet.known => Provisioned',
             toClient' \in {toClient, Tail(toClient)},
             toClient' # toClient => toClient # <<>>, greeted' = greeted
      PROVE  SecretKnown'
  <2>1. \A i \in DOMAIN toServer' :
           \/ i \in DOMAIN toServer /\ toServer'[i] = toServer[i]
           \/ toServer'[i] = packet
    BY <1>1, AppendIn DEF ChannelType
  <2>2. \A i \in DOMAIN toClient' :
           \E j \in DOMAIN toClient : toClient'[i] = toClient[j]
    BY <1>1, TailIn DEF ChannelType
  <2> QED
    BY <1>0, <1>1, <2>1, <2>2, Zenon DEF SecretKnown
<1>2. CASE Start \/ InitWithoutHeap
  <2>1. UNCHANGED <<toServer, toClient, greeted>>
    BY <1>2, Zenon DEF Start, InitWithoutHeap
  <2> QED
    BY <1>0, <2>1, Zenon DEF SecretKnown
<1>3. CASE InitInstaMsg
  <2>1. PICK ok, known \in BOOLEAN :
           /\ SendPacket([type |-> "CONNECT", known |-> known], TRUE, FALSE, ok)
           /\ known => secret'
    BY <1>3, InitInstaMsgSteps
  <2> DEFINE packet == [type |-> "CONNECT", known |-> known]
  <2>2. packet \in ToServer /\ (packet.known => Provisioned')
    BY <2>1 DEF ToServer, Provisioned
  <2>3. /\ toServer' \in {toServer, Append(toServer, packet)}
        /\ toClient' = toClient /\ greeted' = greeted
    BY <1>3, <2>1, Zenon DEF InitInstaMsg, SendPacket
  <2> QED
    BY <1>1, <2>2, <2>3
<1>4. CASE Connack
  <2>1. /\ toServer' \in {toServer, Append(toServer, [type |-> "NOTIFICATION"])}
        /\ toClient # <<>> /\ toClient' = Tail(toClient) /\ greeted' = greeted
    BY <1>4, Zenon DEF Connack, Reading, Received, SendPacket
  <2>2. [type |-> "NOTIFICATION"] \in ToServer
    BY DEF ToServer
  <2> QED
    BY <1>1, <2>1, <2>2
<1>5. ASSUME NEW t \in Topics, Subscribe(t) PROVE SecretKnown'
  <2> DEFINE packet == [type |-> "SUBSCRIBE", id |-> nextPacketId', topic |-> t]
  <2>1. /\ toServer' \in {toServer, Append(toServer, packet)}
        /\ toClient' = toClient /\ greeted' = greeted
    BY <1>5, Zenon DEF Subscribe, SendPacket
  <2>2. \A i \in DOMAIN toServer' :
           \/ i \in DOMAIN toServer /\ toServer'[i] = toServer[i]
           \/ toServer'[i].type = "SUBSCRIBE"
    BY <2>1 DEF ChannelType
  <2> QED
    BY <1>0, <2>1, <2>2 DEF SecretKnown
<1>6. CASE SendPingReqToServer
  <2>1. /\ toServer' \in {toServer, Append(toServer, [type |-> "PINGREQ"])}
        /\ toClient' = toClient /\ greeted' = greeted
    BY <1>6, Zenon DEF SendPingReqToServer, SendPacket
  <2>2. [type |-> "PINGREQ"] \in ToServer
    BY DEF ToServer
  <2> QED
    BY <1>1, <2>1, <2>2
<1>7. CASE ServerAnswers
  <2>1. /\ toServer # <<>> /\ Head(toServer).type # "NOTIFICATION"
        /\ toServer' = Tail(toServer) /\ Head(toServer) \in ToServer
    BY <1>7 DEF ServerAnswers, ChannelType
  <2>2. PICK answer \in Answers(Head(toServer)) :
           /\ toClient' = Append(toClient, answer)
           /\ greeted' = (greeted \/ (answer.type = "CONNACK" /\ answer.ok))
    BY <1>7, Zenon DEF ServerAnswers
  <2>3. /\ answer \in ToClient /\ answer.type # "CERTIFICATE"
        /\ answer.type = "CONNACK" =>
             Head(toServer).type = "CONNECT" /\ Head(toServer).known
    BY <2>1, AnswerTypes
  <2>4. \A i \in DOMAIN toClient' :
           \/ toClient'[i] = answer
           \/ i \in DOMAIN toClient /\ toClient'[i] = toClient[i]
    BY <2>2, <2>3, AppendIn DEF ChannelType
  <2>5. \A i \in DOMAIN toServer' :
           i + 1 \in DOMAIN toServer /\ toServer'[i] = toServer[i + 1]
    BY <2>1, TailIn DEF ChannelType
  <2>6. Head(toServer) = toServer[1] /\ 1 \in DOMAIN toServer
    BY <2>1, TailIn DEF ChannelType
  <2>7. answer.type = "CONNACK" => Provisioned
    BY <2>3, <2>6, Zenon DEF SecretKnown
  <2> QED
    BY <1>0, <2>1, <2>2, <2>3, <2>4, <2>5, <2>7, Zenon DEF SecretKnown
<1>8. CASE ServerNotified
  <2>1. /\ toServer # <<>> /\ toServer' = Tail(toServer)
        /\ UNCHANGED <<toClient, greeted>>
    BY <1>8, Zenon DEF ServerNotified
  <2>2. \A i \in DOMAIN toServer' :
           i + 1 \in DOMAIN toServer /\ toServer'[i] = toServer[i + 1]
    BY <2>1, TailIn DEF ChannelType
  <2> QED
    BY <1>0, <2>1, <2>2, Zenon DEF SecretKnown
<1>9. CASE ServerCommands
  <2>1. greeted /\ UNCHANGED <<toServer, greeted>>
    BY <1>9, Zenon DEF ServerCommands
  <2> QED
    BY <1>0, <2>1, Zenon DEF SecretKnown
<1>10. CASE ClosingActions
  <2>1. Closes
    BY <1>10, ClosingCloses
  <2> QED
    BY <2>1 DEF Closes, SecretKnown
<1>11. CASE QuietActions
  <2>1. Quiet
    BY <1>11, QuietIsQuiet
  <2>2. \A i \in DOMAIN toClient' :
           \E j \in DOMAIN toClient : toClient'[i] = toClient[j]
    BY <2>1, TailIn DEF Quiet, ChannelType
  <2> QED
    BY <1>0, <2>1, <2>2, Zenon DEF Quiet, SecretKnown
<1> QED
  BY <1>2, <1>3, <1>4, <1>5, <1>6, <1>7, <1>8, <1>9, <1>10, <1>11, Steps

LEMMA CertificateStays ==
    FlagType /\ ChannelType /\ CertificateInv /\ [Next]_vars => CertificateKept'
<1> SUFFICES ASSUME FlagType, ChannelType, CertificateInv, [Next]_vars
             PROVE  CertificateKept'
  OBVIOUS
<1> DEFINE Whole == certificate = {"certificate", "key"} \/ pc \in {"certificate", "key"}
<1> USE DEF disk, link, keepalive, channels, server, CertificateInv
<1>a. CertificateKept <=> (issued => Whole /\ Provisioned)
  BY Zenon DEF CertificateKept, Provisioned
<1>b. CertificateKept' <=> (issued' => Whole' /\ Provisioned')
  BY Zenon DEF CertificateKept, Provisioned
<1>c. Provisioned => Provisioned'
  BY SecretStays
<1>1. ASSUME UNCHANGED <<issued, certificate>>, pc \notin {"certificate", "key"}
      PROVE  CertificateKept'
  BY <1>1, <1>a, <1>b, <1>c, Zenon
<1>2. CASE Start \/ InitInstaMsg \/ InitWithoutHeap
  BY <1>1, <1>2, Zenon DEF Start, InitInstaMsg, InitWithoutHeap
<1>3. CASE \/ Connack \/ Refused \/ Provision \/ NoHeapToProvision \/ Suback
           \/ Pingresp \/ ConfigReceived
  BY <1>1, <1>3, Zenon
     DEF Connack, Refused, Provision, NoHeapToProvision, Suback, Pingresp,
         ConfigReceived, Reading
<1>4. CASE ProvisionWithCertificate
  BY <1>4, Zenon DEF ProvisionWithCertificate, SaveSecret, CertificateKept
<1>5. CASE CertReceived
  <2>1. toClient # <<>> /\ Head(toClient).type = "CERTIFICATE" /\ pc' = "certificate"
    BY <1>5, Zenon DEF CertReceived, Reading
  <2>2. Provisioned
    BY <2>1, TailIn DEF SecretKnown, ChannelType
  <2> QED
    BY <1>b, <1>c, <2>1, <2>2, Zenon
<1>6. CASE SaveCertificate
  BY <1>a, <1>b, <1>c, <1>6, Zenon DEF SaveCertificate
<1>7. CASE SaveKey
  BY <1>a, <1>b, <1>c, <1>7, Zenon DEF SaveKey
<1>8. CASE NoHeapForCertificate
  BY <1>b, <1>8, Zenon DEF NoHeapForCertificate
<1>9. CASE ReadFails \/ Waiting \/ Reboot \/ EndOfPass \/ ClearInstaMsg
  BY <1>1, <1>9, Zenon
     DEF ReadFails, Waiting, PingAnswered, PingCycle, Reboot, EndOfPass,
         ClearInstaMsg
<1>10. ASSUME NEW t \in Topics, Subscribe(t) PROVE CertificateKept'
  BY <1>1, <1>10, Zenon DEF Subscribe
<1>11. CASE SendPingReqToServer
  BY <1>1, <1>11, Zenon DEF SendPingReqToServer
<1>12. CASE Crash
  BY <1>a, <1>b, <1>c, <1>12, Zenon DEF Crash
<1>13. CASE \/ ServerAnswers \/ ServerNotified \/ ServerCommands
            \/ Stabilise \/ UNCHANGED vars
  BY <1>a, <1>b, <1>c, <1>13, Zenon
     DEF ServerAnswers, ServerNotified, ServerCommands, Stabilise, vars
<1> QED
  BY <1>2, <1>3, <1>4, <1>5, <1>6, <1>7, <1>8, <1>9, <1>10, <1>11, <1>12, <1>13
     DEF Next, Initialising, Packet, Provisioning, Server

(* A certificate that the server issued, with the secret or later, is on   *)
(* the storage with its key or still being saved: only a crash or a lack   *)
(* of heap between the steps of processCertificateInfoIfAny loses it.  Its *)
(* secret is there too, unless a setting was saved without heap since it   *)
(* came (device_config.c:78), in whatever connection that was.             *)
THEOREM CertificateIsKept == Spec => []CertificateKept
<1> DEFINE Inv == FlagType /\ ChannelType /\ CertificateInv
<1>1. Init => Inv
  BY InitFlags, InitChannels, InitCertificate
<1>2. TypeOK /\ Inv /\ [Next]_vars => Inv'
  <2> SUFFICES ASSUME TypeOK, Inv, [Next]_vars PROVE Inv'
    OBVIOUS
  <2>1. SecretKnown' /\ CertificateKept'
    BY SecretIsKnown, CertificateStays
  <2> QED
    BY <2>1, TypeParts, NextFlags, NextChannels DEF CertificateInv
<1>3. Inv => CertificateKept
  BY DEF CertificateInv
<1> HIDE DEF Inv
<1> QED
  BY <1>1, <1>2, <1>3, TypeCorrect, PTL DEF Spec

-----------------------------------------------------------------------------
(* A set of numbers has a least one.                                       *)
LEMMA NatMin ==
    ASSUME NEW T, T \subseteq Nat, T # {}
    PROVE  \E x \in T : \A y \in T : x <= y
<1> DEFINE R == OpToRel(<, Nat)
<1>1. IsWellFoundedOn(R, Nat)
  BY NatLessThanWellFounded
<1>2. \A x, y \in Nat : x < y => <<x, y>> \in R
  BY DEF OpToRel
<1>3. \A y \in T : y \in Nat
  OBVIOUS
<1> HIDE DEF R
<1>4. PICK x \in T : \A y \in T : ~(<<y, x>> \in R)
  BY <1>1, WFMin
<1>5. \A y \in T : ~(y < x)
  BY <1>2, <1>3, <1>4
<1> QED
  BY <1>3, <1>4, <1>5

LEMMA InitHandler == Init => HandlerInv
BY DEF Init, HandlerInv, NoConnection, TableInv, IdsInv, SlotsInv, EmptyTable

(* subscribe() finds a slot, and it is not one that is in use.             *)
LEMMA SubscribeTable ==
    ASSUME FlagType, CountType, TableType, TableInv,
           MaxIds <= MAX_MESSAGE_HANDLERS,
           NEW t \in Topics, Subscribe(t)
    PROVE  /\ nextPacketId' = nextPacketId + 1
           /\ \E m \in Slots :
                /\ messageHandlers[m].topicFilter = NoTopic
                /\ messageHandlers' = [messageHandlers EXCEPT
                      ![m] = [msgId |-> nextPacketId', topicFilter |-> t]]
           /\ TableInv'
<1> DEFINE free == {s \in Slots : messageHandlers[s].topicFilter = NoTopic}
<1>1. /\ nextPacketId < MaxIds /\ nextPacketId' = nextPacketId + 1
      /\ messageHandlers' = [s \in Slots |->
            IF s \in free /\ \A r \in free : s <= r
            THEN [msgId |-> nextPacketId', topicFilter |-> t]
            ELSE messageHandlers[s]]
  BY Zenon DEF Subscribe
<1>2. nextPacketId + 1 \in free
  BY <1>1 DEF CountType, Slots, TableInv
<1>3. PICK m \in free : \A r \in free : m <= r
  <2>1. free \subseteq Nat
    BY DEF Slots
  <2> HIDE DEF free
  <2> QED
    BY <1>2, <2>1, NatMin
<1>4. \A s \in free : (\A r \in free : s <= r) => s = m
  BY <1>3 DEF Slots
<1>5. messageHandlers' = [messageHandlers EXCEPT
                            ![m] = [msgId |-> nextPacketId', topicFilter |-> t]]
  BY <1>1, <1>3, <1>4 DEF TableType
<1>6. TableInv'
  <2>1. m \in Slots /\ m <= nextPacketId + 1 /\ nextPacketId \in Nat
    BY <1>2, <1>3 DEF CountType
  <2>2. messageHandlers'[m] = [msgId |-> nextPacketId + 1, topicFilter |-> t]
    BY <1>1, <1>5, <2>1 DEF TableType
  <2>3. \A s \in Slots : s # m => messageHandlers'[s] = messageHandlers[s]
    BY <1>5 DEF TableType
  <2>4. \A s \in Slots : /\ messageHandlers[s].msgId \in Nat
                         /\ messageHandlers[s].msgId <= nextPacketId
    BY DEF TableType, TableInv
  <2>5. \A s \in Slots : s > nextPacketId' =>
            s # m /\ messageHandlers[s].topicFilter = NoTopic
    BY <1>1, <2>1 DEF TableInv, Slots
  <2>6. \A s \in Slots :
           /\ messageHandlers'[s].msgId <= nextPacketId'
           /\ s > nextPacketId' => messageHandlers'[s].topicFilter = NoTopic
    BY <1>1, <2>1, <2>2, <2>3, <2>4, <2>5
  <2>7. \A s \in Slots : s # m => messageHandlers'[s].msgId # messageHandlers'[m].msgId
    BY <2>1, <2>2, <2>3, <2>4
  <2> QED
    BY <2>3, <2>6, <2>7, Zenon DEF TableInv
<1> QED
  BY <1>1, <1>3, <1>5, <1>6

LEMMA SubackTable ==
    ASSUME TableType, TableInv, Suback
    PROVE  /\ nextPacketId' = nextPacketId /\ TableInv'
           /\ \A s \in Slots :
                /\ messageHandlers'[s].msgId = messageHandlers[s].msgId
                /\ messageHandlers[s].msgId # Head(toClient).id \/ Head(toClient).ok
                     => messageHandlers'[s] = messageHandlers[s]
BY DEF Suback, TableType, TableInv

LEMMA NextTableInv ==
    ASSUME FlagType, CountType, TableType, TableInv,
           MaxIds <= MAX_MESSAGE_HANDLERS, [Next]_vars
    PROVE  TableInv'
<1>1. CASE messageHandlers' = EmptyTable /\ nextPacketId' = 0
  BY <1>1 DEF TableInv, EmptyTable, Slots
<1>2. ASSUME NEW t \in Topics, Subscribe(t) PROVE TableInv'
  BY <1>2, SubscribeTable
<1>3. CASE Suback
  BY <1>3, SubackTable
<1>4. CASE UNCHANGED table
  BY <1>4 DEF table, TableInv
<1> QED
  BY <1>1, <1>2, <1>3, <1>4, TableSteps

(* Steps that put no subscription and no answer to one on the connection,  *)
(* and take away the first packets, or none.                               *)
NoNewSubscription ==
    \E d \in {0, 1} :
        \A i \in DOMAIN toServer' :
            toServer'[i].type = "SUBSCRIBE" =>
                i + d \in DOMAIN toServer /\ toServer'[i] = toServer[i + d]

NoNewAnswer ==
    \E d \in {0, 1} :
        \A i \in DOMAIN toClient' :
            toClient'[i].type = "SUBACK" =>
                i + d \in DOMAIN toClient /\ toClient'[i] = toClient[i + d]

LEMMA NothingNew ==
    ASSUME ChannelType, ChannelType', IdsInv, SlotsInv,
           NoNewSubscription, NoNewAnswer, UNCHANGED table, granted' = granted
    PROVE  IdsInv' /\ SlotsInv'
<1>1. PICK d \in {0, 1} :
        \A i \in DOMAIN toServer' :
            toServer'[i].type = "SUBSCRIBE" =>
                i + d \in DOMAIN toServer /\ toServer'[i] = toServer[i + d]
  BY DEF NoNewSubscription
<1>2. PICK e \in {0, 1} :
        \A i \in DOMAIN toClient' :
            toClient'[i].type = "SUBACK" =>
                i + e \in DOMAIN toClient /\ toClient'[i] = toClient[i + e]
  BY DEF NoNewAnswer
<1>3. \A i \in DOMAIN toServer' : Subscription(i)' =>
          Subscription(i + d) /\ toServer'[i] = toServer[i + d]
  BY <1>1 DEF Subscription
<1>4. \A i \in DOMAIN toClient' : Answer(i)' =>
          Answer(i + e) /\ toClient'[i] = toClient[i + e]
  BY <1>2 DEF Answer
<1>5. \A i, j \in DOMAIN toServer' : i + d = j + d => i = j
  BY DEF ChannelType
<1>6. \A i : /\ Subscription(i) => i \in DOMAIN toServer
             /\ Answer(i) => i \in DOMAIN toClient
  BY DEF Subscription, Answer
<1>7. UNCHANGED <<messageHandlers, nextPacketId, granted>>
  BY DEF table
<1>8. IdsInv'
  <2>1. \A i \in DOMAIN toServer' : Subscription(i)' =>
            toServer'[i].id <= nextPacketId'
    BY <1>3, <1>6, <1>7 DEF IdsInv
  <2>2. \A i \in DOMAIN toClient' : Answer(i)' => toClient'[i].id <= nextPacketId'
    BY <1>4, <1>6, <1>7 DEF IdsInv
  <2>3. \A i, j \in DOMAIN toServer' :
           Subscription(i)' /\ Subscription(j)' /\ toServer'[i].id = toServer'[j].id
              => i = j
    BY <1>3, <1>5, <1>6 DEF IdsInv
  <2>4. \A i \in DOMAIN toServer', j \in DOMAIN toClient' :
           Subscription(i)' /\ Answer(j)' => toServer'[i].id # toClient'[j].id
    BY <1>3, <1>4, <1>6 DEF IdsInv
  <2> QED
    BY <2>1, <2>2, <2>3, <2>4 DEF IdsInv
<1>9. \A s : Safe(s) => Safe(s)'
  BY <1>3, <1>4, <1>6, <1>7, Zenon DEF Safe
<1>10. SlotsInv'
  <2>1. \A i \in DOMAIN toServer' : Subscription(i)' =>
            \E s \in Slots : messageHandlers'[s] = [msgId |-> toServer'[i].id,
                                              topicFilter |-> toServer'[i].topic]
    BY <1>3, <1>6, <1>7 DEF SlotsInv
  <2>2. \A u \in granted' :
           \E s \in Slots : messageHandlers'[s].topicFilter = u /\ Safe(s)'
    BY <1>7, <1>9 DEF SlotsInv
  <2> QED
    BY <2>1, <2>2 DEF SlotsInv
<1> QED
  BY <1>8, <1>10

LEMMA OtherPacket ==
    ASSUME ChannelType, NEW packet \in ToServer, packet.type # "SUBSCRIBE",
           toServer' \in {toServer, Append(toServer, packet)}
    PROVE  NoNewSubscription
<1>1. \A i \in DOMAIN toServer' : toServer'[i].type = "SUBSCRIBE" =>
          i + 0 \in DOMAIN toServer /\ toServer'[i] = toServer[i + 0]
  BY DEF ChannelType
<1> QED
  BY <1>1 DEF NoNewSubscription

LEMMA PacketTaken ==
    ASSUME ChannelType, toServer # <<>>, toServer' = Tail(toServer)
    PROVE  NoNewSubscription
<1>1. \A i \in DOMAIN toServer' :
          i + 1 \in DOMAIN toServer /\ toServer'[i] = toServer[i + 1]
  BY TailIn DEF ChannelType
<1> QED
  BY <1>1 DEF NoNewSubscription

LEMMA OtherAnswer ==
    ASSUME ChannelType, NEW answer \in ToClient, answer.type # "SUBACK",
           toClient' \in {toClient, Append(toClient, answer)}
    PROVE  NoNewAnswer
<1>1. \A i \in DOMAIN toClient' : toClient'[i].type = "SUBACK" =>
          i + 0 \in DOMAIN toClient /\ toClient'[i] = toClient[i + 0]
  BY DEF ChannelType
<1> QED
  BY <1>1 DEF NoNewAnswer

LEMMA AnswerTaken ==
    ASSUME ChannelType, toClient # <<>>, toClient' = Tail(toClient)
    PROVE  NoNewAnswer
<1>1. \A i \in DOMAIN toClient' :
          i + 1 \in DOMAIN toClient /\ toClient'[i] = toClient[i + 1]
  BY TailIn DEF ChannelType
<1> QED
  BY <1>1 DEF NoNewAnswer

LEMMA SameChannels ==
    ASSUME ChannelType
    PROVE  /\ toServer' = toServer => NoNewSubscription
           /\ toClient' = toClient => NoNewAnswer
<1>1. [type |-> "PINGREQ"] \in ToServer /\ [type |-> "PINGRESP"] \in ToClient
  BY DEF ToServer, ToClient
<1> QED
  BY <1>1, OtherPacket, OtherAnswer

(* A refusal takes the handler of its own subscription only.               *)
LEMMA SubackSlots ==
    ASSUME ChannelType, ChannelType', TableType, TableInv, IdsInv, SlotsInv, Suback
    PROVE  IdsInv' /\ SlotsInv'
<1>1. /\ toClient # <<>> /\ Head(toClient).type = "SUBACK"
      /\ toClient' = Tail(toClient) /\ UNCHANGED <<toServer, granted>>
  BY Zenon DEF Suback, Reading, Received, server
<1>2. /\ 1 \in DOMAIN toClient /\ Head(toClient) = toClient[1]
      /\ \A i \in DOMAIN toClient' :
            i + 1 \in DOMAIN toClient /\ toClient'[i] = toClient[i + 1]
  BY <1>1, TailIn DEF ChannelType
<1>3. /\ nextPacketId' = nextPacketId
      /\ \A s \in Slots :
            /\ messageHandlers'[s].msgId = messageHandlers[s].msgId
            /\ messageHandlers[s].msgId # toClient[1].id \/ toClient[1].ok
                 => messageHandlers'[s] = messageHandlers[s]
  BY <1>2, SubackTable
<1>4. Answer(1) /\ \A i : Answer(i) => i \in DOMAIN toClient
  BY <1>1, <1>2 DEF Answer
<1>5. \A i : Answer(i)' => Answer(i + 1) /\ toClient'[i] = toClient[i + 1]
  BY <1>2 DEF Answer
<1>6. \A i : /\ Subscription(i)' <=> Subscription(i)
             /\ Subscription(i) => i \in DOMAIN toServer
  BY <1>1 DEF Subscription
<1>7. IdsInv'
  <2>1. \A i, j \in DOMAIN toClient' : i + 1 = j + 1 => i = j
    BY DEF ChannelType
  <2>2. \A i \in DOMAIN toServer' : Subscription(i)' =>
            toServer'[i].id <= nextPacketId'
    BY <1>1, <1>3, <1>6 DEF IdsInv
  <2>3. \A i \in DOMAIN toClient' : Answer(i)' => toClient'[i].id <= nextPacketId'
    BY <1>3, <1>4, <1>5 DEF IdsInv
  <2>4. \A i \in DOMAIN toServer', j \in DOMAIN toClient' :
           Subscription(i)' /\ Answer(j)' => toServer'[i].id # toClient'[j].id
    BY <1>1, <1>4, <1>5, <1>6 DEF IdsInv
  <2>5. \A i, j \in DOMAIN toServer' :
           Subscription(i)' /\ Subscription(j)' /\ toServer'[i].id = toServer'[j].id
              => i = j
    BY <1>1, <1>6 DEF IdsInv
  <2> QED
    BY <2>2, <2>3, <2>4, <2>5 DEF IdsInv
<1>8. ASSUME NEW i \in DOMAIN toServer', Subscription(i)'
      PROVE  \E s \in Slots : messageHandlers'[s] = [msgId |-> toServer'[i].id,
                                              topicFilter |-> toServer'[i].topic]
  <2>1. PICK s \in Slots : messageHandlers[s] = [msgId |-> toServer[i].id,
                                              topicFilter |-> toServer[i].topic]
    BY <1>6, <1>8 DEF SlotsInv
  <2>2. toServer[i].id # toClient[1].id
    BY <1>4, <1>6, <1>8 DEF IdsInv
  <2>3. messageHandlers'[s] = messageHandlers[s]
    BY <1>3, <2>1, <2>2
  <2> QED
    BY <1>1, <2>1, <2>3
<1>9. ASSUME NEW u \in granted'
      PROVE  \E s \in Slots : messageHandlers'[s].topicFilter = u /\ Safe(s)'
  <2>1. PICK s \in Slots : messageHandlers[s].topicFilter = u /\ Safe(s)
    BY <1>1 DEF SlotsInv
  <2>2. messageHandlers'[s] = messageHandlers[s]
    BY <1>3, <1>4, <2>1 DEF Safe
  <2>3. Safe(s)'
    BY <1>1, <1>4, <1>5, <1>6, <2>1, <2>2 DEF Safe
  <2> QED
    BY <2>1, <2>2, <2>3
<1> QED
  BY <1>7, <1>8, <1>9 DEF SlotsInv

(* The answer to a subscription takes its place on the connection.         *)
LEMMA AnswerSlots ==
    ASSUME ChannelType, ChannelType', TableType, TableInv, IdsInv, SlotsInv,
           ServerAnswers, Head(toServer).type = "SUBSCRIBE"
    PROVE  IdsInv' /\ SlotsInv'
<1>1. /\ toServer # <<>> /\ toServer' = Tail(toServer)
      /\ UNCHANGED <<messageHandlers, nextPacketId>>
  BY Zenon DEF ServerAnswers, table
<1>2. /\ 1 \in DOMAIN toServer /\ Head(toServer) = toServer[1]
      /\ toServer[1] \in ToServer
      /\ \A i \in DOMAIN toServer' :
            /\ i \in Nat \ {0} /\ i + 1 \in DOMAIN toServer
            /\ toServer'[i] = toServer[i + 1]
  BY <1>1, TailIn DEF ChannelType
<1>3. PICK answer \in Answers(Head(toServer)) :
         /\ toClient' = Append(toClient, answer)
         /\ granted' = IF answer.type = "SUBACK" /\ answer.ok
                       THEN granted \cup {Head(toServer).topic} ELSE granted
  BY Zenon DEF ServerAnswers
<1>4. answer \in ToClient /\ answer.type = "SUBACK" /\ answer.id = toServer[1].id
  <2>1. answer.type = "SUBACK"
    BY <1>2, <1>3 DEF Answers, ToServer
  <2> QED
    BY <1>2, <1>3, <2>1, AnswerTypes
<1>5. \A i \in DOMAIN toClient' :
         \/ i \in DOMAIN toClient /\ toClient'[i] = toClient[i]
         \/ toClient'[i] = answer
  BY <1>3, <1>4, AppendIn DEF ChannelType
<1>6. \A i : /\ Subscription(i) => i \in DOMAIN toServer
             /\ Answer(i) => i \in DOMAIN toClient
             /\ i \in DOMAIN toServer' /\ Subscription(i)' =>
                   /\ Subscription(i + 1) /\ toServer'[i] = toServer[i + 1]
                   /\ i + 1 # 1
             /\ i \in DOMAIN toClient' /\ Answer(i)' =>
                   \/ Answer(i) /\ toClient'[i] = toClient[i]
                   \/ toClient'[i] = answer
  BY <1>2, <1>5 DEF Subscription, Answer
<1>7. /\ Subscription(1)
      /\ \A j : Subscription(j) /\ j # 1 => toServer[j].id # toServer[1].id
      /\ \A j : Answer(j) => toClient[j].id # toServer[1].id
  <2>1. Subscription(1)
    BY <1>1, <1>2 DEF Subscription
  <2> QED
    BY <1>2, <1>6, <2>1, Zenon DEF IdsInv
<1>8. IdsInv'
  <2>1. \A i, j \in DOMAIN toServer' : i + 1 = j + 1 => i = j
    BY <1>2
  <2>2. \A i \in DOMAIN toServer' : Subscription(i)' =>
            toServer'[i].id <= nextPacketId'
    BY <1>1, <1>6 DEF IdsInv
  <2>3. \A i \in DOMAIN toClient' : Answer(i)' => toClient'[i].id <= nextPacketId'
    BY <1>1, <1>4, <1>6, <1>7 DEF IdsInv
  <2>4. \A i \in DOMAIN toServer', j \in DOMAIN toClient' :
           Subscription(i)' /\ Answer(j)' => toServer'[i].id # toClient'[j].id
    <3> SUFFICES ASSUME NEW i \in DOMAIN toServer', NEW j \in DOMAIN toClient',
                        Subscription(i)', Answer(j)'
                 PROVE  toServer'[i].id # toClient'[j].id
      OBVIOUS
    <3>1. Subscription(i + 1) /\ toServer'[i] = toServer[i + 1] /\ i + 1 # 1
      BY <1>6
    <3>2. CASE Answer(j) /\ toClient'[j] = toClient[j]
      <4>1. i + 1 \in DOMAIN toServer /\ j \in DOMAIN toClient
        BY <1>6, <3>1, <3>2
      <4>2. toServer[i + 1].id # toClient[j].id
        BY <3>1, <3>2, <4>1, Zenon DEF IdsInv
      <4> QED
        BY <3>1, <3>2, <4>2
    <3>3. CASE toClient'[j] = answer
      BY <1>4, <1>7, <3>1, <3>3
    <3> QED
      BY <1>6, <3>2, <3>3
  <2>5. \A i, j \in DOMAIN toServer' :
           Subscription(i)' /\ Subscription(j)' /\ toServer'[i].id = toServer'[j].id
              => i = j
    <3> SUFFICES ASSUME NEW i \in DOMAIN toServer', NEW j \in DOMAIN toServer',
                        Subscription(i)', Subscription(j)',
                        toServer'[i].id = toServer'[j].id
                 PROVE  i = j
      OBVIOUS
    <3>1. /\ Subscription(i + 1) /\ toServer'[i] = toServer[i + 1]
          /\ Subscription(j + 1) /\ toServer'[j] = toServer[j + 1]
      BY <1>6
    <3>2. i + 1 = j + 1
      BY <1>6, <3>1 DEF IdsInv
    <3> QED
      BY <2>1, <3>2
  <2> QED
    BY <2>2, <2>3, <2>4, <2>5 DEF IdsInv
<1>9. \A i \in DOMAIN toServer' : Subscription(i)' =>
          \E s \in Slots : messageHandlers'[s] = [msgId |-> toServer'[i].id,
                                            topicFilter |-> toServer'[i].topic]
  BY <1>1, <1>6 DEF SlotsInv
<1>10. ASSUME NEW s \in Slots, Safe(s) PROVE Safe(s)'
  <2>1. answer.id # messageHandlers[s].msgId
    BY <1>4, <1>6, <1>7, <1>10 DEF Safe
  <2>2. \A i \in DOMAIN toServer' : Subscription(i)' =>
            toServer'[i].id # messageHandlers'[s].msgId
    BY <1>1, <1>6, <1>10 DEF Safe
  <2>3. \A i \in DOMAIN toClient' :
            Answer(i)' /\ toClient'[i].id = messageHandlers'[s].msgId
              => toClient'[i].ok
    BY <1>1, <1>6, <1>10, <2>1 DEF Safe
  <2> QED
    BY <2>2, <2>3 DEF Safe
<1>11. ASSUME answer.ok
       PROVE  \E s \in Slots : messageHandlers'[s].topicFilter = toServer[1].topic
                               /\ Safe(s)'
  <2>1. PICK s \in Slots : messageHandlers[s] = [msgId |-> toServer[1].id,
                                              topicFilter |-> toServer[1].topic]
    BY <1>6, <1>7 DEF SlotsInv
  <2>2. \A i \in DOMAIN toServer' : Subscription(i)' =>
            toServer'[i].id # messageHandlers'[s].msgId
    BY <1>1, <1>6, <1>7, <2>1
  <2>3. \A i \in DOMAIN toClient' :
            Answer(i)' /\ toClient'[i].id = messageHandlers'[s].msgId
              => toClient'[i].ok
    BY <1>1, <1>6, <1>7, <1>11, <2>1
  <2>4. Safe(s)'
    BY <2>2, <2>3 DEF Safe
  <2> QED
    BY <1>1, <2>1, <2>4
<1>12. \A u \in granted' :
          \E s \in Slots : messageHandlers'[s].topicFilter = u /\ Safe(s)'
  <2>1. \A u \in granted' : u \in granted \/ (answer.ok /\ u = toServer[1].topic)
    BY <1>2, <1>3
  <2> QED
    BY <1>1, <1>10, <1>11, <2>1 DEF SlotsInv
<1> QED
  BY <1>8, <1>9, <1>12 DEF SlotsInv

(* A new subscription takes a slot that no other needs.                    *)
LEMMA SubscribeSlots ==
    ASSUME FlagType, CountType, ChannelType, TableType, TableInv, IdsInv, SlotsInv,
           MaxIds <= MAX_MESSAGE_HANDLERS, NEW t \in Topics, Subscribe(t)
    PROVE  IdsInv' /\ SlotsInv'
<1> DEFINE packet == [type |-> "SUBSCRIBE", id |-> nextPacketId', topic |-> t]
<1>1. /\ toServer' \in {toServer, Append(toServer, packet)}
      /\ UNCHANGED <<toClient, granted>> /\ nextPacketId < MaxIds
  BY Zenon DEF Subscribe, SendPacket, server
<1>2. PICK m \in Slots :
         /\ messageHandlers[m].topicFilter = NoTopic
         /\ messageHandlers' = [messageHandlers EXCEPT
               ![m] = [msgId |-> nextPacketId', topicFilter |-> t]]
  BY SubscribeTable
<1>3. nextPacketId' = nextPacketId + 1 /\ nextPacketId \in 0..MaxIds
  BY SubscribeTable DEF CountType
<1>4. packet \in ToServer
  BY <1>1, <1>3 DEF ToServer
<1>5. \A i \in DOMAIN toServer' :
         \/ i \in DOMAIN toServer /\ toServer'[i] = toServer[i]
         \/ i = Len(toServer) + 1 /\ toServer'[i] = packet
  BY <1>1, <1>4, AppendIn DEF ChannelType
<1>6. \A i : /\ Subscription(i) => i \in DOMAIN toServer
             /\ Answer(i) => i \in DOMAIN toClient
             /\ Answer(i)' <=> Answer(i)
             /\ i \in DOMAIN toServer' /\ Subscription(i)' =>
                   \/ Subscription(i) /\ toServer'[i] = toServer[i]
                   \/ i = Len(toServer) + 1 /\ toServer'[i] = packet
  BY <1>1, <1>5 DEF Subscription, Answer
<1>7. /\ messageHandlers'[m] = [msgId |-> nextPacketId + 1, topicFilter |-> t]
      /\ \A s \in Slots \ {m} : messageHandlers'[s] = messageHandlers[s]
  BY <1>2, <1>3 DEF TableType
<1>8. /\ \A i \in DOMAIN toServer : Subscription(i) =>
            toServer[i].id \in Nat /\ toServer[i].id <= nextPacketId
      /\ \A i \in DOMAIN toClient : Answer(i) =>
            toClient[i].id \in Nat /\ toClient[i].id <= nextPacketId
  <2>1. \A i \in DOMAIN toServer : toServer[i] \in ToServer
    BY DEF ChannelType
  <2>2. \A i \in DOMAIN toClient : toClient[i] \in ToClient
    BY DEF ChannelType
  <2>3. \A p \in ToServer : p.type = "SUBSCRIBE" => p.id \in Nat
    BY DEF ToServer
  <2>4. \A p \in ToClient : p.type = "SUBACK" => p.id \in Nat
    BY DEF ToClient
  <2> QED
    BY <2>1, <2>2, <2>3, <2>4 DEF IdsInv, Subscription, Answer
<1>9. packet.id = nextPacketId + 1 /\ packet.topic = t
  BY <1>3
<1> HIDE DEF packet
<1>10. IdsInv'
  <2>1. \A i \in DOMAIN toServer' : Subscription(i)' =>
            toServer'[i].id <= nextPacketId'
    BY <1>3, <1>6, <1>8, <1>9
  <2>2. \A i \in DOMAIN toClient' : Answer(i)' => toClient'[i].id <= nextPacketId'
    BY <1>1, <1>3, <1>6, <1>8
  <2>3. \A i \in DOMAIN toServer', j \in DOMAIN toClient' :
           Subscription(i)' /\ Answer(j)' => toServer'[i].id # toClient'[j].id
    BY <1>1, <1>3, <1>6, <1>8, <1>9 DEF IdsInv
  <2>4. \A i, j \in DOMAIN toServer' :
           Subscription(i)' /\ Subscription(j)' /\ toServer'[i].id = toServer'[j].id
              => i = j
    BY <1>3, <1>6, <1>8, <1>9 DEF IdsInv
  <2> QED
    BY <2>1, <2>2, <2>3, <2>4 DEF IdsInv
<1>11. ASSUME NEW s \in Slots, messageHandlers[s].topicFilter \in Topics
       PROVE  s # m /\ messageHandlers'[s] = messageHandlers[s]
  BY <1>2, <1>7, <1>11
<1>12. ASSUME NEW i \in DOMAIN toServer', Subscription(i)'
       PROVE  \E s \in Slots : messageHandlers'[s] = [msgId |-> toServer'[i].id,
                                              topicFilter |-> toServer'[i].topic]
  <2>1. CASE Subscription(i) /\ toServer'[i] = toServer[i]
    <3>1. PICK s \in Slots : messageHandlers[s] = [msgId |-> toServer[i].id,
                                              topicFilter |-> toServer[i].topic]
      BY <1>6, <2>1 DEF SlotsInv
    <3>2. toServer[i].topic \in Topics
      <4>1. toServer[i] \in ToServer /\ toServer[i].type = "SUBSCRIBE"
        BY <2>1 DEF Subscription, ChannelType
      <4> QED
        BY <4>1 DEF ToServer
    <3> QED
      BY <1>11, <2>1, <3>1, <3>2
  <2>2. CASE toServer'[i] = packet
    BY <1>7, <1>9, <2>2
  <2> QED
    BY <1>6, <1>12, <2>1, <2>2
<1>13. ASSUME NEW u \in granted'
       PROVE  \E s \in Slots : messageHandlers'[s].topicFilter = u /\ Safe(s)'
  <2>1. PICK s \in Slots : messageHandlers[s].topicFilter = u /\ Safe(s)
    BY <1>1 DEF SlotsInv
  <2>2. messageHandlers'[s] = messageHandlers[s]
    BY <1>1, <1>11, <2>1 DEF CountType
  <2>3. messageHandlers[s].msgId # packet.id
    BY <1>3, <1>9 DEF TableInv, TableType
  <2>4. \A i \in DOMAIN toServer' : Subscription(i)' =>
            toServer'[i].id # messageHandlers'[s].msgId
    BY <1>6, <2>1, <2>2, <2>3 DEF Safe
  <2>5. \A i \in DOMAIN toClient' :
            Answer(i)' /\ toClient'[i].id = messageHandlers'[s].msgId
              => toClient'[i].ok
    BY <1>1, <1>6, <2>1, <2>2 DEF Safe
  <2>6. Safe(s)'
    BY <2>4, <2>5 DEF Safe
  <2> QED
    BY <2>1, <2>2, <2>6
<1> QED
  BY <1>10, <1>12, <1>13 DEF SlotsInv

LEMMA NextHandler ==
    ASSUME FlagType, CountType, ChannelType, ChannelType', TableType, ConnectInv,
           TableInv, IdsInv, SlotsInv, MaxIds <= MAX_MESSAGE_HANDLERS, [Next]_vars
    PROVE  IdsInv' /\ SlotsInv'
<1> USE DEF table, channels, server
<1>1. CASE Start
  BY <1>1, NothingNew, SameChannels, Zenon DEF Start
<1>2. CASE InitInstaMsg
  <2>0. PICK ok, known \in BOOLEAN :
           SendPacket([type |-> "CONNECT", known |-> known], TRUE, FALSE, ok)
    BY <1>2, InitInstaMsgSteps
  <2> DEFINE packet == [type |-> "CONNECT", known |-> known]
  <2>1. /\ toServer' \in {toServer, Append(toServer, packet)} /\ toServer = <<>>
        /\ toClient = <<>> /\ toClient' = <<>> /\ granted' = {}
    BY <1>2, <2>0, Zenon DEF InitInstaMsg, SendPacket, ConnectInv, NoConnection
  <2>2. \A i : ~Subscription(i)' /\ ~Answer(i)'
    BY <2>1 DEF Subscription, Answer
  <2> QED
    BY <2>1, <2>2, Zenon DEF IdsInv, SlotsInv
<1>3. CASE InitWithoutHeap
  <2>1. toServer' = <<>> /\ toClient' = <<>> /\ granted' = {}
    BY <1>3, Zenon DEF InitWithoutHeap, ConnectInv, NoConnection
  <2> QED
    BY <2>1 DEF IdsInv, SlotsInv
<1>4. CASE Connack
  <2>1. /\ toServer' \in {toServer, Append(toServer, [type |-> "NOTIFICATION"])}
        /\ toClient # <<>> /\ toClient' = Tail(toClient)
        /\ UNCHANGED table /\ granted' = granted
    BY <1>4, Zenon DEF Connack, Reading, Received, SendPacket
  <2>2. [type |-> "NOTIFICATION"] \in ToServer
    BY DEF ToServer
  <2>3. NoNewSubscription
    BY <2>1, <2>2, OtherPacket
  <2> QED
    BY <2>1, <2>3, AnswerTaken, NothingNew
<1>5. ASSUME NEW t \in Topics, Subscribe(t) PROVE IdsInv' /\ SlotsInv'
  BY <1>5, SubscribeSlots
<1>6. CASE SendPingReqToServer
  <2>1. /\ toServer' \in {toServer, Append(toServer, [type |-> "PINGREQ"])}
        /\ toClient' = toClient /\ UNCHANGED table /\ granted' = granted
    BY <1>6, Zenon DEF SendPingReqToServer, SendPacket
  <2>2. [type |-> "PINGREQ"] \in ToServer
    BY DEF ToServer
  <2>3. NoNewSubscription
    BY <2>1, <2>2, OtherPacket
  <2> QED
    BY <2>1, <2>3, SameChannels, NothingNew
<1>7. CASE ServerAnswers
  <2>1. CASE Head(toServer).type = "SUBSCRIBE"
    BY <1>7, <2>1, AnswerSlots
  <2>2. CASE Head(toServer).type # "SUBSCRIBE"
    <3>1. /\ toServer # <<>> /\ Head(toServer).type # "NOTIFICATION"
          /\ toServer' = Tail(toServer) /\ UNCHANGED table
      BY <1>7, Zenon DEF ServerAnswers
    <3>2. PICK answer \in Answers(Head(toServer)) :
             /\ toClient' = Append(toClient, answer)
             /\ granted' = IF answer.type = "SUBACK" /\ answer.ok
                           THEN granted \cup {Head(toServer).topic} ELSE granted
      BY <1>7, Zenon DEF ServerAnswers
    <3>3. Head(toServer) \in ToServer
      BY <3>1 DEF ChannelType
    <3>4. answer \in ToClient /\ answer.type # "SUBACK"
      BY <2>2, <3>1, <3>3, AnswerTypes
    <3>5. NoNewAnswer
      BY <3>2, <3>4, OtherAnswer
    <3> QED
      BY <3>1, <3>2, <3>4, <3>5, PacketTaken, NothingNew
  <2> QED
    BY <2>1, <2>2
<1>8. CASE ServerNotified
  BY <1>8, PacketTaken, SameChannels, NothingNew, Zenon DEF ServerNotified
<1>9. CASE ServerCommands
  <2>0. PICK type \in {"CERTIFICATE", "CONFIG"} :
           toClient' = Append(toClient, [type |-> type])
    BY <1>9, Zenon DEF ServerCommands
  <2>1. [type |-> type] \in ToClient /\ type # "SUBACK"
    BY DEF ToClient
  <2>2. /\ toServer' = toServer
        /\ toClient' = Append(toClient, [type |-> type])
        /\ UNCHANGED table /\ granted' = granted
    BY <1>9, <2>0, Zenon DEF ServerCommands
  <2>3. NoNewAnswer
    BY <2>1, <2>2, OtherAnswer
  <2> QED
    BY <2>2, <2>3, SameChannels, NothingNew
<1>10. CASE ClosingActions
  <2>1. Closes
    BY <1>10, ClosingCloses
  <2> QED
    BY <2>1 DEF Closes, IdsInv, SlotsInv
<1>11. CASE Suback
  BY <1>11, SubackSlots
<1>12. CASE QuietActions /\ ~Suback
  <2>1. Quiet
    BY <1>12, QuietIsQuiet
  <2>2. UNCHANGED table
    BY <1>12, Zenon
       DEF QuietActions, ProvisionWithCertificate, CertReceived, ConfigReceived,
           Pingresp,
           SaveCertificate, ReadFails, Waiting, PingAnswered, PingCycle,
           EndOfPass, Stabilise, vars
  <2>3. NoNewSubscription
    BY <2>1, SameChannels DEF Quiet
  <2>4. NoNewAnswer
    BY <2>1, SameChannels, AnswerTaken DEF Quiet
  <2> QED
    BY <2>1, <2>2, <2>3, <2>4, NothingNew DEF Quiet
<1> QED
  BY <1>1, <1>2, <1>3, <1>4, <1>5, <1>6, <1>7, <1>8, <1>9, <1>10, <1>11, <1>12,
     Steps

(* With a table that has room for every packet id that is used, a topic    *)
(* that the server has granted has its handler in messageHandlers: an id   *)
(* has one slot, and the one answer to it is all that can take it away.    *)
THEOREM GrantedIsHandled ==
    MaxIds <= MAX_MESSAGE_HANDLERS => (Spec => []HandlerForGranted)
<1> SUFFICES ASSUME MaxIds <= MAX_MESSAGE_HANDLERS
             PROVE  Spec => []HandlerForGranted
  OBVIOUS
<1> DEFINE Inv == ConnectInv /\ HandlerInv
<1>1. Init => Inv
  BY InitConnect, InitHandler
<1>2. TypeOK /\ TypeOK' /\ Inv /\ [Next]_vars => Inv'
  <2> SUFFICES ASSUME TypeOK, TypeOK', Inv, [Next]_vars PROVE Inv'
    OBVIOUS
  <2>1. FlagType /\ CountType /\ TableType /\ ChannelType
    BY TypeParts
  <2>2. ChannelType'
    BY <2>1, NextChannels
  <2>3. ConnectInv'
    BY <2>1, NextConnect
  <2>4. TableInv' /\ IdsInv' /\ SlotsInv'
    BY <2>1, <2>2, NextTableInv, NextHandler DEF HandlerInv
  <2> QED
    BY <2>3, <2>4 DEF HandlerInv, ConnectInv
<1>3. Inv => HandlerForGranted
  BY DEF HandlerInv, SlotsInv, HandlerForGranted
<1> HIDE DEF Inv
<1> QED
  BY <1>1, <1>2, <1>3, TypeCorrect, PTL DEF Spec

=============================================================================
