-------------------------------- MODULE Session --------------------------------
(***************************************************************************)
(* The session with the InstaMsg server (instamsg.c): provisioning, the    *)
(* connection, subscriptions and the keep-alive, from the start of the     *)
(* process to the next one, over connections that break and a server that  *)
(* may refuse or be silent.  What is published with guarantee is in module *)
(* Delivery.                                                               *)
(***************************************************************************)
EXTENDS Integers, Sequences, FiniteSets

CONSTANTS
    Topics, NoTopic,
    MAX_MESSAGE_HANDLERS,
    MAX_CYCLES_TO_WAIT_FOR_PINGRESP,
    MAX_CONN_ATTEMPTS_WITH_PHYSICAL_LAYER_FINE,
    SignedChar,         \* the compiler's char is signed, see RecognisesRefusal
    ExitsOnClear,       \* clearInstaMsg may exit: TRUE with media streaming
    HeapMayFail,        \* sg_malloc may return NULL
    MaxIds,             \* bound: packet ids used before they would wrap
    MaxInFlight         \* bound: packets on the connection

ASSUME SessionAssumption ==
    /\ NoTopic \notin Topics
    /\ {MAX_MESSAGE_HANDLERS, MAX_CYCLES_TO_WAIT_FOR_PINGRESP, MaxIds,
        MaxInFlight} \subseteq Nat \ {0}
    /\ MAX_CONN_ATTEMPTS_WITH_PHYSICAL_LAYER_FINE \in Nat
    /\ ExitsOnClear # {} /\ ExitsOnClear \subseteq BOOLEAN
    /\ SignedChar \in BOOLEAN /\ HeapMayFail \in BOOLEAN

VARIABLES
    pc,
    \* on the device's storage: the secret, what is there of the certificate
    \* that was issued last
    secret, certificate,
    socketOk, connected, sendPacketIrrespective, notifyServerOfSecretReceived,
    pinging,                        \* pingRequestInterval # 0
    pingReqResponsePending, pingRespAttempts, rebootPending,
    connectionAttempts,
    messageHandlers, nextPacketId,
    toServer, toClient,             \* the connection
    greeted, granted, notified,     \* the server
    stable,                         \* network, server, heap and power behave
    \* history: the server issued a certificate, and neither a crash nor a
    \* lack of heap came between the steps that save it; the secret was lost
    \* with another setting's save that had no heap, and no other has come
    \* since; MQTTConnect had no heap to connect with
    issued, forgotten, noConnect

disk      == <<secret, certificate, issued, forgotten>>
link      == <<socketOk, connected, sendPacketIrrespective,
               notifyServerOfSecretReceived, connectionAttempts, noConnect>>
keepalive == <<pinging, pingReqResponsePending, pingRespAttempts, rebootPending>>
table     == <<messageHandlers, nextPacketId>>
channels  == <<toServer, toClient>>
server    == <<greeted, granted, notified>>
vars == <<pc, disk, link, keepalive, table, channels, server, stable>>

Slots == 1..MAX_MESSAGE_HANDLERS

EmptyTable == [s \in Slots |-> [msgId |-> 0, topicFilter |-> NoTopic]]

(* The end of a connection.                                                *)
Disconnected ==
    /\ toServer' = <<>> /\ toClient' = <<>>
    /\ greeted' = FALSE /\ granted' = {}
    /\ connected' = FALSE

(* exitApp(): what is not on the storage is lost.                          *)
ExitApp ==
    /\ pc' = "down"
    /\ Disconnected
    /\ socketOk' = FALSE /\ sendPacketIrrespective' = FALSE
    /\ notifyServerOfSecretReceived' = FALSE /\ connectionAttempts' = 0
    /\ pinging' = FALSE /\ pingReqResponsePending' = FALSE
    /\ pingRespAttempts' = 0 /\ rebootPending' = FALSE /\ noConnect' = FALSE
    /\ messageHandlers' = EmptyTable /\ nextPacketId' = 0

(* Mutant: the permission outlives the packet it was given for. *)
SendPacketKeepingPermission(packet, irrespective, isConnected, ok) ==
    /\ sendPacketIrrespective' = irrespective
    /\ IF ok /\ (irrespective \/ isConnected)
       THEN \/ toServer' = Append(toServer, packet) /\ socketOk' = ok
            \/ ~stable /\ socketOk' = FALSE /\ UNCHANGED toServer
       ELSE socketOk' = ok /\ UNCHANGED toServer

(* sendPacket, with the values its caller may just have set: the           *)
(* permission is used up by the packet that passes, and by no other.       *)
SendPacket(packet, irrespective, isConnected, ok) ==
    IF ok /\ (irrespective \/ isConnected)
    THEN /\ sendPacketIrrespective' = FALSE
         /\ \/ toServer' = Append(toServer, packet) /\ socketOk' = ok
            \/ ~stable /\ socketOk' = FALSE /\ UNCHANGED toServer
    ELSE /\ sendPacketIrrespective' = irrespective
         /\ socketOk' = ok /\ UNCHANGED toServer

(* save_config_value_on_persistent_storage, for the secret and for another *)
(* setting.  Without heap no other setting is copied into the new file.    *)
SaveSecret == secret' = TRUE /\ forgotten' = FALSE

SaveSetting ==
    \/ UNCHANGED <<secret, forgotten>>
    \/ /\ HeapMayFail /\ ~stable
       /\ secret' = FALSE /\ forgotten' = (forgotten \/ secret)

-----------------------------------------------------------------------------
(* initInstaMsg                                                            *)

Start ==
    /\ pc = "down"
    /\ pc' = "init"
    /\ UNCHANGED <<disk, link, keepalive, table, channels, server, stable>>

InitTables ==
    /\ messageHandlers' = EmptyTable /\ nextPacketId' = 0
    /\ connected' = FALSE /\ rebootPending' = FALSE

(* The secret is looked for, which finds nothing without heap.             *)
Found(known) ==
    /\ known => secret'
    /\ known \/ ~secret' \/ (HeapMayFail /\ ~stable)

(* Mutant: only PROVACK asks for the notification, before its exit. *)
InitForgettingSecret ==
    /\ pc = "init"
    /\ pc' = "loop" /\ InitTables
    /\ \E ok, known \in BOOLEAN :
        /\ ok \/ ~stable
        /\ IF ok THEN UNCHANGED <<secret, forgotten>> ELSE SaveSetting
        /\ Found(known)
        /\ pinging' = (pinging \/ ~ok)
        /\ SendPacket([type |-> "CONNECT", known |-> known], TRUE, FALSE, ok)
    /\ noConnect' = FALSE
    /\ UNCHANGED <<certificate, issued, notifyServerOfSecretReceived,
                   connectionAttempts, pingReqResponsePending, pingRespAttempts,
                   toClient, server, stable>>

(* The socket connects or not.  Without a socket the connection is         *)
(* SIMULATED, which registers the settings.  Then MQTTConnect sends its    *)
(* packet: with the secret of the storage, or to be given one.             *)
InitInstaMsg ==
    /\ pc = "init"
    /\ pc' = "loop" /\ InitTables
    /\ \E ok, known \in BOOLEAN :
        /\ ok \/ ~stable
        /\ IF ok THEN UNCHANGED <<secret, forgotten>> ELSE SaveSetting
        /\ Found(known)
        /\ pinging' = (pinging \/ ~ok)
        /\ SendPacket([type |-> "CONNECT", known |-> known], TRUE, FALSE, ok)
        /\ notifyServerOfSecretReceived' = (notifyServerOfSecretReceived \/ known)
    /\ noConnect' = FALSE
    /\ UNCHANGED <<certificate, issued, connectionAttempts,
                   pingReqResponsePending, pingRespAttempts, toClient, server,
                   stable>>

(* There is no heap for the secret, and MQTTConnect sends nothing.  The    *)
(* notification of a SIMULATED connection leaves its permission unused.    *)
InitWithoutHeap ==
    /\ pc = "init" /\ secret /\ HeapMayFail /\ ~stable
    /\ pc' = "loop" /\ InitTables
    /\ socketOk' \in BOOLEAN /\ noConnect' = TRUE
    /\ pinging' = (pinging \/ ~socketOk')
    /\ sendPacketIrrespective' =
          (sendPacketIrrespective \/ (~socketOk' /\ notifyServerOfSecretReceived))
    /\ UNCHANGED <<disk, notifyServerOfSecretReceived, connectionAttempts,
                   pingReqResponsePending, pingRespAttempts, channels, server,
                   stable>>

-----------------------------------------------------------------------------
(* readAndProcessIncomingMQTTPacketsIfAny, in the main loop or in          *)
(* waitForPingResp                                                         *)

Reading(type) ==
    /\ pc \in {"loop", "ping"} /\ socketOk
    /\ toClient # <<>> /\ Head(toClient).type = type

Received == toClient' = Tail(toClient)

(* handleConnOrProvAckGeneric: the settings are registered, each of which  *)
(* is saved, the session data and the notification are published.          *)
Connack ==
    /\ Reading("CONNACK") /\ Head(toClient).ok
    /\ Received
    /\ connected' = TRUE /\ pinging' = TRUE
    /\ SaveSetting
    /\ IF notifyServerOfSecretReceived
       THEN SendPacket([type |-> "NOTIFICATION"], TRUE, TRUE, socketOk)
       ELSE UNCHANGED <<toServer, socketOk, sendPacketIrrespective>>
    /\ UNCHANGED <<pc, certificate, issued, notifyServerOfSecretReceived,
                   connectionAttempts, noConnect, pingReqResponsePending,
                   pingRespAttempts, rebootPending, table, server, stable>>

Refused ==
    /\ Reading("CONNACK") \/ Reading("PROVACK")
    /\ ~Head(toClient).ok
    /\ ExitApp
    /\ UNCHANGED <<disk, notified, stable>>

(* PROVACK with code 0: the client id, perhaps with a secret to be saved.  *)
Provision ==
    /\ Reading("PROVACK") /\ Head(toClient).ok
    /\ Head(toClient).with \in {"id", "secret"}
    /\ IF Head(toClient).with = "secret"
       THEN SaveSecret ELSE UNCHANGED <<secret, forgotten>>
    /\ ExitApp
    /\ UNCHANGED <<certificate, issued, notified, stable>>

(* PROVACK with code 6: the secret is saved first, if there is heap.       *)
ProvisionWithCertificate ==
    /\ Reading("PROVACK") /\ Head(toClient).ok
    /\ Head(toClient).with = "certificate"
    /\ SaveSecret /\ issued' = TRUE /\ certificate' = {}
    /\ Received
    /\ pc' = "certificate"
    /\ UNCHANGED <<link, keepalive, table, toServer, server, stable>>

(* handleCertReceived: the server sends another certificate.               *)
CertReceived ==
    /\ Reading("CERTIFICATE")
    /\ issued' = TRUE /\ certificate' = {}
    /\ Received
    /\ pc' = "certificate"
    /\ UNCHANGED <<secret, forgotten, link, keepalive, table, toServer, server,
                   stable>>

(* handleConfigReceived: the server edits a setting.                       *)
ConfigReceived ==
    /\ Reading("CONFIG")
    /\ Received
    /\ SaveSetting
    /\ UNCHANGED <<pc, certificate, issued, link, keepalive, table, toServer,
                   server, stable>>

NoHeapToProvision ==
    /\ Reading("PROVACK") /\ Head(toClient).ok
    /\ Head(toClient).with = "certificate"
    /\ HeapMayFail /\ ~stable
    /\ ExitApp
    /\ UNCHANGED <<disk, notified, stable>>

(* Mutant: the process ends when the certificate is saved. *)
SaveOnlyCertificate ==
    /\ pc = "certificate"
    /\ certificate' = {"certificate"}
    /\ ExitApp
    /\ UNCHANGED <<secret, forgotten, issued, notified, stable>>

(* processCertificateInfoIfAny saves the certificate and then its key.     *)
SaveCertificate ==
    /\ pc = "certificate"
    /\ certificate' = {"certificate"}
    /\ pc' = "key"
    /\ UNCHANGED <<secret, forgotten, issued, link, keepalive, table, channels,
                   server, stable>>

SaveKey ==
    /\ pc = "key"
    /\ certificate' = {"certificate", "key"}
    /\ ExitApp
    /\ UNCHANGED <<secret, forgotten, issued, notified, stable>>

NoHeapForCertificate ==
    /\ pc \in {"certificate", "key"} /\ HeapMayFail /\ ~stable
    /\ issued' = FALSE
    /\ ExitApp
    /\ UNCHANGED <<secret, forgotten, certificate, notified, stable>>

(* The code 0x80 is read through a char and compared as an int.            *)
RecognisesRefusal == ~SignedChar

(* Mutant: the handler goes although the subscription was granted. *)
SubackForAny ==
    /\ Reading("SUBACK")
    /\ Received
    /\ \E s \in Slots :
        /\ messageHandlers[s].msgId = Head(toClient).id
        /\ messageHandlers' = [messageHandlers EXCEPT ![s].topicFilter = NoTopic]
    /\ UNCHANGED <<pc, disk, link, keepalive, nextPacketId, toServer, server,
                   stable>>

(* A refused subscription loses its handler: the first with its packet id. *)
Suback ==
    /\ Reading("SUBACK")
    /\ Received
    /\ LET slots == {s \in Slots : messageHandlers[s].msgId = Head(toClient).id}
       IN  messageHandlers' =
             [s \in Slots |->
                IF ~Head(toClient).ok /\ RecognisesRefusal
                     /\ s \in slots /\ \A t \in slots : s <= t
                THEN [messageHandlers[s] EXCEPT !.topicFilter = NoTopic]
                ELSE messageHandlers[s]]
    /\ UNCHANGED <<pc, disk, link, keepalive, nextPacketId, toServer, server,
                   stable>>

Pingresp ==
    /\ Reading("PINGRESP")
    /\ Received
    /\ pingReqResponsePending' = FALSE
    /\ UNCHANGED <<pc, disk, link, pinging, pingRespAttempts, rebootPending,
                   table, toServer, server, stable>>

ReadFails ==
    /\ pc \in {"loop", "ping"} /\ socketOk /\ ~stable
    /\ socketOk' = FALSE
    /\ UNCHANGED <<pc, disk, connected, sendPacketIrrespective,
                   notifyServerOfSecretReceived, connectionAttempts, noConnect,
                   keepalive, table, channels, server, stable>>

-----------------------------------------------------------------------------
(* The bound on the packets on their way.                                  *)
MaySend == Len(toServer) + Len(toClient) < MaxInFlight

(* subscribe(), from the application or one of its callbacks: the handler  *)
(* is entered first, in the first free slot if there is one.               *)
Subscribe(t) ==
    /\ pc \in {"loop", "ping"} /\ nextPacketId < MaxIds /\ MaySend
    /\ nextPacketId' = nextPacketId + 1
    /\ LET free == {s \in Slots : messageHandlers[s].topicFilter = NoTopic}
       IN  messageHandlers' =
             [s \in Slots |->
                IF s \in free /\ \A r \in free : s <= r
                THEN [msgId |-> nextPacketId', topicFilter |-> t]
                ELSE messageHandlers[s]]
    /\ SendPacket([type |-> "SUBSCRIBE", id |-> nextPacketId', topic |-> t],
                  sendPacketIrrespective, connected, socketOk)
    /\ UNCHANGED <<pc, disk, connected, notifyServerOfSecretReceived,
                   connectionAttempts, noConnect, keepalive, toClient, server,
                   stable>>

-----------------------------------------------------------------------------
(* The keep-alive                                                          *)

(* What a stable server has to answer is answered before a read times out. *)
NothingToRead == (stable /\ socketOk) => toServer = <<>> /\ toClient = <<>>

SendPingReqToServer ==
    /\ pc = "loop" /\ pinging /\ socketOk /\ MaySend
    /\ pc' = "ping"
    /\ pingReqResponsePending' = TRUE
    /\ SendPacket([type |-> "PINGREQ"], sendPacketIrrespective, connected, socketOk)
    /\ UNCHANGED <<disk, connected, notifyServerOfSecretReceived,
                   connectionAttempts, noConnect, pinging, pingRespAttempts,
                   rebootPending, table, toClient, server, stable>>

PingAnswered ==
    /\ pc = "ping" /\ NothingToRead /\ ~pingReqResponsePending
    /\ pc' = "loop"
    /\ UNCHANGED <<disk, link, keepalive, table, channels, server, stable>>

(* Mutant: the count begins anew with each cycle. *)
PingCycleForgotten ==
    /\ pc = "ping" /\ NothingToRead /\ pingReqResponsePending
    /\ IF 1 < MAX_CYCLES_TO_WAIT_FOR_PINGRESP
       THEN /\ pingRespAttempts' = 1
            /\ UNCHANGED <<pc, rebootPending>>
       ELSE pc' = "loop" /\ pingRespAttempts' = 0 /\ rebootPending' = TRUE
    /\ UNCHANGED <<disk, link, pinging, pingReqResponsePending, table, channels,
                   server, stable>>

(* Mutant: one cycle too many. *)
PingCycleTooMany ==
    /\ pc = "ping" /\ NothingToRead /\ pingReqResponsePending
    /\ IF pingRespAttempts < MAX_CYCLES_TO_WAIT_FOR_PINGRESP
       THEN /\ pingRespAttempts' = pingRespAttempts + 1
            /\ UNCHANGED <<pc, rebootPending>>
       ELSE pc' = "loop" /\ pingRespAttempts' = 0 /\ rebootPending' = TRUE
    /\ UNCHANGED <<disk, link, pinging, pingReqResponsePending, table, channels,
                   server, stable>>

(* A cycle of waitForPingResp without an answer.  The counter outlives the *)
(* ping it was counted for.                                                *)
PingCycle ==
    /\ pc = "ping" /\ NothingToRead /\ pingReqResponsePending
    /\ IF pingRespAttempts + 1 < MAX_CYCLES_TO_WAIT_FOR_PINGRESP
       THEN /\ pingRespAttempts' = pingRespAttempts + 1
            /\ UNCHANGED <<pc, rebootPending>>
       ELSE pc' = "loop" /\ pingRespAttempts' = 0 /\ rebootPending' = TRUE
    /\ UNCHANGED <<disk, link, pinging, pingReqResponsePending, table, channels,
                   server, stable>>

-----------------------------------------------------------------------------
(* The rest of a pass of the main loop                                     *)

Reboot ==
    /\ pc = "loop" /\ rebootPending
    /\ ExitApp
    /\ UNCHANGED <<disk, notified, stable>>

(* Mutant: the passes are not counted. *)
EndOfPassUncounted ==
    /\ pc = "loop" /\ NothingToRead /\ socketOk /\ ~connected
    /\ UNCHANGED vars

(* No connection yet: after some passes the socket is given up.            *)
EndOfPass ==
    /\ pc = "loop" /\ NothingToRead /\ socketOk /\ ~connected
    /\ IF connectionAttempts < MAX_CONN_ATTEMPTS_WITH_PHYSICAL_LAYER_FINE
       THEN connectionAttempts' = connectionAttempts + 1 /\ UNCHANGED socketOk
       ELSE connectionAttempts' = 0 /\ socketOk' = FALSE
    /\ UNCHANGED <<pc, disk, connected, sendPacketIrrespective,
                   notifyServerOfSecretReceived, noConnect, keepalive, table,
                   channels, server, stable>>

ClearInstaMsg ==
    /\ pc = "loop" /\ ~socketOk
    /\ \E exits \in ExitsOnClear :
        IF exits
        THEN ExitApp
        ELSE /\ pc' = "init" /\ Disconnected
             /\ UNCHANGED <<socketOk, sendPacketIrrespective,
                            notifyServerOfSecretReceived, connectionAttempts,
                            noConnect, keepalive, table>>
    /\ UNCHANGED <<disk, notified, stable>>

Crash ==
    /\ pc # "down" /\ ~stable
    /\ issued' = (issued /\ pc \notin {"certificate", "key"})
    /\ ExitApp
    /\ UNCHANGED <<secret, forgotten, certificate, notified, stable>>

-----------------------------------------------------------------------------
(* The server.  A connection with an empty id asks for provisioning.       *)

Answers(packet) ==
    CASE packet.type = "CONNECT" /\ packet.known ->
            [type : {"CONNACK"}, ok : IF stable THEN {TRUE} ELSE BOOLEAN]
      [] packet.type = "CONNECT" /\ ~packet.known ->
            [type : {"PROVACK"}, ok : IF stable THEN {TRUE} ELSE BOOLEAN,
             with : IF stable THEN {"secret", "certificate"}
                              ELSE {"id", "secret", "certificate"}]
      [] packet.type = "SUBSCRIBE" ->
            [type : {"SUBACK"}, id : {packet.id}, ok : BOOLEAN]
      [] OTHER -> [type : {"PINGRESP"}]

ServerAnswers ==
    /\ toServer # <<>> /\ Head(toServer).type # "NOTIFICATION"
    /\ toServer' = Tail(toServer)
    /\ \E answer \in Answers(Head(toServer)) :
        /\ toClient' = Append(toClient, answer)
        /\ greeted' = (greeted \/ (answer.type = "CONNACK" /\ answer.ok))
        /\ granted' = IF answer.type = "SUBACK" /\ answer.ok
                      THEN granted \cup {Head(toServer).topic}
                      ELSE granted
    /\ UNCHANGED <<pc, disk, link, keepalive, table, notified, stable>>

ServerNotified ==
    /\ toServer # <<>> /\ Head(toServer).type = "NOTIFICATION"
    /\ toServer' = Tail(toServer)
    /\ notified' = TRUE
    /\ UNCHANGED <<pc, disk, link, keepalive, table, toClient, greeted, granted,
                   stable>>

(* A new certificate or an edited setting, for a device that is connected; *)
(* bound: when nothing else is under way.                                  *)
ServerCommands ==
    /\ greeted /\ ~stable /\ toServer = <<>> /\ toClient = <<>>
    /\ \E type \in {"CERTIFICATE", "CONFIG"} :
          toClient' = Append(toClient, [type |-> type])
    /\ UNCHANGED <<pc, disk, link, keepalive, table, toServer, server, stable>>

Stabilise ==
    /\ ~stable
    /\ stable' = TRUE
    /\ UNCHANGED <<pc, disk, link, keepalive, table, channels, server>>

-----------------------------------------------------------------------------
Init ==
    /\ pc = "down"
    /\ secret = FALSE /\ certificate = {}
    /\ issued = FALSE /\ forgotten = FALSE
    /\ socketOk = FALSE /\ connected = FALSE /\ sendPacketIrrespective = FALSE
    /\ notifyServerOfSecretReceived = FALSE /\ connectionAttempts = 0
    /\ noConnect = FALSE
    /\ pinging = FALSE /\ pingReqResponsePending = FALSE
    /\ pingRespAttempts = 0 /\ rebootPending = FALSE
    /\ messageHandlers = EmptyTable /\ nextPacketId = 0
    /\ toServer = <<>> /\ toClient = <<>>
    /\ greeted = FALSE /\ granted = {} /\ notified = FALSE /\ stable = FALSE

Packet ==
    \/ Connack \/ Refused \/ Provision \/ ProvisionWithCertificate
    \/ NoHeapToProvision \/ CertReceived \/ ConfigReceived \/ Suback
    \/ Pingresp

Provisioning == SaveCertificate \/ SaveKey \/ NoHeapForCertificate

Initialising == InitInstaMsg \/ InitWithoutHeap

Waiting == PingAnswered \/ PingCycle

Server == ServerAnswers \/ ServerNotified

Next ==
    \/ Start \/ Initialising \/ Packet \/ Provisioning \/ ReadFails
    \/ \E t \in Topics : Subscribe(t)
    \/ SendPingReqToServer \/ Waiting
    \/ Reboot \/ EndOfPass \/ ClearInstaMsg \/ Crash
    \/ Server \/ ServerCommands \/ Stabilise

(* The one thread goes on, pass after pass whatever else it has to do, and *)
(* the script restarts the process.  Only a stable server has to answer.   *)
Spec ==
    /\ Init /\ [][Next]_vars
    /\ WF_vars(Start) /\ WF_vars(Initialising) /\ WF_vars(Packet)
    /\ WF_vars(Provisioning) /\ WF_vars(Waiting)
    /\ SF_vars(Reboot) /\ SF_vars(EndOfPass) /\ SF_vars(ClearInstaMsg)
    /\ WF_vars(stable /\ Server)

-----------------------------------------------------------------------------
(* Properties                                                              *)

ToServer == [type : {"CONNECT"}, known : BOOLEAN]
            \cup [type : {"NOTIFICATION", "PINGREQ"}]
            \cup [type : {"SUBSCRIBE"}, id : 1..MaxIds, topic : Topics]

ToClient == [type : {"CONNACK"}, ok : BOOLEAN]
            \cup [type : {"PROVACK"}, ok : BOOLEAN,
                  with : {"id", "secret", "certificate"}]
            \cup [type : {"SUBACK"}, id : 1..MaxIds, ok : BOOLEAN]
            \cup [type : {"PINGRESP", "CERTIFICATE", "CONFIG"}]

(* The type of every variable. *)
TypeOK ==
    /\ pc \in {"down", "init", "loop", "ping", "certificate", "key"}
    /\ {secret, issued, forgotten, socketOk, connected, sendPacketIrrespective,
        notifyServerOfSecretReceived, noConnect, pinging,
        pingReqResponsePending, rebootPending, greeted, notified, stable}
          \subseteq BOOLEAN
    /\ certificate \subseteq {"certificate", "key"}
    /\ pingRespAttempts \in 0..(MAX_CYCLES_TO_WAIT_FOR_PINGRESP - 1)
    /\ connectionAttempts \in 0..MAX_CONN_ATTEMPTS_WITH_PHYSICAL_LAYER_FINE
    /\ messageHandlers \in [Slots -> [msgId : 0..MaxIds,
                                      topicFilter : Topics \cup {NoTopic}]]
    /\ nextPacketId \in 0..MaxIds
    /\ toServer \in Seq(ToServer) /\ toClient \in Seq(ToClient)
    /\ granted \subseteq Topics

(* Nothing but CONNECT leaves the device before the server has accepted    *)
(* the connection: sendPacketIrrespective lets one packet pass, and is     *)
(* never left set on a connection it was not meant for.  The exception is  *)
(* an MQTTConnect that had no heap and sent nothing.                       *)
ConnectFirst ==
    \A i \in DOMAIN toServer :
        toServer[i].type # "CONNECT" => greeted \/ noConnect

(* The certificate that was issued last, with the secret or later, and its *)
(* key are both on the device, or being saved, unless power or heap failed *)
(* between the steps that save them.  The secret is there with them, unless*)
(* another setting was saved without heap since it came: neither a restart,*)
(* nor another provisioning, nor another certificate loses it.             *)
CertificateKept ==
    issued =>
        /\ certificate = {"certificate", "key"} \/ pc \in {"certificate", "key"}
        /\ secret \/ forgotten

(* What the server has granted has a handler: subscribe() enters it before *)
(* it sends, and no answer to another subscription removes it.  This needs *)
(* a table with room for all, and packet ids that do not wrap.             *)
HandlerForGranted ==
    \A t \in granted : \E s \in Slots : messageHandlers[s].topicFilter = t

(* The wait for a PINGRESP ends, answered or not, connected or not.        *)
PingEnds == pc = "ping" ~> pc # "ping"

(* A device does not stay without a connection on a socket that works.     *)
ConnectionEnds == pc = "loop" /\ ~connected ~> connected \/ pc \in {"init", "down"}

(* The server is told of the secret that was saved, however often the      *)
(* device was restarted before.                                            *)
SecretIsConfirmed == stable /\ secret ~> notified

=============================================================================
