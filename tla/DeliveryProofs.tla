--------------------------- MODULE DeliveryProofs ---------------------------
(* Theorems about Delivery, for every value of its constants.              *)
EXTENDS Delivery, FiniteSetTheorems, TLAPS

(* The constants' types, one by one.                                       *)
LEMMA Constants ==
    /\ MAX_PACKET_ID \in Nat \ {0}
    /\ MAX_CYCLES_TO_WAIT_FOR_PUBACK \in Nat \ {0}
    /\ MAX_CONNECTION_WAIT \in Nat \ {0}
    /\ MAX_DATA_RECORDS \in Nat \ {0}
    /\ MQTT_RESULT_HANDLER_TIMEOUT \in Nat
    /\ MAX_CONN_ATTEMPTS_WITH_PHYSICAL_LAYER_FINE \in Nat
    /\ Commands \subseteq CommandKinds
    /\ NoMsg \notin Msgs
BY ConstantsAssumption DEF ConstantsAssumption

USE Constants

(* Removing the last element of a sequence keeps it in the same Seq.       *)
LEMMA FrontType ==
    ASSUME NEW S, NEW s \in Seq(S), s # <<>>
    PROVE  Front(s) \in Seq(S)
BY DEF Front

(* SaveRecord appends to the log or to its tail.                           *)
LEMMA SaveRecordType ==
    ASSUME NEW S, NEW log \in Seq(S), NEW m \in S
    PROVE  SaveRecord(log, m) \in Seq(S)
<1>1. CASE Len(log) < MAX_DATA_RECORDS
  BY <1>1 DEF SaveRecord
<1>2. CASE ~(Len(log) < MAX_DATA_RECORDS)
  <2>1. log # <<>>
    BY <1>2
  <2>2. Tail(log) \in Seq(S)
    BY <2>1
  <2> QED
    BY <1>2, <2>2 DEF SaveRecord
<1> QED
  BY <1>1, <1>2

LEMMA AttachType ==
    ASSUME NEW table \in SUBSET Handlers, NEW id \in 1..MAX_PACKET_ID, NEW isNull
    PROVE  AttachResultHandler(table, id, isNull) \in SUBSET Handlers
BY DEF AttachResultHandler, Handlers

LEMMA ExpireType ==
    ASSUME NEW table \in SUBSET Handlers
    PROVE  ExpireHandlers(table) \in SUBSET Handlers
BY DEF ExpireHandlers, Handlers

LEMMA NextPacketIdType == AckType => NextPacketId \in 1..MAX_PACKET_ID
BY DEF AckType, NextPacketId

(* Every variable has its type at the start.                               *)
LEMMA InitType == Init => TypeOK
<1> SUFFICES ASSUME Init PROVE TypeOK
  OBVIOUS
<1>1. StackType
  BY DEF Init, StackType
<1>2. FlagType
  BY Zenon DEF Init, FlagType
<1>3. AckType
  <2>1. /\ pubAckMsgId = 0 /\ pubAckRecvAttempts = 0 /\ nextPacketId = 0
        /\ waitingForPuback = "WAITING_FOR_PUBACK" /\ lastPub = NoMsg
        /\ resultHandlers = {}
    BY Zenon DEF Init
  <2> QED
    BY <2>1 DEF AckType
<1>4. LoopType
  BY DEF Init, LoopType, Locations
<1>5. MessageType
  BY DEF Init, MessageType
<1>6. NetType
  BY DEF Init, NetType
<1> QED
  BY <1>1, <1>2, <1>3, <1>4, <1>5, <1>6 DEF TypeOK

(* The process ends: every variable it owns is reset.                      *)
LEMMA ExitType == TypeOK /\ Exit => TypeOK'
<1> SUFFICES ASSUME TypeOK, Exit PROVE TypeOK'
  OBVIOUS
<1>1. StackType'
  BY DEF Exit, StackType
<1>2. FlagType'
  BY Zenon DEF TypeOK, FlagType, Exit, serverVars
<1>3. AckType'
  <2>1. /\ pubAckMsgId' = 0 /\ pubAckRecvAttempts' = 0 /\ nextPacketId' = 0
        /\ waitingForPuback' = "WAITING_FOR_PUBACK" /\ lastPub' = NoMsg
        /\ resultHandlers' = {}
    BY Zenon DEF Exit
  <2> QED
    BY <2>1 DEF AckType
<1>4. LoopType'
  BY DEF Exit, LoopType, Locations
<1>5. MessageType'
  BY DEF TypeOK, MessageType, Exit, serverVars
<1>6. NetType'
  BY DEF TypeOK, NetType, Exit
<1> QED
  BY <1>1, <1>2, <1>3, <1>4, <1>5, <1>6 DEF TypeOK

(* saveFailedPublishedMessage stores a message, or leaves it held.         *)
LEMMA SaveFailedType ==
    ASSUME NEW m \in Msgs \cup {NoMsg}, NEW log \in Seq(Msgs \cup {NoMsg}),
           SaveFailedPublishedMessage(log, m)
    PROVE  /\ rebootPending' \in BOOLEAN
           /\ waitingForPuback' \in {"WAITING_FOR_PUBACK",
                                     "NOT_WAITING_FOR_PUBACK", "PUBACK_TIMEOUT"}
           /\ lastPub' \in Msgs \cup {NoMsg}
           /\ dataLog' \in Seq(Msgs \cup {NoMsg})
<1>1. rebootPending' \in BOOLEAN
  BY Zenon DEF SaveFailedPublishedMessage
<1>2. SaveRecord(log, m) \in Seq(Msgs \cup {NoMsg})
  BY SaveRecordType
<1> QED
  BY <1>1, <1>2 DEF SaveFailedPublishedMessage

(* What publish() changes keeps its type, whoever calls it.                *)
LEMMA PublishType ==
    ASSUME TypeOK, NEW m \in Msgs \cup {NoMsg}, NEW qos \in {1, 2}, NEW isNull,
           NEW log \in Seq(Msgs \cup {NoMsg}), Publish(m, qos, isNull, log)
    PROVE  /\ StackType' /\ AckType'
           /\ reading' \in BOOLEAN /\ ackSeen' \in BOOLEAN
           /\ socketCorrupted' \in BOOLEAN /\ rebootPending' \in BOOLEAN
           /\ dataLog' \in Seq(Msgs \cup {NoMsg})
           /\ handed' \in SUBSET (Msgs \cup {NoMsg})
           /\ toServer' \in Seq(ToServer)
<1> DEFINE id == NextPacketId
<1>1. id \in 1..MAX_PACKET_ID
  BY NextPacketIdType DEF TypeOK
<1> HIDE DEF id
<1>2. /\ nextPacketId' = id /\ pubAckMsgId' = id
      /\ handed' = handed \cup {m} /\ ackSeen' = FALSE
      /\ pubAckRecvAttempts' = pubAckRecvAttempts
  BY Zenon DEF Publish, id
<1>3. resultHandlers' \in SUBSET Handlers
  <2>1. AttachResultHandler(resultHandlers, id, isNull) \in SUBSET Handlers
    BY <1>1, AttachType DEF TypeOK, AckType
  <2> QED
    BY <2>1, Zenon DEF Publish, id, TypeOK, AckType
<1>4. \/ /\ waitingForPuback' = "WAITING_FOR_PUBACK"
         /\ lastPub' \in {m, NoMsg}
         /\ dataLog' = log
         /\ UNCHANGED rebootPending
      \/ SaveFailedPublishedMessage(log, m)
  BY Zenon DEF Publish
<1>5. /\ rebootPending' \in BOOLEAN
      /\ waitingForPuback' \in {"WAITING_FOR_PUBACK",
                                "NOT_WAITING_FOR_PUBACK", "PUBACK_TIMEOUT"}
      /\ lastPub' \in Msgs \cup {NoMsg}
      /\ dataLog' \in Seq(Msgs \cup {NoMsg})
  <2>1. CASE SaveFailedPublishedMessage(log, m)
    BY <2>1, SaveFailedType
  <2>2. CASE ~SaveFailedPublishedMessage(log, m)
    <3>1. rebootPending' \in BOOLEAN
      BY <2>2, <1>4, Zenon DEF TypeOK, FlagType
    <3> QED
      BY <3>1, <2>2, <1>4
  <2> QED
    BY <2>1, <2>2
<1>6. \/ /\ toServer' = Append(toServer, Message(m, id, qos))
         /\ \E at \in {"compulsory", "wait"} :
               calls' = Append(calls, [msg |-> m, id |-> id, qos |-> qos,
                                       at |-> at, cycles |-> 0])
         /\ reading' = TRUE /\ UNCHANGED socketCorrupted
      \/ UNCHANGED <<toServer, calls, reading>> /\ SendPacketFails
      \/ UNCHANGED <<toServer, calls, reading, socketCorrupted>>
  BY Zenon DEF Publish, id, SendPacketSucceeds
<1>7. reading' \in BOOLEAN /\ socketCorrupted' \in BOOLEAN /\ ackSeen' \in BOOLEAN
  BY <1>2, <1>6, Zenon DEF TypeOK, FlagType, SendPacketFails
<1>8. StackType'
  <2>1. \A at \in {"compulsory", "wait"} :
          [msg |-> m, id |-> id, qos |-> qos, at |-> at, cycles |-> 0] \in Frames
    BY <1>1 DEF Frames
  <2>2. calls \in Seq(Frames)
    BY DEF TypeOK, StackType
  <2>3. \/ \E f \in Frames : calls' = Append(calls, f)
        \/ calls' = calls
    BY <1>6, <2>1
  <2>4. calls' \in Seq(Frames)
    BY <2>2, <2>3, SMTT(30)
  <2> QED
    BY <2>4 DEF StackType
<1>9. toServer' \in Seq(ToServer)
  <2>1. Message(m, id, qos) \in ToServer
    BY <1>1 DEF ToServer, Message
  <2>2. toServer \in Seq(ToServer)
    BY DEF TypeOK, NetType
  <2>3. \/ \E p \in ToServer : toServer' = Append(toServer, p)
        \/ toServer' = toServer
    BY <1>6, <2>1
  <2> QED
    BY <2>2, <2>3
<1>10. AckType'
  BY <1>1, <1>2, <1>3, <1>5 DEF AckType, TypeOK
<1>11. handed' \in SUBSET (Msgs \cup {NoMsg})
  BY <1>2 DEF TypeOK, MessageType
<1> QED
  BY <1>5, <1>7, <1>8, <1>9, <1>10, <1>11

-----------------------------------------------------------------------------
(* One lemma for each action: it keeps TypeOK.                             *)

USE DEF callVars, socketVars, ackVars, tableVars, retryVars, staticVars,
        netVars, serverVars

(* The driver is initialised, connected or simulating it.                  *)
LEMMA InitInstaMsgType == TypeOK /\ InitInstaMsg => TypeOK'
<1> SUFFICES ASSUME TypeOK, InitInstaMsg PROVE TypeOK'
  OBVIOUS
<1>1. FlagType'
  BY Zenon DEF TypeOK, FlagType, InitInstaMsg
<1>2. AckType'
  <2>1. /\ pubAckRecvAttempts' = 0 /\ resultHandlers' = {}
        /\ waitingForPuback' = "NOT_WAITING_FOR_PUBACK"
        /\ nextPacketId' = MAX_PACKET_ID
        /\ UNCHANGED <<pubAckMsgId, lastPub>>
    BY Zenon DEF InitInstaMsg
  <2> QED
    BY <2>1 DEF TypeOK, AckType
<1>3. LoopType'
  <2>1. /\ pc' = "loop"
        /\ msgSource' = msgSource \/ msgSource' = "GENERAL"
        /\ UNCHANGED staticVars
    BY Zenon DEF InitInstaMsg
  <2> QED
    BY <2>1 DEF TypeOK, LoopType, Locations
<1>4. NetType'
  <2>1. toClient' = <<>> /\ toServer' \in {<<Connect>>, <<>>}
    BY DEF InitInstaMsg
  <2>2. <<Connect>> \in Seq(ToServer)
    BY DEF ToServer
  <2>3. <<>> \in Seq(ToServer) /\ <<>> \in Seq(ToClient)
    OBVIOUS
  <2> QED
    BY <2>1, <2>2, <2>3, Zenon DEF NetType
<1>5. StackType' /\ MessageType'
  BY DEF TypeOK, StackType, MessageType, InitInstaMsg
<1> QED
  BY <1>1, <1>2, <1>3, <1>4, <1>5 DEF TypeOK

(* Updating the top of the stack keeps the stack's type.                   *)
LEMMA TopUpdateType ==
    ASSUME StackType, calls # <<>>, NEW f \in Frames,
           calls' = [calls EXCEPT ![Len(calls)] = f]
    PROVE  StackType'
BY DEF StackType

LEMMA TopFields ==
    ASSUME StackType, calls # <<>>
    PROVE  /\ [calls[Len(calls)] EXCEPT !.at = "wait"] \in Frames
           /\ [calls[Len(calls)] EXCEPT !.cycles = @ + 1] \in Frames
<1> DEFINE f == calls[Len(calls)]
<1>1. f \in Frames
  BY DEF StackType
<1> HIDE DEF f
<1>2. [f EXCEPT !.at = "wait"] \in Frames
  BY <1>1 DEF Frames
<1>3. [f EXCEPT !.cycles = @ + 1] \in Frames
  BY <1>1 DEF Frames
<1> QED
  BY <1>2, <1>3 DEF f

(* The innermost call is removed, and the outer one reads or the main loop *)
(* goes on.                                                                *)
LEMMA ReturnType ==
    ASSUME StackType, calls # <<>>, Return
    PROVE  StackType' /\ reading' \in BOOLEAN
<1>1. StackType'
  BY FrontType DEF StackType, Return
<1>2. reading' \in BOOLEAN
  BY Zenon DEF Return
<1> QED
  BY <1>1, <1>2

(* An unsuccessful read leaves all but the socket flag alone.              *)
LEMMA ReadPacketFailsType ==
    ASSUME TypeOK, ReadPacketFails
    PROVE  /\ socketCorrupted' \in BOOLEAN /\ connected' \in BOOLEAN
           /\ stable' \in BOOLEAN
           /\ UNCHANGED <<nextPacketId, resultHandlers>>
           /\ NetType'
           /\ delivered' \in SUBSET (Msgs \cup {NoMsg})
           /\ handed' \in SUBSET (Msgs \cup {NoMsg})
<1>1. socketCorrupted' \in BOOLEAN /\ connected' \in BOOLEAN /\ stable' \in BOOLEAN
  BY Zenon DEF TypeOK, FlagType, ReadPacketFails
<1> QED
  BY <1>1 DEF TypeOK, MessageType, NetType, ReadPacketFails

(* The compulsory read of publish() ends.                                  *)
LEMMA CompulsoryReadEndsType == TypeOK /\ CompulsoryReadEnds => TypeOK'
<1> SUFFICES ASSUME TypeOK, CompulsoryReadEnds PROVE TypeOK'
  OBVIOUS
<1>1. /\ calls # <<>> /\ ReadPacketFails
      /\ UNCHANGED <<pc, ackVars, retryVars, staticVars, dataLog>>
  BY DEF CompulsoryReadEnds
<1>2. StackType' /\ reading' \in BOOLEAN
  <2>1. CASE Return
    BY <1>1, <2>1, ReturnType DEF TypeOK
  <2>2. CASE ~Return
    <3>1. /\ calls' = [calls EXCEPT ![Len(calls)].at = "wait"]
          /\ UNCHANGED reading
      BY <2>2, Zenon DEF CompulsoryReadEnds
    <3>2. reading' \in BOOLEAN
      BY <3>1, Zenon DEF TypeOK, FlagType
    <3>3. StackType'
      BY <1>1, <3>1, TopFields, TopUpdateType DEF TypeOK
    <3> QED
      BY <3>2, <3>3
  <2> QED
    BY <2>1, <2>2
<1>3. FlagType'
  BY <1>1, <1>2, ReadPacketFailsType, Zenon DEF TypeOK, FlagType
<1>4. AckType' /\ LoopType' /\ MessageType' /\ NetType'
  BY <1>1, ReadPacketFailsType DEF TypeOK, AckType, LoopType, MessageType
<1> QED
  BY <1>2, <1>3, <1>4 DEF TypeOK

(* One more cycle of waitForPubAck.                                        *)
LEMMA PubAckCycleType == TypeOK /\ PubAckCycle => TypeOK'
<1> SUFFICES ASSUME TypeOK, PubAckCycle PROVE TypeOK'
  OBVIOUS
<1>1. /\ calls # <<>> /\ ReadPacketFails
      /\ calls' = [calls EXCEPT ![Len(calls)].cycles = @ + 1]
      /\ pubAckRecvAttempts' = pubAckRecvAttempts + 1
      /\ pubAckRecvAttempts + 1 < MAX_CYCLES_TO_WAIT_FOR_PUBACK
      /\ UNCHANGED <<pc, reading, pubAckMsgId, waitingForPuback, lastPub,
                     ackSeen, retryVars, staticVars, dataLog>>
  BY DEF PubAckCycle, Waiting
<1>2. StackType'
  BY <1>1, TopFields, TopUpdateType DEF TypeOK
<1>3. FlagType'
  BY <1>1, ReadPacketFailsType, Zenon DEF TypeOK, FlagType
<1>4. AckType' /\ LoopType' /\ MessageType' /\ NetType'
  BY <1>1, ReadPacketFailsType DEF TypeOK, AckType, LoopType, MessageType
<1> QED
  BY <1>2, <1>3, <1>4 DEF TypeOK

(* waitForPubAck gives up.                                                 *)
LEMMA PubAckTimeoutType == TypeOK /\ PubAckTimeout => TypeOK'
<1> SUFFICES ASSUME TypeOK, PubAckTimeout PROVE TypeOK'
  OBVIOUS
<1>1. /\ calls # <<>> /\ ReadPacketFails /\ Return
      /\ pubAckRecvAttempts' = 0
      /\ SaveFailedPublishedMessage(dataLog, lastPub)
      /\ UNCHANGED <<pc, pubAckMsgId, ackSeen, msgSource, staticVars>>
  BY DEF PubAckTimeout, Waiting
<1>2. StackType' /\ reading' \in BOOLEAN
  BY <1>1, ReturnType DEF TypeOK
<1>3. /\ rebootPending' \in BOOLEAN
      /\ waitingForPuback' \in {"WAITING_FOR_PUBACK",
                                "NOT_WAITING_FOR_PUBACK", "PUBACK_TIMEOUT"}
      /\ lastPub' \in Msgs \cup {NoMsg}
      /\ dataLog' \in Seq(Msgs \cup {NoMsg})
  BY <1>1, SaveFailedType DEF TypeOK, AckType, MessageType
<1>4. FlagType'
  BY <1>1, <1>2, <1>3, ReadPacketFailsType, Zenon DEF TypeOK, FlagType
<1>5. AckType' /\ LoopType' /\ MessageType' /\ NetType'
  BY <1>1, <1>3, ReadPacketFailsType DEF TypeOK, AckType, LoopType, MessageType
<1> QED
  BY <1>2, <1>4, <1>5 DEF TypeOK

(* waitForPubAck has nothing to wait for.                                  *)
LEMMA PubAckWaitEndsType == TypeOK /\ PubAckWaitEnds => TypeOK'
<1> SUFFICES ASSUME TypeOK, PubAckWaitEnds PROVE TypeOK'
  OBVIOUS
<1>1. /\ calls # <<>> /\ ReadPacketFails /\ Return
      /\ UNCHANGED <<pc, ackVars, retryVars, staticVars, dataLog>>
  BY DEF PubAckWaitEnds, Waiting
<1>2. StackType' /\ reading' \in BOOLEAN
  BY <1>1, ReturnType DEF TypeOK
<1>3. FlagType'
  BY <1>1, <1>2, ReadPacketFailsType, Zenon DEF TypeOK, FlagType
<1>4. AckType' /\ LoopType' /\ MessageType' /\ NetType'
  BY <1>1, ReadPacketFailsType DEF TypeOK, AckType, LoopType, MessageType
<1> QED
  BY <1>2, <1>3, <1>4 DEF TypeOK

(* The wait for the PINGRESP is over.                                      *)
LEMMA PingWaitEndsType == TypeOK /\ PingWaitEnds => TypeOK'
<1> SUFFICES ASSUME TypeOK, PingWaitEnds PROVE TypeOK'
  OBVIOUS
<1>1. /\ calls # <<>> /\ ReadPacketFails /\ Return
      /\ rebootPending' = rebootPending \/ rebootPending' = TRUE
      /\ UNCHANGED <<pc, ackVars, msgSource, staticVars, dataLog>>
  BY Zenon DEF PingWaitEnds
<1>2. StackType' /\ reading' \in BOOLEAN
  BY <1>1, ReturnType DEF TypeOK
<1>3. FlagType'
  BY <1>1, <1>2, ReadPacketFailsType, Zenon DEF TypeOK, FlagType
<1>4. AckType' /\ LoopType' /\ MessageType' /\ NetType'
  BY <1>1, ReadPacketFailsType DEF TypeOK, AckType, LoopType, MessageType
<1> QED
  BY <1>2, <1>3, <1>4 DEF TypeOK

(* A cycle of the connection wait.                                         *)
LEMMA ConnectionWaitCycleType == TypeOK /\ ConnectionWaitCycle => TypeOK'
<1> SUFFICES ASSUME TypeOK, ConnectionWaitCycle PROVE TypeOK'
  OBVIOUS
<1>1. FlagType'
  BY Zenon DEF TypeOK, FlagType, ConnectionWaitCycle, ReadPacketFails
<1>2. StackType' /\ AckType' /\ LoopType' /\ MessageType' /\ NetType'
  BY DEF TypeOK, StackType, AckType, LoopType, MessageType, NetType, ConnectionWaitCycle, ReadPacketFails, Locations
<1> QED
  BY <1>1, <1>2 DEF TypeOK

(* The read of the main loop ends.                                         *)
LEMMA MainReadEndsType == TypeOK /\ MainReadEnds => TypeOK'
<1> SUFFICES ASSUME TypeOK, MainReadEnds PROVE TypeOK'
  OBVIOUS
<1>1. FlagType'
  BY Zenon DEF TypeOK, FlagType, MainReadEnds, ReadPacketFails
<1>2. StackType' /\ AckType' /\ LoopType' /\ MessageType' /\ NetType'
  BY DEF TypeOK, StackType, AckType, LoopType, MessageType, NetType, MainReadEnds, ReadPacketFails, Locations
<1> QED
  BY <1>1, <1>2 DEF TypeOK

(* A pass of the main loop begins.                                         *)
LEMMA EnterLoopType == TypeOK /\ EnterLoop => TypeOK'
<1> SUFFICES ASSUME TypeOK, EnterLoop PROVE TypeOK'
  OBVIOUS
<1>1. FlagType'
  BY Zenon DEF TypeOK, FlagType, EnterLoop, At
<1>2. StackType' /\ AckType' /\ LoopType' /\ MessageType' /\ NetType'
  BY DEF TypeOK, StackType, AckType, LoopType, MessageType, NetType, EnterLoop, At, Locations
<1> QED
  BY <1>1, <1>2 DEF TypeOK

(* Nothing is resent.                                                      *)
LEMMA NothingToResendType == TypeOK /\ NothingToResend => TypeOK'
<1> SUFFICES ASSUME TypeOK, NothingToResend PROVE TypeOK'
  OBVIOUS
<1>1. FlagType'
  BY Zenon DEF TypeOK, FlagType, NothingToResend, At
<1>2. StackType' /\ AckType' /\ LoopType' /\ MessageType' /\ NetType'
  BY DEF TypeOK, StackType, AckType, LoopType, MessageType, NetType, NothingToResend, At, Locations
<1> QED
  BY <1>1, <1>2 DEF TypeOK

(* A pending reboot stops the resending.                                   *)
LEMMA AfterResendType == TypeOK /\ AfterResend => TypeOK'
<1> SUFFICES ASSUME TypeOK, AfterResend PROVE TypeOK'
  OBVIOUS
<1>1. FlagType'
  BY Zenon DEF TypeOK, FlagType, AfterResend, At
<1>2. StackType' /\ AckType' /\ LoopType' /\ MessageType' /\ NetType'
  BY DEF TypeOK, StackType, AckType, LoopType, MessageType, NetType, AfterResend, At, Locations
<1> QED
  BY <1>1, <1>2 DEF TypeOK

(* The table is swept.                                                     *)
LEMMA RemoveExpiredResultHandlersType == TypeOK /\ RemoveExpiredResultHandlers => TypeOK'
<1> SUFFICES ASSUME TypeOK, RemoveExpiredResultHandlers PROVE TypeOK'
  OBVIOUS
<1>1. FlagType'
  BY Zenon DEF TypeOK, FlagType, RemoveExpiredResultHandlers
<1>2. AckType'
  <2>1. resultHandlers' \in SUBSET Handlers
    BY ExpireType DEF TypeOK, AckType, RemoveExpiredResultHandlers
  <2> QED
    BY <2>1 DEF TypeOK, AckType, RemoveExpiredResultHandlers
<1>3. StackType' /\ LoopType' /\ MessageType' /\ NetType'
  BY DEF TypeOK, StackType, LoopType, Locations, MessageType, NetType,
         RemoveExpiredResultHandlers
<1> QED
  BY <1>1, <1>2, <1>3 DEF TypeOK

(* The business logic is not run.                                          *)
LEMMA SkipBusinessLogicType == TypeOK /\ SkipBusinessLogic => TypeOK'
<1> SUFFICES ASSUME TypeOK, SkipBusinessLogic PROVE TypeOK'
  OBVIOUS
<1>1. FlagType'
  BY Zenon DEF TypeOK, FlagType, SkipBusinessLogic, At
<1>2. StackType' /\ AckType' /\ LoopType' /\ MessageType' /\ NetType'
  BY DEF TypeOK, StackType, AckType, LoopType, MessageType, NetType, SkipBusinessLogic, At, Locations
<1> QED
  BY <1>1, <1>2 DEF TypeOK

(* What the server reads and what the driver reads is well-typed.          *)
LEMMA ToServerFields ==
    ASSUME NEW p \in ToServer
    PROVE  /\ p.type = "PUBLISH" => p.id \in 1..MAX_PACKET_ID
                                    /\ p.msg \in Msgs \cup {NoMsg}
           /\ p.type = "PUBREL" => p.id \in 1..MAX_PACKET_ID
BY DEF ToServer, Connect

LEMMA ToClientFields ==
    ASSUME NEW p \in ToClient
    PROVE  /\ p.type \in {"PUBACK", "PUBREC", "PUBCOMP"}
                => p.id \in 1..MAX_PACKET_ID
           /\ p.type = "COMMAND" => p.msg \in FileAcks \cup {NoMsg}
BY DEF ToClient

(* A packet is answered.                                                   *)
LEMMA ServerAnswersType == TypeOK /\ ServerAnswers => TypeOK'
<1> SUFFICES ASSUME TypeOK, ServerAnswers PROVE TypeOK'
  OBVIOUS
<1> DEFINE p == Head(toServer)
<1>1. p \in ToServer /\ toServer' \in Seq(ToServer)
  BY DEF TypeOK, NetType, ServerAnswers
<1> HIDE DEF p
<1>2. UNCHANGED <<pc, callVars, socketVars, ackVars, tableVars, retryVars,
                  staticVars, dataLog, stable, handed>>
  BY DEF ServerAnswers
<1>3. /\ delivered' \in SUBSET (Msgs \cup {NoMsg})
      /\ \E q \in ToClient : Reply(q)
  <2>1. CASE p.type = "CONNECT"
    <3>1. /\ UNCHANGED delivered
          /\ Reply(Connack("accepted")) \/ Reply(Connack("refused"))
      BY <2>1, Zenon DEF ServerAnswers, p
    <3>2. Connack("accepted") \in ToClient /\ Connack("refused") \in ToClient
      BY DEF ToClient, Connack
    <3> QED
      BY <3>1, <3>2 DEF TypeOK, MessageType
  <2>2. CASE p.type = "PUBLISH"
    <3>1. /\ delivered' = delivered \cup {p.msg}
          /\ \E t \in {"PUBACK", "PUBREC"} : Reply(Ack(t, p.id))
      BY <2>2 DEF ServerAnswers, p
    <3>2. \A t \in {"PUBACK", "PUBREC"} : Ack(t, p.id) \in ToClient
      BY <1>1, <2>2, ToServerFields DEF ToClient, Ack
    <3>3. p.msg \in Msgs \cup {NoMsg}
      BY <1>1, <2>2, ToServerFields
    <3> QED
      BY <3>1, <3>2, <3>3 DEF TypeOK, MessageType
  <2>3. CASE p.type = "PUBREL"
    <3>1. /\ UNCHANGED delivered
          /\ Reply(Ack("PUBCOMP", p.id))
      BY <2>3 DEF ServerAnswers, p
    <3>2. Ack("PUBCOMP", p.id) \in ToClient
      BY <1>1, <2>3, ToServerFields DEF ToClient, Ack
    <3> QED
      BY <3>1, <3>2 DEF TypeOK, MessageType
  <2> QED
    BY <2>1, <2>2, <2>3 DEF ServerAnswers, p
<1>4. toClient' \in Seq(ToClient)
  <2>1. PICK q \in ToClient : Reply(q)
    BY <1>3
  <2> QED
    BY <2>1 DEF Reply, TypeOK, NetType
<1>5. FlagType'
  BY <1>2, Zenon DEF TypeOK, FlagType
<1>6. StackType' /\ AckType' /\ LoopType' /\ MessageType' /\ NetType'
  BY <1>1, <1>2, <1>3, <1>4
     DEF TypeOK, StackType, AckType, LoopType, MessageType, NetType
<1> QED
  BY <1>5, <1>6 DEF TypeOK

(* A command is on its way.                                                *)
LEMMA ServerCommandsType == TypeOK /\ ServerCommands => TypeOK'
<1> SUFFICES ASSUME TypeOK, ServerCommands PROVE TypeOK'
  OBVIOUS
<1>1. UNCHANGED <<pc, callVars, socketVars, ackVars, tableVars, retryVars,
                  staticVars, dataLog, toServer, serverVars, handed>>
  BY DEF ServerCommands
<1>2. toClient' \in Seq(ToClient)
  <2>1. PICK kind \in Commands, m \in FileAcks \cup {NoMsg} :
                 toClient' = Append(toClient, Command(kind, m))
    BY DEF ServerCommands
  <2>2. Command(kind, m) \in ToClient
    BY <2>1 DEF ToClient, Command
  <2> QED
    BY <2>1, <2>2 DEF TypeOK, NetType
<1>3. FlagType'
  BY <1>1, Zenon DEF TypeOK, FlagType
<1>4. StackType' /\ AckType' /\ LoopType' /\ MessageType' /\ NetType'
  BY <1>1, <1>2 DEF TypeOK, StackType, AckType, LoopType, MessageType, NetType
<1> QED
  BY <1>3, <1>4 DEF TypeOK

(* The network becomes stable.                                             *)
LEMMA StabiliseType == TypeOK /\ Stabilise => TypeOK'
<1> SUFFICES ASSUME TypeOK, Stabilise PROVE TypeOK'
  OBVIOUS
<1>1. FlagType'
  BY Zenon DEF TypeOK, FlagType, Stabilise
<1>2. StackType' /\ AckType' /\ LoopType' /\ MessageType' /\ NetType'
  BY DEF TypeOK, StackType, AckType, LoopType, MessageType, NetType, Stabilise
<1> QED
  BY <1>1, <1>2 DEF TypeOK

(* A packet that has arrived has its type, and so have those behind it.    *)
LEMMA ArrivesType ==
    ASSUME TypeOK, NEW t, Arrives(t)
    PROVE  /\ Head(toClient) \in ToClient /\ Head(toClient).type = t
           /\ Tail(toClient) \in Seq(ToClient)
BY DEF Arrives, TypeOK, NetType

(* The answer to the packet the driver waits for ends the wait.            *)
LEMMA FireResultHandlerType ==
    ASSUME TypeOK, NEW id, FireResultHandler(id)
    PROVE  /\ ackSeen' \in BOOLEAN
           /\ pubAckMsgId' \in 0..MAX_PACKET_ID
           /\ waitingForPuback' \in {"WAITING_FOR_PUBACK",
                                     "NOT_WAITING_FOR_PUBACK", "PUBACK_TIMEOUT"}
           /\ pubAckRecvAttempts' \in 0..MAX_CYCLES_TO_WAIT_FOR_PUBACK
           /\ lastPub' \in Msgs \cup {NoMsg}
<1>1. ackSeen' \in BOOLEAN
  BY Zenon DEF FireResultHandler, SeesAnswer
<1>2. \/ StopWaiting
      \/ UNCHANGED <<waitingForPuback, pubAckRecvAttempts, lastPub>>
  BY Zenon DEF FireResultHandler
<1>3. UNCHANGED pubAckMsgId
  BY DEF FireResultHandler
<1> QED
  BY <1>1, <1>2, <1>3 DEF StopWaiting, TypeOK, AckType

(* PUBACK and PUBCOMP.                                                     *)
LEMMA ReceiveAckType == TypeOK /\ ReceiveAck => TypeOK'
<1> SUFFICES ASSUME TypeOK, ReceiveAck PROVE TypeOK'
  OBVIOUS
<1> DEFINE id == Head(toClient).id
<1>1. /\ FireResultHandler(id)
      /\ toClient' = Tail(toClient)
      /\ resultHandlers' = resultHandlers \ HandlersOf(id)
      /\ UNCHANGED <<pc, callVars, socketVars, nextPacketId, retryVars,
                     staticVars, dataLog, toServer, serverVars, handed>>
  BY DEF ReceiveAck
<1>2. Tail(toClient) \in Seq(ToClient)
  BY ArrivesType DEF ReceiveAck
<1> HIDE DEF id
<1>3. FlagType'
  BY <1>1, FireResultHandlerType, Zenon DEF TypeOK, FlagType
<1>4. AckType'
  BY <1>1, FireResultHandlerType DEF TypeOK, AckType
<1>5. StackType' /\ LoopType' /\ MessageType' /\ NetType'
  BY <1>1, <1>2 DEF TypeOK, StackType, LoopType, MessageType, NetType
<1> QED
  BY <1>3, <1>4, <1>5 DEF TypeOK

(* PUBREC.                                                                 *)
LEMMA ReceivePubrecType == TypeOK /\ ReceivePubrec => TypeOK'
<1> SUFFICES ASSUME TypeOK, ReceivePubrec PROVE TypeOK'
  OBVIOUS
<1> DEFINE id == Head(toClient).id
<1>1. /\ FireResultHandler(id)
      /\ toClient' = Tail(toClient)
      /\ resultHandlers' =
           AttachResultHandler(resultHandlers \ HandlersOf(id), id, FALSE)
      /\ \/ toServer' = Append(toServer, Ack("PUBREL", id))
         \/ UNCHANGED toServer
      /\ UNCHANGED <<pc, callVars, connected, nextPacketId, retryVars,
                     staticVars, dataLog, serverVars, handed>>
  BY DEF ReceivePubrec
<1>2. socketCorrupted' \in BOOLEAN
  BY Zenon DEF ReceivePubrec, SendPacketSucceeds, SendPacketFails,
               TypeOK, FlagType
<1>3. id \in 1..MAX_PACKET_ID /\ Tail(toClient) \in Seq(ToClient)
  BY ArrivesType, ToClientFields DEF ReceivePubrec
<1> HIDE DEF id
<1>4. FlagType'
  BY <1>1, <1>2, FireResultHandlerType, Zenon DEF TypeOK, FlagType
<1>5. resultHandlers' \in SUBSET Handlers
  <2>1. resultHandlers \ HandlersOf(id) \in SUBSET Handlers
    BY DEF TypeOK, AckType
  <2> QED
    BY <1>1, <1>3, <2>1, AttachType
<1>6. AckType'
  BY <1>1, <1>5, FireResultHandlerType DEF TypeOK, AckType
<1>7. NetType'
  <2>1. Ack("PUBREL", id) \in ToServer
    BY <1>3 DEF ToServer, Ack
  <2> QED
    BY <1>1, <1>3, <2>1 DEF TypeOK, NetType
<1>8. StackType' /\ LoopType' /\ MessageType'
  BY <1>1 DEF TypeOK, StackType, LoopType, MessageType
<1> QED
  BY <1>4, <1>6, <1>7, <1>8 DEF TypeOK

(* CONNACK, accepted or refused.                                           *)
LEMMA ReceiveConnackType == TypeOK /\ ReceiveConnack => TypeOK'
<1> SUFFICES ASSUME TypeOK, ReceiveConnack PROVE TypeOK'
  OBVIOUS
<1>1. CASE Head(toClient).rc = "accepted"
  <2> DEFINE f == [msg |-> NoMsg, id |-> 0, qos |-> 0,
                   at |-> "compulsory", cycles |-> 0]
  <2>1. /\ toClient' = Tail(toClient)
        /\ connected' = TRUE /\ msgSource' = "PERSISTENT_STORAGE"
        /\ reading' = reading
        /\ socketCorrupted' = socketCorrupted \/ socketCorrupted' = TRUE
        /\ calls' = calls \/ calls' = Append(calls, f)
        /\ UNCHANGED <<pc, ackVars, tableVars, rebootPending, staticVars,
                       dataLog, toServer, serverVars, handed>>
    BY <1>1, Zenon DEF ReceiveConnack
  <2>2. Tail(toClient) \in Seq(ToClient)
    BY ArrivesType DEF ReceiveConnack
  <2>3. f \in Frames
    BY DEF Frames
  <2> HIDE DEF f
  <2>4. FlagType'
    BY <2>1, Zenon DEF TypeOK, FlagType
  <2>5. StackType'
    BY <2>1, <2>3 DEF TypeOK, StackType
  <2>6. AckType' /\ LoopType' /\ MessageType' /\ NetType'
    BY <2>1, <2>2 DEF TypeOK, AckType, LoopType, MessageType, NetType
  <2> QED
    BY <2>4, <2>5, <2>6 DEF TypeOK
<1>2. CASE Head(toClient).rc # "accepted"
  BY <1>2, ExitType DEF ReceiveConnack
<1> QED
  BY <1>1, <1>2

(* The step of a caller of publish() that leaves the rest alone.           *)
LEMMA CallsPublishType ==
    ASSUME TypeOK,
           NEW m \in Msgs \cup {NoMsg}, NEW qos \in {1, 2}, NEW isNull,
           NEW log \in Seq(Msgs \cup {NoMsg}), Publish(m, qos, isNull, log),
           UNCHANGED <<connected, msgSource, staticVars, serverVars>>,
           pc' \in Locations, toClient' \in Seq(ToClient)
    PROVE  TypeOK'
<1>1. FlagType'
  BY PublishType, Zenon DEF TypeOK, FlagType
<1>2. StackType' /\ AckType' /\ MessageType' /\ NetType'
  BY PublishType DEF TypeOK, MessageType, NetType
<1>3. LoopType'
  BY DEF TypeOK, LoopType
<1> QED
  BY <1>1, <1>2, <1>3 DEF TypeOK

(* A plain publish or a ping adds one call at most.                        *)
LEMMA PlainPublishType ==
    ASSUME TypeOK, PublishPlain \/ Ping,
           UNCHANGED <<connected, msgSource, staticVars, serverVars>>,
           pc' \in Locations, toClient' \in Seq(ToClient)
    PROVE  TypeOK'
<1> DEFINE f(at) == [msg |-> NoMsg, id |-> 0, qos |-> 0,
                     at |-> at, cycles |-> 0]
<1>1. /\ UNCHANGED <<ackVars, tableVars, rebootPending, dataLog, handed,
                     toServer>>
      /\ \/ UNCHANGED callVars
         \/ /\ calls' = Append(calls, f("compulsory"))
            /\ reading' = TRUE
         \/ /\ calls' = Append(calls, f("ping"))
            /\ reading' = TRUE
      /\ socketCorrupted' = socketCorrupted \/ socketCorrupted' = TRUE
  BY Zenon DEF PublishPlain, Ping, SendPacketSucceeds, SendPacketFails
<1>2. f("compulsory") \in Frames /\ f("ping") \in Frames
  BY DEF Frames
<1> HIDE DEF f
<1>3. FlagType'
  BY <1>1, Zenon DEF TypeOK, FlagType
<1>4. StackType'
  <2>1. calls' = calls \/ \E g \in Frames : calls' = Append(calls, g)
    BY <1>1, <1>2
  <2> QED
    BY <2>1 DEF TypeOK, StackType
<1>5. AckType' /\ LoopType' /\ MessageType' /\ NetType'
  BY <1>1 DEF TypeOK, AckType, LoopType, MessageType, NetType
<1> QED
  BY <1>3, <1>4, <1>5 DEF TypeOK

(* A step of the application: it publishes, or it does not.                *)
LEMMA ApplicationPublishesType ==
    ASSUME TypeOK, ApplicationPublishes,
           UNCHANGED <<connected, msgSource, staticVars, serverVars>>,
           pc' \in Locations, toClient' \in Seq(ToClient)
    PROVE  TypeOK'
<1>1. CASE \E m \in AppMsgs \ handed : Publish(m, 1, FALSE, dataLog)
  <2>1. PICK m \in AppMsgs : Publish(m, 1, FALSE, dataLog)
    BY <1>1
  <2>2. m \in Msgs \cup {NoMsg} /\ dataLog \in Seq(Msgs \cup {NoMsg})
    BY DEF Msgs, TypeOK, MessageType
  <2> QED
    BY <2>1, <2>2, CallsPublishType
<1>2. CASE UNCHANGED <<callVars, socketCorrupted, ackVars, tableVars,
                       rebootPending, dataLog, toServer, handed>>
  <2>1. FlagType'
    BY <1>2, Zenon DEF TypeOK, FlagType
  <2>2. StackType' /\ AckType' /\ LoopType' /\ MessageType' /\ NetType'
    BY <1>2 DEF TypeOK, StackType, AckType, LoopType, MessageType, NetType
  <2> QED
    BY <2>1, <2>2 DEF TypeOK
<1> QED
  BY <1>1, <1>2 DEF ApplicationPublishes

(* A command of the server.                                                *)
LEMMA ReceiveCommandType == TypeOK /\ ReceiveCommand => TypeOK'
<1> SUFFICES ASSUME TypeOK, ReceiveCommand PROVE TypeOK'
  OBVIOUS
<1> DEFINE c == Head(toClient)
<1>1. CASE c.kind = "reboot"
  BY <1>1, ExitType DEF ReceiveCommand
<1>2. CASE c.kind # "reboot"
  <2>1. /\ UNCHANGED <<pc, connected, msgSource, staticVars, serverVars>>
        /\ toClient' = Tail(toClient)
        /\ \/ PublishPlain
           \/ \E qos \in {1, 2} : Publish(c.msg, qos, TRUE, dataLog)
           \/ ApplicationPublishes
    BY <1>2 DEF ReceiveCommand
  <2>2. /\ c.msg \in Msgs \cup {NoMsg} /\ pc' \in Locations
        /\ toClient' \in Seq(ToClient)
    BY <2>1, ArrivesType, ToClientFields DEF ReceiveCommand, Msgs, TypeOK, LoopType
  <2>3. dataLog \in Seq(Msgs \cup {NoMsg})
    BY DEF TypeOK, MessageType
  <2> HIDE DEF c
  <2>4. CASE PublishPlain
    BY <2>1, <2>2, <2>4, PlainPublishType
  <2>5. ASSUME NEW qos \in {1, 2}, Publish(c.msg, qos, TRUE, dataLog)
        PROVE  TypeOK'
    BY <2>1, <2>2, <2>3, <2>5, CallsPublishType
  <2>6. CASE ApplicationPublishes
    BY <2>1, <2>2, <2>6, ApplicationPublishesType
  <2> QED
    BY <2>1, <2>4, <2>5, <2>6
<1> QED
  BY <1>1, <1>2

(* The oldest record is taken out of the data log.                         *)
LEMMA ResendRecordType == TypeOK /\ ResendRecord => TypeOK'
<1> SUFFICES ASSUME TypeOK, ResendRecord PROVE TypeOK'
  OBVIOUS
<1>1. /\ dataLog # <<>> /\ pc' = "resent"
      /\ UNCHANGED <<connected, msgSource, staticVars, toClient, serverVars>>
      /\ \/ Publish(Head(dataLog), 1, FALSE, Tail(dataLog))
         \/ /\ dataLog' = Tail(dataLog)
            /\ UNCHANGED <<callVars, socketCorrupted, ackVars, tableVars,
                           rebootPending, toServer, handed>>
  BY DEF ResendRecord
<1>2. /\ Head(dataLog) \in Msgs \cup {NoMsg}
      /\ Tail(dataLog) \in Seq(Msgs \cup {NoMsg})
  BY <1>1 DEF TypeOK, MessageType
<1>3. pc' \in Locations /\ toClient' \in Seq(ToClient)
  BY <1>1 DEF Locations, TypeOK, NetType
<1>4. CASE Publish(Head(dataLog), 1, FALSE, Tail(dataLog))
  BY <1>1, <1>2, <1>3, <1>4, CallsPublishType
<1>5. CASE /\ dataLog' = Tail(dataLog)
           /\ UNCHANGED <<callVars, socketCorrupted, ackVars, tableVars,
                          rebootPending, toServer, handed>>
  <2>1. FlagType'
    BY <1>1, <1>5, Zenon DEF TypeOK, FlagType
  <2>2. StackType' /\ AckType' /\ LoopType' /\ MessageType' /\ NetType'
    BY <1>1, <1>2, <1>3, <1>5
       DEF TypeOK, StackType, AckType, LoopType, MessageType, NetType
  <2> QED
    BY <2>1, <2>2 DEF TypeOK
<1> QED
  BY <1>1, <1>4, <1>5

(* Where what is due by the clock is published.                            *)
LEMMA TimedPlace ==
    TimedPublishes => /\ pc \in {"stats", "ping", "gps"} /\ ~reading
                      /\ pc' \in {"ping", "gps", "business"}
<1>1. TimedPublishes => /\ pc \in {"stats", "ping", "gps"} /\ ~reading
                        /\ pc' = AfterTimed[pc]
  BY DEF TimedPublishes, AfterTimed
<1> QED
  BY <1>1 DEF AfterTimed

(* What is due by the clock is published.                                  *)
LEMMA TimedPublishesType == TypeOK /\ TimedPublishes => TypeOK'
<1> SUFFICES ASSUME TypeOK, TimedPublishes PROVE TypeOK'
  OBVIOUS
<1>1. /\ pc' \in {"ping", "gps", "business"}
      /\ UNCHANGED <<connected, msgSource, staticVars, toClient, serverVars>>
      /\ \/ PublishPlain \/ Ping
         \/ UNCHANGED <<callVars, socketCorrupted, ackVars, tableVars,
                        rebootPending, dataLog, toServer, handed>>
  BY TimedPlace, Zenon DEF TimedPublishes
<1>2. pc' \in Locations /\ toClient' \in Seq(ToClient)
  BY <1>1 DEF Locations, TypeOK, NetType
<1>3. CASE PublishPlain \/ Ping
  BY <1>1, <1>2, <1>3, PlainPublishType
<1>4. CASE UNCHANGED <<callVars, socketCorrupted, ackVars, tableVars,
                       rebootPending, dataLog, toServer, handed>>
  <2>1. FlagType'
    BY <1>1, <1>4, Zenon DEF TypeOK, FlagType
  <2>2. StackType' /\ AckType' /\ LoopType' /\ MessageType' /\ NetType'
    BY <1>1, <1>2, <1>4
       DEF TypeOK, StackType, AckType, LoopType, MessageType, NetType
  <2> QED
    BY <2>1, <2>2 DEF TypeOK
<1> QED
  BY <1>1, <1>3, <1>4

(* The location follows the first run.                                     *)
LEMMA SendFirstGpsLocationType == TypeOK /\ SendFirstGpsLocation => TypeOK'
<1> SUFFICES ASSUME TypeOK, SendFirstGpsLocation PROVE TypeOK'
  OBVIOUS
<1>1. /\ pc' = "located"
      /\ UNCHANGED <<connected, msgSource, staticVars, toClient, serverVars>>
      /\ \/ PublishPlain
         \/ UNCHANGED <<callVars, socketCorrupted, ackVars, tableVars,
                        rebootPending, dataLog, toServer, handed>>
  BY Zenon DEF SendFirstGpsLocation
<1>2. pc' \in Locations /\ toClient' \in Seq(ToClient)
  BY <1>1 DEF Locations, TypeOK, NetType
<1>3. CASE PublishPlain
  BY <1>1, <1>2, <1>3, PlainPublishType
<1>4. CASE UNCHANGED <<callVars, socketCorrupted, ackVars, tableVars,
                       rebootPending, dataLog, toServer, handed>>
  <2>1. FlagType'
    BY <1>1, <1>4, Zenon DEF TypeOK, FlagType
  <2>2. StackType' /\ AckType' /\ LoopType' /\ MessageType' /\ NetType'
    BY <1>1, <1>2, <1>4
       DEF TypeOK, StackType, AckType, LoopType, MessageType, NetType
  <2> QED
    BY <2>1, <2>2 DEF TypeOK
<1> QED
  BY <1>1, <1>3, <1>4

(* The business logic runs.                                                *)
LEMMA RunBusinessLogicType == TypeOK /\ RunBusinessLogic => TypeOK'
<1> SUFFICES ASSUME TypeOK, RunBusinessLogic PROVE TypeOK'
  OBVIOUS
<1>1. /\ ApplicationPublishes /\ pc' = "ran"
      /\ UNCHANGED <<connected, msgSource, staticVars, toClient, serverVars>>
  BY DEF RunBusinessLogic
<1>2. pc' \in Locations /\ toClient' \in Seq(ToClient)
  BY <1>1 DEF Locations, TypeOK, NetType
<1> QED
  BY <1>1, <1>2, ApplicationPublishesType

(* After the business logic the pending reboot is carried out.             *)
LEMMA AfterBusinessLogicType == TypeOK /\ AfterBusinessLogic => TypeOK'
<1> SUFFICES ASSUME TypeOK, AfterBusinessLogic PROVE TypeOK'
  OBVIOUS
<1>1. CASE Exit
  BY <1>1, ExitType
<1>2. CASE ~Exit
  <2>1. /\ msgSource' = msgSource \/ msgSource' = "PERSISTENT_STORAGE"
        /\ runOnceAtStart' = TRUE /\ pc' = "tail"
        /\ UNCHANGED <<callVars, socketVars, ackVars, tableVars,
                       rebootPending, onceTried, connectionWait,
                       connectionAttempts, dataLog, netVars, serverVars,
                       handed>>
    BY <1>2, Zenon DEF AfterBusinessLogic
  <2>2. FlagType'
    BY <2>1, Zenon DEF TypeOK, FlagType
  <2>3. StackType' /\ AckType' /\ LoopType' /\ MessageType' /\ NetType'
    BY <2>1 DEF TypeOK, StackType, AckType, LoopType, Locations, MessageType,
                NetType
  <2> QED
    BY <2>2, <2>3 DEF TypeOK
<1> QED
  BY <1>1, <1>2

(* The socket and the connection are checked.                              *)
LEMMA EndOfLoopType == TypeOK /\ EndOfLoop => TypeOK'
<1> SUFFICES ASSUME TypeOK, EndOfLoop PROVE TypeOK'
  OBVIOUS
<1>1. CASE Exit
  BY <1>1, ExitType
<1>2. CASE ~Exit
  <2>1. /\ pc' \in {"init", "loop"}
        /\ connected' = connected \/ connected' = FALSE
        /\ connectionAttempts' \in 0..MAX_CONN_ATTEMPTS_WITH_PHYSICAL_LAYER_FINE
        /\ UNCHANGED <<callVars, socketCorrupted, ackVars, tableVars, retryVars,
                       runOnceAtStart, onceTried, connectionWait, dataLog,
                       netVars, serverVars, handed>>
    BY <1>2 DEF EndOfLoop, ClearInstaMsg, TypeOK, LoopType
  <2>2. FlagType'
    BY <2>1, Zenon DEF TypeOK, FlagType
  <2>3. StackType' /\ AckType' /\ LoopType' /\ MessageType' /\ NetType'
    BY <2>1 DEF TypeOK, StackType, AckType, LoopType, Locations, MessageType,
                NetType
  <2> QED
    BY <2>2, <2>3 DEF TypeOK
<1> QED
  BY <1>1, <1>2

(* Every step of the driver, the server or the network keeps TypeOK.       *)
LEMMA NextType == TypeOK /\ [Next]_vars => TypeOK'
<1> SUFFICES ASSUME TypeOK, [Next]_vars PROVE TypeOK'
  OBVIOUS
<1>1. CASE Client
  BY <1>1, InitInstaMsgType, CompulsoryReadEndsType, PubAckCycleType,
     PubAckTimeoutType, PubAckWaitEndsType, PingWaitEndsType,
     ConnectionWaitCycleType, TimedPublishesType,
     MainReadEndsType, ReceiveAckType, ReceivePubrecType, ReceiveConnackType,
     ReceiveCommandType, EnterLoopType, ResendRecordType, NothingToResendType,
     AfterResendType, RemoveExpiredResultHandlersType, RunBusinessLogicType,
     SkipBusinessLogicType, SendFirstGpsLocationType, AfterBusinessLogicType,
     EndOfLoopType, Zenon
     DEF Client, ReadEnds, ReceivePacket
<1>2. CASE Environment
  BY <1>2, ServerAnswersType, ServerCommandsType, StabiliseType, ExitType, Zenon
     DEF Environment, Crash
<1>3. CASE UNCHANGED vars
  <2>1. FlagType'
    BY <1>3, Zenon DEF TypeOK, FlagType, vars
  <2>2. StackType' /\ AckType' /\ LoopType' /\ MessageType' /\ NetType'
    BY <1>3 DEF TypeOK, StackType, AckType, LoopType, MessageType, NetType, vars
  <2> QED
    BY <2>1, <2>2 DEF TypeOK
<1> QED
  BY <1>1, <1>2, <1>3 DEF Next

(* Every variable keeps its type: stacks, counters, tables and queues stay *)
(* in their bounds, whatever the server, the network and crashes do.       *)
THEOREM TypeCorrect == Spec => []TypeOK
BY InitType, NextType, PTL DEF Spec

-----------------------------------------------------------------------------
(* Stored records will be resent.                                          *)

(* StoredWillBeResent holds after a step that asks for a reboot, and after *)
(* one that neither connects nor stops the resending nor adds a record.    *)
LEMMA ResentKept ==
    ASSUME StoredWillBeResent,
           \/ rebootPending' = TRUE
           \/ /\ UNCHANGED <<connected, msgSource, rebootPending>>
              /\ dataLog' # <<>> => dataLog # <<>>
    PROVE  StoredWillBeResent'
BY Zenon DEF StoredWillBeResent

(* A message that publish() could not send asks for a reboot.              *)
LEMMA PublishKeepsResent ==
    ASSUME NEW m, NEW qos, NEW isNull, NEW log, Publish(m, qos, isNull, log)
    PROVE  \/ rebootPending' = TRUE
           \/ UNCHANGED rebootPending /\ dataLog' = log
BY Zenon DEF Publish, SaveFailedPublishedMessage

(* The process that starts again is not connected.                         *)
LEMMA ExitKeepsResent == Exit => StoredWillBeResent'
BY Zenon DEF Exit, StoredWillBeResent

LEMMA ReadEndsKeepsResent ==
    StoredWillBeResent /\ ReadEnds => StoredWillBeResent'
<1> SUFFICES ASSUME StoredWillBeResent, ReadEnds PROVE StoredWillBeResent'
  OBVIOUS
<1>1. CASE PubAckTimeout
  BY <1>1, ResentKept, Zenon DEF PubAckTimeout, SaveFailedPublishedMessage
<1>2. CASE \/ CompulsoryReadEnds \/ PubAckCycle \/ PubAckWaitEnds
           \/ PingWaitEnds \/ ConnectionWaitCycle \/ MainReadEnds
  BY <1>2, ResentKept, Zenon
     DEF CompulsoryReadEnds, PubAckCycle, PubAckWaitEnds, PingWaitEnds,
         ConnectionWaitCycle, MainReadEnds, ReadPacketFails
<1> QED
  BY <1>1, <1>2 DEF ReadEnds

LEMMA ReceivePacketKeepsResent ==
    StoredWillBeResent /\ ReceivePacket => StoredWillBeResent'
<1> SUFFICES ASSUME StoredWillBeResent, ReceivePacket PROVE StoredWillBeResent'
  OBVIOUS
<1>1. CASE ReceiveAck \/ ReceivePubrec
  BY <1>1, ResentKept, Zenon DEF ReceiveAck, ReceivePubrec
<1>2. CASE ReceiveConnack
  BY <1>2, ExitKeepsResent, Zenon DEF ReceiveConnack, StoredWillBeResent
<1>3. CASE ReceiveCommand
  <2>1. CASE Exit
    BY <2>1, ExitKeepsResent
  <2>2. CASE ~Exit
    <3>1. /\ UNCHANGED <<connected, msgSource>>
          /\ \/ PublishPlain
             \/ \E m, qos, isNull : Publish(m, qos, isNull, dataLog)
             \/ UNCHANGED <<rebootPending, dataLog>>
      BY <1>3, <2>2, Zenon DEF ReceiveCommand, ApplicationPublishes
    <3>2. \/ rebootPending' = TRUE
          \/ UNCHANGED rebootPending /\ dataLog' = dataLog
      BY <3>1, PublishKeepsResent, Zenon DEF PublishPlain
    <3> QED
      BY <3>1, <3>2, ResentKept, Zenon
  <2> QED
    BY <2>1, <2>2
<1> QED
  BY <1>1, <1>2, <1>3 DEF ReceivePacket

(* send_previously_unsent_data stops resending only when the log is empty. *)
LEMMA ResendKeepsResent ==
    StoredWillBeResent /\ (ResendRecord \/ NothingToResend \/ AfterResend)
        => StoredWillBeResent'
<1> SUFFICES ASSUME StoredWillBeResent,
                    ResendRecord \/ NothingToResend \/ AfterResend
             PROVE  StoredWillBeResent'
  OBVIOUS
<1>1. CASE ResendRecord
  <2>1. /\ UNCHANGED <<connected, msgSource>> /\ dataLog # <<>>
        /\ \/ Publish(Head(dataLog), 1, FALSE, Tail(dataLog))
           \/ UNCHANGED rebootPending
    BY <1>1, Zenon DEF ResendRecord
  <2>2. rebootPending' = TRUE \/ UNCHANGED rebootPending
    BY <2>1, PublishKeepsResent, Zenon
  <2> QED
    BY <2>1, <2>2, ResentKept, Zenon
<1>2. CASE NothingToResend
  BY <1>2, Zenon DEF NothingToResend, MayResend, StoredWillBeResent
<1>3. CASE AfterResend
  BY <1>3, Zenon DEF AfterResend, StoredWillBeResent
<1> QED
  BY <1>1, <1>2, <1>3

LEMMA MainLoopKeepsResent ==
    /\ StoredWillBeResent
    /\ \/ InitInstaMsg \/ EnterLoop \/ RemoveExpiredResultHandlers
       \/ TimedPublishes \/ RunBusinessLogic \/ SendFirstGpsLocation
       \/ SkipBusinessLogic \/ AfterBusinessLogic \/ EndOfLoop
    => StoredWillBeResent'
<1> SUFFICES ASSUME StoredWillBeResent,
                    \/ InitInstaMsg \/ EnterLoop \/ RemoveExpiredResultHandlers
                    \/ TimedPublishes \/ RunBusinessLogic \/ SendFirstGpsLocation
                    \/ SkipBusinessLogic \/ AfterBusinessLogic \/ EndOfLoop
             PROVE  StoredWillBeResent'
  OBVIOUS
<1>1. CASE InitInstaMsg
  BY <1>1, Zenon DEF InitInstaMsg, StoredWillBeResent
<1>2. CASE EnterLoop \/ RemoveExpiredResultHandlers \/ TimedPublishes
           \/ SendFirstGpsLocation \/ SkipBusinessLogic
  BY <1>2, ResentKept, Zenon
     DEF EnterLoop, RemoveExpiredResultHandlers, TimedPublishes,
         SendFirstGpsLocation, PublishPlain, Ping, SkipBusinessLogic
<1>3. CASE RunBusinessLogic
  <2>1. /\ UNCHANGED <<connected, msgSource>>
        /\ \/ \E m, qos, isNull : Publish(m, qos, isNull, dataLog)
           \/ UNCHANGED <<rebootPending, dataLog>>
    BY <1>3, Zenon DEF RunBusinessLogic, ApplicationPublishes
  <2>2. \/ rebootPending' = TRUE
        \/ UNCHANGED rebootPending /\ dataLog' = dataLog
    BY <2>1, PublishKeepsResent, Zenon
  <2> QED
    BY <2>1, <2>2, ResentKept, Zenon
<1>4. CASE AfterBusinessLogic
  BY <1>4, ExitKeepsResent, Zenon DEF AfterBusinessLogic, StoredWillBeResent
<1>5. CASE EndOfLoop
  <2>1. \/ Exit
        \/ connected' = FALSE
        \/ UNCHANGED <<connected, msgSource, rebootPending, dataLog>>
    BY <1>5, Zenon DEF EndOfLoop, ClearInstaMsg
  <2>2. CASE connected' = FALSE
    BY <2>2, Zenon DEF StoredWillBeResent
  <2> QED
    BY <2>1, <2>2, ExitKeepsResent, ResentKept, Zenon
<1> QED
  BY <1>1, <1>2, <1>3, <1>4, <1>5

LEMMA EnvironmentKeepsResent ==
    StoredWillBeResent /\ Environment => StoredWillBeResent'
BY ExitKeepsResent, ResentKept, Zenon
   DEF Environment, ServerAnswers, ServerCommands, Crash, Stabilise

(* A record that waits in the data log is not forgotten there: the running *)
(* driver is set to resend it, or about to reboot, or not yet connected.   *)
(* The invariant is inductive by itself.                                   *)
THEOREM StoredWillBeResentAlways == Spec => []StoredWillBeResent
<1>1. Init => StoredWillBeResent
  BY Zenon DEF Init, StoredWillBeResent
<1>2. StoredWillBeResent /\ [Next]_vars => StoredWillBeResent'
  <2> SUFFICES ASSUME StoredWillBeResent, [Next]_vars PROVE StoredWillBeResent'
    OBVIOUS
  <2>1. CASE Client
    BY <2>1, ReadEndsKeepsResent, ReceivePacketKeepsResent, ResendKeepsResent,
       MainLoopKeepsResent, Zenon DEF Client
  <2>2. CASE Environment
    BY <2>2, EnvironmentKeepsResent
  <2>3. CASE UNCHANGED vars
    BY <2>3, ResentKept, Zenon DEF vars
  <2> QED
    BY <2>1, <2>2, <2>3 DEF Next
<1> QED
  BY <1>1, <1>2, PTL DEF Spec

-----------------------------------------------------------------------------
(* The stack of publish() calls: there is one only while packets are read, *)
(* and nothing is read before the main loop runs.  A call that waits for   *)
(* its acknowledgement has one to expect, the call for a PINGREQ has none. *)
CallOK(call) ==
    /\ call.at = "wait" => call.qos > 0
    /\ call.at = "ping" => call.qos = 0

LoopInv ==
    /\ ~reading => calls = <<>>
    /\ pc \in {"down", "init"} => ~reading
    /\ \A i \in DOMAIN calls : CallOK(calls[i])

(* The ways in which the stack changes.                                    *)
LEMMA CallBegins ==
    ASSUME NEW S, NEW q \in Seq(S), NEW x \in S
    PROVE  /\ Append(q, x) # <<>> /\ Len(q) \in Nat
           /\ DOMAIN q = 1..Len(q) /\ DOMAIN Append(q, x) = 1..(Len(q) + 1)
           /\ \A i \in DOMAIN q : i \in DOMAIN Append(q, x) /\ Append(q, x)[i] = q[i]
           /\ Append(q, x)[Len(q) + 1] = x /\ Len(q) + 1 \in DOMAIN Append(q, x)
           /\ \A i \in DOMAIN Append(q, x) : i \in DOMAIN q \/ i = Len(q) + 1
OBVIOUS

LEMMA CallReturns ==
    ASSUME NEW S, NEW q \in Seq(S), q # <<>>
    PROVE  /\ Len(q) \in Nat \ {0} /\ DOMAIN q = 1..Len(q)
           /\ DOMAIN Front(q) = 1..(Len(q) - 1) /\ Len(Front(q)) = Len(q) - 1
           /\ \A i \in DOMAIN Front(q) : i \in DOMAIN q /\ Front(q)[i] = q[i]
           /\ Last(q) = q[Len(q)] /\ Len(q) \in DOMAIN q
           /\ Len(q) = 1 => Front(q) = <<>>
<1> DEFINE r == SubSeq(q, 1, Len(q) - 1)
<1>1. /\ Len(q) \in Nat \ {0} /\ DOMAIN q = 1..Len(q) /\ Len(q) \in DOMAIN q
      /\ Front(q) = r /\ Last(q) = q[Len(q)]
  BY DEF Front, Last
<1>2. r \in Seq(S) /\ Len(r) = Len(q) - 1 /\ DOMAIN r = 1..(Len(q) - 1)
  BY <1>1
<1>3. \A i \in 1..(Len(q) - 1) : r[i] = q[i]
  BY <1>1
<1>4. Len(q) = 1 => r = <<>>
  BY <1>1, <1>2
<1> HIDE DEF r
<1> QED
  BY <1>1, <1>2, <1>3, <1>4

LEMMA CallGoesOn ==
    ASSUME NEW S, NEW q \in Seq(S), q # <<>>, NEW x
    PROVE  LET r == [q EXCEPT ![Len(q)] = x] IN
           /\ DOMAIN r = DOMAIN q /\ Len(q) \in DOMAIN q /\ Last(q) = q[Len(q)]
           /\ r[Len(q)] = x
           /\ \A i \in DOMAIN q : i # Len(q) => r[i] = q[i]
BY DEF Last

(* Steps that publish() with guarantee does not notice.                    *)
PlainCall(at) == [msg |-> NoMsg, id |-> 0, qos |-> 0, at |-> at, cycles |-> 0]

Quietly ==
    /\ UNCHANGED <<ackVars, dataLog, handed>>
    /\ \/ UNCHANGED calls
       \/ \E at \in {"compulsory", "ping"} : calls' = Append(calls, PlainCall(at))
       \/ calls # <<>> /\ Top.qos = 0 /\ calls' = Front(calls)

LEMMA TopIs ==
    ASSUME TypeOK, LoopInv, calls # <<>>
    PROVE  /\ Top = calls[Len(calls)] /\ Len(calls) \in DOMAIN calls
           /\ Top \in Frames /\ CallOK(Top)
<1>1. calls \in Seq(Frames)
  BY DEF TypeOK, StackType
<1>2. Top = calls[Len(calls)] /\ Len(calls) \in DOMAIN calls
  BY <1>1, CallReturns DEF Top
<1> QED
  BY <1>1, <1>2 DEF LoopInv

(* The steps, as publish() with guarantee sees them.                       *)
LEMMA Steps ==
    ASSUME TypeOK, LoopInv, [Next]_vars
    PROVE  \/ Exit \/ InitInstaMsg \/ Quietly
           \/ CompulsoryReadEnds /\ Top.qos # 0
           \/ PubAckCycle \/ PubAckTimeout \/ PubAckWaitEnds
           \/ ReceiveAck \/ ReceivePubrec
           \/ /\ RunBusinessLogic \/ ReceiveCommand
              /\ \E m \in AppMsgs \ handed : Publish(m, 1, FALSE, dataLog)
           \/ /\ ReceiveCommand
              /\ \E qos \in {1, 2} : Publish(Head(toClient).msg, qos, TRUE, dataLog)
              /\ Head(toClient).kind \in {"file1", "file2"}
           \/ ResendRecord
<1>1. CASE CompulsoryReadEnds
  BY <1>1, Zenon DEF CompulsoryReadEnds, ReadPacketFails, Return, Quietly
<1>2. CASE PingWaitEnds
  <2>1. calls # <<>> /\ Top.at = "ping" /\ calls' = Front(calls)
        /\ UNCHANGED <<ackVars, dataLog, handed>>
    BY <1>2, Zenon DEF PingWaitEnds, ReadPacketFails, Return
  <2>2. Top.qos = 0
    BY <2>1, TopIs DEF CallOK
  <2> QED
    BY <2>1, <2>2, Zenon DEF Quietly
<1>3. CASE ConnectionWaitCycle \/ MainReadEnds
  BY <1>3, Zenon DEF ConnectionWaitCycle, MainReadEnds, ReadPacketFails, Quietly
<1>4. CASE ReceiveConnack
  BY <1>4, Zenon DEF ReceiveConnack, PlainCall, Quietly
<1>5. PublishPlain \/ Ping => Quietly
  BY Zenon DEF PublishPlain, Ping, PlainCall, Quietly
<1>6. UNCHANGED <<calls, ackVars, dataLog, handed>> => Quietly
  BY Zenon DEF Quietly
<1>7. CASE ReceiveCommand
  BY <1>5, <1>6, <1>7 DEF ReceiveCommand, ApplicationPublishes
<1>8. CASE TimedPublishes \/ SendFirstGpsLocation
  BY <1>5, <1>6, <1>8, Zenon DEF TimedPublishes, SendFirstGpsLocation
<1>9. CASE RunBusinessLogic
  BY <1>6, <1>9, Zenon DEF RunBusinessLogic, ApplicationPublishes
<1>10. CASE EnterLoop \/ NothingToResend \/ AfterResend
            \/ RemoveExpiredResultHandlers \/ SkipBusinessLogic
  BY <1>6, <1>10, Zenon
     DEF EnterLoop, NothingToResend, AfterResend, RemoveExpiredResultHandlers,
         SkipBusinessLogic
<1>11. CASE AfterBusinessLogic \/ EndOfLoop
  BY <1>6, <1>11, Zenon DEF AfterBusinessLogic, EndOfLoop, ClearInstaMsg
<1>12. CASE Environment
  BY <1>6, <1>12, Zenon
     DEF Environment, ServerAnswers, ServerCommands, Crash, Stabilise
<1>13. CASE UNCHANGED vars
  BY <1>6, <1>13, Zenon DEF vars
<1> QED
  BY <1>1, <1>2, <1>3, <1>4, <1>7, <1>8, <1>9, <1>10, <1>11, <1>12, <1>13, Zenon
     DEF Next, Client, ReadEnds, ReceivePacket

LEMMA ReturnLoop ==
    ASSUME TypeOK, calls # <<>>, Return
    PROVE  ~reading' => calls' = <<>>
<1>1. calls' = Front(calls) /\ (~reading' => ~(Len(calls) > 1))
  BY Zenon DEF Return
<1>2. calls \in Seq(Frames)
  BY DEF TypeOK, StackType
<1>3. Len(calls) \in Nat \ {0} /\ (Len(calls) = 1 => Front(calls) = <<>>)
  BY <1>2, CallReturns
<1> QED
  BY <1>1, <1>3

(* What is read, and when.                                                 *)
LEMMA NextReading ==
    ASSUME TypeOK, LoopInv, [Next]_vars
    PROVE  /\ ~reading' => calls' = <<>>
           /\ pc' \in {"down", "init"} => ~reading'
<1> DEFINE Goal == /\ ~reading' => calls' = <<>>
                   /\ pc' \in {"down", "init"} => ~reading'
<1>0. /\ ~reading => calls = <<>>
      /\ pc \in {"down", "init"} => ~reading
  BY Zenon DEF LoopInv
<1>1. ASSUME reading, pc' = pc, reading' \/ calls' = <<>> PROVE Goal
  BY <1>0, <1>1, Zenon
<1>2. ASSUME UNCHANGED <<pc, reading, calls>> PROVE Goal
  BY <1>0, <1>2, Zenon
<1>3. ASSUME pc' \notin {"down", "init"}, reading' \/ calls' = <<>> PROVE Goal
  BY <1>3, Zenon
<1>4. CASE Exit
  BY <1>4, Zenon DEF Exit
<1>5. CASE InitInstaMsg
  <2>1. /\ pc' = "loop" /\ pc \in {"down", "init"} /\ UNCHANGED <<calls, reading>>
    BY <1>5, Zenon DEF InitInstaMsg
  <2> QED
    BY <1>0, <1>3, <2>1
<1>6. CASE ReadEnds
  <2>1. reading
    BY <1>6, Zenon
       DEF ReadEnds, CompulsoryReadEnds, PubAckCycle, PubAckTimeout,
           PubAckWaitEnds, PingWaitEnds, ConnectionWaitCycle, MainReadEnds,
           ReadPacketFails
  <2>2. CASE ConnectionWaitCycle
    <3>1. UNCHANGED reading /\ pc' \notin {"down", "init"}
      BY <2>2, Zenon DEF ConnectionWaitCycle
    <3> QED
      BY <1>3, <2>1, <3>1, Zenon
  <2>3. CASE MainReadEnds
    BY <1>3, <2>3, Zenon DEF MainReadEnds
  <2>4. CASE PubAckCycle
    BY <1>1, <2>1, <2>4, Zenon DEF PubAckCycle
  <2>5. CASE Return /\ calls # <<>> /\ pc' = pc
    BY <1>1, <2>1, <2>5, ReturnLoop, Zenon
  <2>6. CASE CompulsoryReadEnds
    BY <1>1, <2>1, <2>5, <2>6, Zenon DEF CompulsoryReadEnds
  <2> QED
    BY <1>6, <2>2, <2>3, <2>4, <2>5, <2>6, Zenon
       DEF ReadEnds, PubAckTimeout, PubAckWaitEnds, PingWaitEnds, Waiting
<1>7. PublishPlain \/ Ping => UNCHANGED <<calls, reading>> \/ reading'
  BY Zenon DEF PublishPlain, Ping
<1>8. ASSUME NEW m, NEW qos, NEW isNull, NEW log, Publish(m, qos, isNull, log)
      PROVE  UNCHANGED <<calls, reading>> \/ reading'
  BY <1>8, Zenon DEF Publish
<1>9. CASE ReceivePacket
  <2>1. reading
    BY <1>9, Zenon
       DEF ReceivePacket, ReceiveAck, ReceivePubrec, ReceiveConnack,
           ReceiveCommand, Arrives
  <2>2. CASE ReceiveAck \/ ReceivePubrec
    BY <1>2, <2>2, Zenon DEF ReceiveAck, ReceivePubrec
  <2>3. CASE ReceiveConnack
    <3>1. Exit \/ UNCHANGED <<pc, reading>>
      BY <2>3, Zenon DEF ReceiveConnack
    <3> QED
      BY <1>1, <1>4, <2>1, <3>1, Zenon
  <2>4. CASE ReceiveCommand
    <3>1. \/ Exit
          \/ pc' = pc /\ (UNCHANGED <<calls, reading>> \/ reading')
      BY <1>7, <1>8, <2>4, Zenon DEF ReceiveCommand, ApplicationPublishes
    <3> QED
      BY <1>1, <1>2, <1>4, <2>1, <3>1, Zenon
  <2> QED
    BY <1>9, <2>2, <2>3, <2>4 DEF ReceivePacket
<1>10. ASSUME UNCHANGED <<calls, reading>> \/ reading', pc' \notin {"down", "init"}
       PROVE  Goal
  <2>1. CASE reading'
    BY <1>10, <2>1, Zenon
  <2>2. CASE UNCHANGED <<calls, reading>>
    <3>1. calls' = calls /\ reading' = reading
      BY <2>2, Zenon
    <3>2. ~reading' => calls' = <<>>
      BY <1>0, <3>1, Zenon
    <3> QED
      BY <1>10, <3>2, Zenon
  <2> QED
    BY <1>10, <2>1, <2>2, Zenon
<1>11. CASE EnterLoop \/ ResendRecord \/ NothingToResend \/ AfterResend
            \/ RemoveExpiredResultHandlers \/ TimedPublishes \/ SkipBusinessLogic
            \/ RunBusinessLogic \/ SendFirstGpsLocation
  <2>1. UNCHANGED <<calls, reading>> \/ reading'
    BY <1>7, <1>8, <1>11, Zenon
       DEF EnterLoop, ResendRecord, NothingToResend, AfterResend, TimedPublishes,
           RemoveExpiredResultHandlers, SkipBusinessLogic, SendFirstGpsLocation,
           RunBusinessLogic, ApplicationPublishes
  <2>2. pc' \notin {"down", "init"}
    <3>1. TimedPublishes => pc' \notin {"down", "init"}
      BY TimedPlace
    <3> QED
      BY <1>11, <3>1, Zenon
         DEF EnterLoop, ResendRecord, NothingToResend, AfterResend, RunBusinessLogic,
             RemoveExpiredResultHandlers, SkipBusinessLogic, SendFirstGpsLocation
  <2> QED
    BY <1>10, <2>1, <2>2
<1>12. CASE AfterBusinessLogic \/ EndOfLoop
  <2>1. \/ Exit
        \/ ~reading /\ UNCHANGED <<calls, reading>>
    BY <1>12, Zenon DEF AfterBusinessLogic, EndOfLoop, ClearInstaMsg, At
  <2>2. CASE ~reading /\ UNCHANGED <<calls, reading>>
    <3>1. calls' = <<>> /\ ~reading'
      BY <1>0, <2>2, Zenon
    <3> QED
      BY <3>1, Zenon
  <2> QED
    BY <1>4, <2>1, <2>2, Zenon
<1>13. CASE Environment
  BY <1>2, <1>4, <1>13, Zenon
     DEF Environment, ServerAnswers, ServerCommands, Crash, Stabilise
<1>14. CASE UNCHANGED vars
  BY <1>2, <1>14, Zenon DEF vars
<1> QED
  BY <1>4, <1>5, <1>6, <1>9, <1>11, <1>12, <1>13, <1>14, Zenon DEF Next, Client

(* A publish() begins, or does not.                                        *)
LEMMA PublishCalls ==
    ASSUME NEW m, NEW qos, NEW isNull, NEW log, Publish(m, qos, isNull, log)
    PROVE  \/ UNCHANGED calls
           \/ \E at \in {"compulsory", "wait"} :
                calls' = Append(calls, [msg |-> m, id |-> NextPacketId, qos |-> qos,
                                        at |-> at, cycles |-> 0])
BY Zenon DEF Publish

LEMMA NextLoop == TypeOK /\ LoopInv /\ [Next]_vars => LoopInv'
<1> SUFFICES ASSUME TypeOK, LoopInv, [Next]_vars PROVE LoopInv'
  OBVIOUS
<1>1. calls \in Seq(Frames) /\ calls' \in Seq(Frames)
  BY NextType DEF TypeOK, StackType
<1> SUFFICES \A i \in DOMAIN calls' : CallOK(calls'[i])
  BY NextReading, Zenon DEF LoopInv
<1>2. \A i \in DOMAIN calls : CallOK(calls[i])
  BY DEF LoopInv
<1>3. ASSUME NEW x, calls' = Append(calls, x), CallOK(x)
      PROVE  \A i \in DOMAIN calls' : CallOK(calls'[i])
  <2>1. DOMAIN Append(calls, x) = DOMAIN calls \cup {Len(calls) + 1}
    BY <1>1
  <2>2. \A i \in DOMAIN calls : Append(calls, x)[i] = calls[i]
    BY <1>1
  <2>3. Append(calls, x)[Len(calls) + 1] = x
    BY <1>1
  <2> QED
    BY <1>2, <1>3, <2>1, <2>2, <2>3
<1>4. ASSUME calls # <<>>, calls' = Front(calls)
      PROVE  \A i \in DOMAIN calls' : CallOK(calls'[i])
  BY <1>1, <1>2, <1>4, CallReturns
<1>5. ASSUME NEW x, calls # <<>>, calls' = [calls EXCEPT ![Len(calls)] = x],
             CallOK(x)
      PROVE  \A i \in DOMAIN calls' : CallOK(calls'[i])
  BY <1>1, <1>2, <1>5, CallGoesOn
<1>6. CASE UNCHANGED calls
  BY <1>2, <1>6
<1>7. CASE Exit
  <2>1. calls' = <<>>
    BY <1>7, Zenon DEF Exit
  <2> QED
    BY <2>1
<1>8. CASE InitInstaMsg \/ ReceiveAck \/ ReceivePubrec
  BY <1>6, <1>8, Zenon DEF InitInstaMsg, ReceiveAck, ReceivePubrec
<1>9. CASE Quietly
  <2>1. \A at \in {"compulsory", "ping"} : CallOK(PlainCall(at))
    BY DEF CallOK, PlainCall
  <2> QED
    BY <1>3, <1>4, <1>6, <1>9, <2>1, Zenon DEF Quietly
<1>10. CASE CompulsoryReadEnds /\ Top.qos # 0
  <2>1. calls # <<>> /\ calls' = [calls EXCEPT ![Len(calls)].at = "wait"]
    BY <1>10, Zenon DEF CompulsoryReadEnds
  <2>2. Top = calls[Len(calls)] /\ Top \in Frames
    BY <2>1, TopIs
  <2>3. CallOK([Top EXCEPT !.at = "wait"])
    BY <1>10, <2>2 DEF CallOK, Frames
  <2> QED
    BY <1>5, <2>1, <2>2, <2>3
<1>11. CASE PubAckCycle
  <2>1. calls # <<>> /\ calls' = [calls EXCEPT ![Len(calls)].cycles = @ + 1]
    BY <1>11, Zenon DEF PubAckCycle, Waiting
  <2>2. Top = calls[Len(calls)] /\ Top \in Frames /\ CallOK(Top)
    BY <2>1, TopIs
  <2>3. CallOK([Top EXCEPT !.cycles = @ + 1])
    BY <2>2 DEF CallOK, Frames
  <2> QED
    BY <1>5, <2>1, <2>2, <2>3
<1>12. CASE PubAckTimeout \/ PubAckWaitEnds
  BY <1>4, <1>12, Zenon DEF PubAckTimeout, PubAckWaitEnds, Waiting, Return
<1>13. ASSUME NEW m, NEW qos \in {1, 2}, NEW isNull, NEW log,
              Publish(m, qos, isNull, log)
       PROVE  \A i \in DOMAIN calls' : CallOK(calls'[i])
  <2>1. \A at \in {"compulsory", "wait"} :
          CallOK([msg |-> m, id |-> NextPacketId, qos |-> qos, at |-> at,
                  cycles |-> 0])
    BY DEF CallOK
  <2> QED
    BY <1>3, <1>6, <1>13, <2>1, PublishCalls, Zenon
<1>14. CASE ResendRecord
  BY <1>6, <1>13, <1>14 DEF ResendRecord
<1>15. 1 \in {1, 2}
  OBVIOUS
<1> QED
  BY <1>7, <1>8, <1>9, <1>10, <1>11, <1>12, <1>13, <1>14, <1>15, Steps

-----------------------------------------------------------------------------
(* Who has a message: the data log, lastPub, or the server with a command  *)
(* that is still to be answered by it.                                     *)
CommandsOf(q) == {i \in DOMAIN q : q[i].type = "COMMAND"}

CommandOK(c, h) ==
    /\ c.kind \in Commands
    /\ c.msg \in FileAcks \cup {NoMsg}
    /\ c.msg \notin h \/ c.msg = NoMsg
    /\ c.kind \in {"file1", "file2"} => c.msg \in FileAcks

CommandsOK(q, h) ==
    /\ \A i \in CommandsOf(q) : CommandOK(q[i], h)
    /\ \A i, j \in CommandsOf(q) :
         q[i].msg = q[j].msg => i = j \/ q[i].msg = NoMsg

(* The file-transfer commands under way are to be answered by messages that*)
(* are all different, and that nobody has published.                       *)
CommandsInv == CommandsOK(toClient, handed)

ElementsOf(log) == {log[i] : i \in DOMAIN log}

Unique(log) ==
    \A i, j \in DOMAIN log : log[i] = log[j] => i = j \/ log[i] = NoMsg

(* A message is in one place, and only what was handed to publish() is in  *)
(* a place.                                                                *)
CustodyOK(log, last, h) ==
    /\ Unique(log)
    /\ ElementsOf(log) \subseteq h \cup {NoMsg}
    /\ last \in h \cup {NoMsg}
    /\ last \in ElementsOf(log) => last = NoMsg

CustodyInv == CustodyOK(dataLog, lastPub, handed)

LEMMA TailIs ==
    ASSUME NEW S, NEW q \in Seq(S), q # <<>>
    PROVE  /\ Tail(q) \in Seq(S) /\ Len(q) \in Nat \ {0} /\ DOMAIN q = 1..Len(q)
           /\ DOMAIN Tail(q) = 1..(Len(q) - 1)
           /\ \A i \in DOMAIN Tail(q) :
                i + 1 \in DOMAIN q /\ i + 1 # 1 /\ Tail(q)[i] = q[i + 1]
           /\ \A i, j \in DOMAIN Tail(q) : i + 1 = j + 1 => i = j
           /\ Head(q) = q[1] /\ 1 \in DOMAIN q
OBVIOUS

LEMMA CommandsTail ==
    ASSUME NEW q \in Seq(ToClient), q # <<>>, NEW h, CommandsOK(q, h)
    PROVE  /\ CommandsOK(Tail(q), h)
           /\ Head(q).type = "COMMAND" => CommandOK(Head(q), h)
           /\ Head(q).type = "COMMAND" => CommandsOK(Tail(q), h \cup {Head(q).msg})
<1> DEFINE r == Tail(q)
<1>0. /\ \A i \in DOMAIN r : i + 1 \in DOMAIN q /\ i + 1 # 1 /\ r[i] = q[i + 1]
      /\ \A i, j \in DOMAIN r : i + 1 = j + 1 => i = j
      /\ Head(q) = q[1] /\ 1 \in DOMAIN q
  BY TailIs
<1> HIDE DEF r
<1>1. \A i \in CommandsOf(r) :
        i \in DOMAIN r /\ i + 1 \in CommandsOf(q) /\ i + 1 # 1 /\ r[i] = q[i + 1]
  BY <1>0 DEF CommandsOf
<1>2. CommandsOK(r, h)
  <2>1. \A i \in CommandsOf(r) : CommandOK(r[i], h)
    BY <1>1 DEF CommandsOK
  <2>2. ASSUME NEW i \in CommandsOf(r), NEW j \in CommandsOf(r),
               r[i].msg = r[j].msg
        PROVE  i = j \/ r[i].msg = NoMsg
    BY <1>0, <1>1, <2>2 DEF CommandsOK
  <2> QED
    BY <2>1, <2>2 DEF CommandsOK
<1>3. ASSUME Head(q).type = "COMMAND"
      PROVE  CommandOK(Head(q), h) /\ CommandsOK(r, h \cup {Head(q).msg})
  <2>1. 1 \in CommandsOf(q) /\ Head(q) = q[1]
    BY <1>0, <1>3 DEF CommandsOf
  <2>2. \A i \in CommandsOf(r) : r[i].msg # Head(q).msg \/ r[i].msg = NoMsg
    BY <1>1, <2>1 DEF CommandsOK
  <2> QED
    BY <1>2, <2>1, <2>2 DEF CommandsOK, CommandOK
<1> QED
  BY <1>2, <1>3 DEF r

LEMMA CommandsHanded ==
    ASSUME NEW q, NEW h, NEW m, CommandsOK(q, h),
           m \in h \/ m = NoMsg \/ m \notin FileAcks
    PROVE  CommandsOK(q, h \cup {m})
BY DEF CommandsOK, CommandOK

LEMMA CommandsAppend ==
    ASSUME NEW q \in Seq(ToClient), NEW p \in ToClient, NEW h, CommandsOK(q, h),
           p.type = "COMMAND" =>
             /\ CommandOK(p, h)
             /\ p.msg = NoMsg \/ \A i \in CommandsOf(q) : q[i].msg # p.msg
    PROVE  CommandsOK(Append(q, p), h)
<1> DEFINE r == Append(q, p)
<1>1. \A i \in DOMAIN r : \/ i \in DOMAIN q /\ r[i] = q[i]
                          \/ i = Len(q) + 1 /\ r[i] = p
  BY CallBegins, SMT
<1> HIDE DEF r
<1>2. \A i \in CommandsOf(r) :
        \/ i \in CommandsOf(q) /\ r[i] = q[i]
        \/ i = Len(q) + 1 /\ r[i] = p /\ p.type = "COMMAND"
  BY <1>1 DEF CommandsOf
<1>3. \A i \in CommandsOf(r) : CommandOK(r[i], h)
  BY <1>2 DEF CommandsOK
<1>4. ASSUME NEW i \in CommandsOf(r), NEW j \in CommandsOf(r), r[i].msg = r[j].msg
      PROVE  i = j \/ r[i].msg = NoMsg
  BY <1>2, <1>4 DEF CommandsOK
<1> QED
  BY <1>3, <1>4 DEF CommandsOK, r

LEMMA SavedIs ==
    ASSUME ConstantsAssumption,
           NEW S, NEW log \in Seq(S), NEW m \in S, NEW h,
           Unique(log), ElementsOf(log) \subseteq h \cup {NoMsg}, m \in h \cup {NoMsg},
           m \notin ElementsOf(log) \/ m = NoMsg
    PROVE  /\ Unique(SaveRecord(log, m))
           /\ ElementsOf(SaveRecord(log, m)) \subseteq h \cup {NoMsg}
<1> DEFINE kept == IF Len(log) < MAX_DATA_RECORDS THEN log ELSE Tail(log)
           r == Append(kept, m)
<1>1. MAX_DATA_RECORDS \in Nat \ {0}
  BY DEF ConstantsAssumption
<1>2. /\ kept \in Seq(S)
      /\ \E d \in {0, 1} : \A i \in DOMAIN kept :
           i + d \in DOMAIN log /\ kept[i] = log[i + d]
  <2>1. CASE Len(log) < MAX_DATA_RECORDS
    BY <2>1
  <2>2. CASE ~(Len(log) < MAX_DATA_RECORDS)
    <3>1. log # <<>>
      BY <1>1, <2>2
    <3> QED
      BY <2>2, <3>1, TailIs
  <2> QED
    BY <2>1, <2>2
<1> HIDE DEF kept
<1>3. PICK d \in {0, 1} : \A i \in DOMAIN kept :
        i + d \in DOMAIN log /\ kept[i] = log[i + d]
  BY <1>2
<1>4. \A i \in DOMAIN kept : i \in Int
  BY <1>2
<1>5. /\ \A i \in DOMAIN r : \/ i \in DOMAIN kept /\ r[i] = kept[i]
                             \/ i = Len(kept) + 1 /\ r[i] = m
  BY <1>2, CallBegins, SMT
<1> HIDE DEF r
<1>6. \A i, j \in DOMAIN kept : kept[i] = kept[j] => i = j \/ kept[i] = NoMsg
  <2> TAKE i \in DOMAIN kept, j \in DOMAIN kept
  <2>1. kept[i] = kept[j] => i + d = j + d \/ kept[i] = NoMsg
    BY <1>3 DEF Unique
  <2> QED
    BY <1>4, <2>1
<1>7. \A i \in DOMAIN kept : kept[i] \in ElementsOf(log)
  BY <1>3 DEF ElementsOf
<1>8. Unique(r)
  <2>1. ASSUME NEW i \in DOMAIN r, NEW j \in DOMAIN r, r[i] = r[j]
        PROVE  i = j \/ r[i] = NoMsg
    BY <1>5, <1>6, <1>7, <2>1
  <2> QED
    BY <2>1 DEF Unique
<1>9. ElementsOf(r) \subseteq h \cup {NoMsg}
  BY <1>5, <1>7 DEF ElementsOf
<1> QED
  BY <1>8, <1>9 DEF SaveRecord, r, kept

LEMMA TailCustody ==
    ASSUME NEW S, NEW log \in Seq(S), log # <<>>, Unique(log)
    PROVE  /\ Unique(Tail(log)) /\ ElementsOf(Tail(log)) \subseteq ElementsOf(log)
           /\ Head(log) \in ElementsOf(log)
           /\ Head(log) \notin ElementsOf(Tail(log)) \/ Head(log) = NoMsg
<1> DEFINE r == Tail(log)
<1>1. /\ \A i \in DOMAIN r : i + 1 \in DOMAIN log /\ i + 1 # 1 /\ r[i] = log[i + 1]
      /\ \A i, j \in DOMAIN r : i + 1 = j + 1 => i = j
      /\ Head(log) = log[1] /\ 1 \in DOMAIN log
  BY TailIs
<1> HIDE DEF r
<1>2. \A i \in DOMAIN r : r[i] # log[1] \/ r[i] = NoMsg
  BY <1>1 DEF Unique
<1>3. Unique(r)
  <2>1. ASSUME NEW i \in DOMAIN r, NEW j \in DOMAIN r, r[i] = r[j]
        PROVE  i = j \/ r[i] = NoMsg
    BY <1>1, <2>1 DEF Unique
  <2> QED
    BY <2>1 DEF Unique
<1>4. ElementsOf(r) \subseteq ElementsOf(log) /\ Head(log) \in ElementsOf(log)
  BY <1>1 DEF ElementsOf
<1>5. Head(log) \notin ElementsOf(r) \/ Head(log) = NoMsg
  BY <1>1, <1>2 DEF ElementsOf
<1> QED
  BY <1>3, <1>4, <1>5 DEF r

(* What publish() and a timeout do with the message.                       *)
LEMMA PublishCustody ==
    ASSUME ConstantsAssumption,
           NEW m \in Msgs \cup {NoMsg}, NEW qos, NEW isNull,
           NEW log \in Seq(Msgs \cup {NoMsg}),
           Unique(log), ElementsOf(log) \subseteq handed \cup {NoMsg},
           m \notin ElementsOf(log) \/ m = NoMsg,
           Publish(m, qos, isNull, log)
    PROVE  CustodyInv' /\ handed' = handed \cup {m}
<1>1. handed' = handed \cup {m}
  BY Zenon DEF Publish
<1>2. /\ m \in handed' \cup {NoMsg}
      /\ ElementsOf(log) \subseteq handed' \cup {NoMsg}
  BY <1>1
<1>3. \/ dataLog' = log /\ lastPub' = m
      \/ dataLog' = log /\ lastPub' = NoMsg
      \/ dataLog' = SaveRecord(log, m) /\ lastPub' = NoMsg
  BY Zenon DEF Publish, SaveFailedPublishedMessage
<1>4. CASE dataLog' = SaveRecord(log, m) /\ lastPub' = NoMsg
  BY <1>1, <1>2, <1>4, SavedIs DEF CustodyInv, CustodyOK
<1>5. CASE dataLog' = log /\ lastPub' \in {m, NoMsg}
  BY <1>1, <1>2, <1>5 DEF CustodyInv, CustodyOK
<1> QED
  BY <1>1, <1>3, <1>4, <1>5

LEMMA InitCustody == Init => CommandsInv /\ CustodyInv
<1> SUFFICES ASSUME Init PROVE CommandsInv /\ CustodyInv
  OBVIOUS
<1>1. toClient = <<>> /\ dataLog = <<>> /\ lastPub = NoMsg
  BY Zenon DEF Init
<1> QED
  BY <1>1 DEF CommandsInv, CommandsOK, CommandsOf, CustodyInv, CustodyOK, Unique,
              ElementsOf

LEMMA NextCustody ==
    ASSUME TypeOK, LoopInv, CommandsInv, CustodyInv, [Next]_vars
    PROVE  CustodyInv'
<1>1. /\ dataLog \in Seq(Msgs \cup {NoMsg}) /\ lastPub \in Msgs \cup {NoMsg}
      /\ toClient \in Seq(ToClient)
  BY DEF TypeOK, MessageType, AckType, NetType
<1>2. CustodyOK(dataLog, lastPub, handed)
  BY DEF CustodyInv
<1>3. ASSUME dataLog' = dataLog, handed' = handed, lastPub' \in {lastPub, NoMsg}
      PROVE  CustodyInv'
  BY <1>2, <1>3 DEF CustodyInv, CustodyOK
<1>4. CASE Exit \/ InitInstaMsg \/ Quietly \/ (CompulsoryReadEnds /\ Top.qos # 0)
             \/ PubAckCycle \/ PubAckWaitEnds
  <2>1. /\ dataLog' = dataLog /\ handed' = handed
        /\ lastPub' = lastPub \/ lastPub' = NoMsg
    BY <1>4, Zenon
       DEF Exit, InitInstaMsg, Quietly, CompulsoryReadEnds, PubAckCycle,
           PubAckWaitEnds, ReadPacketFails, ackVars
  <2> QED
    BY <1>3, <2>1
<1>5. CASE ReceiveAck \/ ReceivePubrec
  <2>1. /\ dataLog' = dataLog /\ handed' = handed
        /\ lastPub' = lastPub \/ lastPub' = NoMsg
    BY <1>5, Zenon DEF ReceiveAck, ReceivePubrec, FireResultHandler, StopWaiting
  <2> QED
    BY <1>3, <2>1
<1>6. CASE PubAckTimeout
  <2>1. /\ handed' = handed
        /\ \/ dataLog' = SaveRecord(dataLog, lastPub) /\ lastPub' = NoMsg
           \/ dataLog' = dataLog /\ lastPub' = lastPub
    BY <1>6, Zenon DEF PubAckTimeout, ReadPacketFails, SaveFailedPublishedMessage
  <2>2. CASE dataLog' = SaveRecord(dataLog, lastPub) /\ lastPub' = NoMsg
    <3>1. /\ Unique(SaveRecord(dataLog, lastPub))
          /\ ElementsOf(SaveRecord(dataLog, lastPub)) \subseteq handed \cup {NoMsg}
      BY <1>1, <1>2, ConstantsAssumption, SavedIs DEF CustodyOK
    <3> QED
      BY <2>1, <2>2, <3>1 DEF CustodyInv, CustodyOK
  <2> QED
    BY <1>3, <2>1, <2>2
<1>7. ASSUME NEW m \in AppMsgs \ handed, Publish(m, 1, FALSE, dataLog)
      PROVE  CustodyInv'
  <2>1. m \in Msgs \cup {NoMsg} /\ m \notin ElementsOf(dataLog)
    BY <1>2, ConstantsAssumption DEF CustodyOK, Msgs, ConstantsAssumption
  <2> QED
    BY <1>1, <1>2, <1>7, <2>1, ConstantsAssumption, PublishCustody DEF CustodyOK
<1>8. CASE /\ ReceiveCommand
           /\ \E qos \in {1, 2} : Publish(Head(toClient).msg, qos, TRUE, dataLog)
           /\ Head(toClient).kind \in {"file1", "file2"}
  <2>1. toClient # <<>> /\ Head(toClient).type = "COMMAND"
    BY <1>8, Zenon DEF ReceiveCommand, Arrives
  <2>2. CommandOK(Head(toClient), handed)
    BY <1>1, <2>1, CommandsTail DEF CommandsInv
  <2>3. /\ Head(toClient).msg \in Msgs \cup {NoMsg}
        /\ Head(toClient).msg \notin ElementsOf(dataLog)
    BY <1>2, <1>8, <2>2, ConstantsAssumption
       DEF CustodyOK, CommandOK, Msgs, ConstantsAssumption
  <2> QED
    BY <1>1, <1>2, <1>8, <2>3, ConstantsAssumption, PublishCustody DEF CustodyOK
<1>9. CASE ResendRecord
  <2>1. /\ dataLog # <<>>
        /\ \/ Publish(Head(dataLog), 1, FALSE, Tail(dataLog))
           \/ dataLog' = Tail(dataLog) /\ handed' = handed /\ lastPub' = lastPub
    BY <1>9, Zenon DEF ResendRecord, ackVars
  <2>2. /\ Unique(Tail(dataLog))
        /\ ElementsOf(Tail(dataLog)) \subseteq ElementsOf(dataLog)
        /\ Head(dataLog) \notin ElementsOf(Tail(dataLog)) \/ Head(dataLog) = NoMsg
        /\ Tail(dataLog) \in Seq(Msgs \cup {NoMsg})
    BY <1>1, <1>2, <2>1, TailCustody, TailIs DEF CustodyOK
  <2>3. Head(dataLog) \in Msgs \cup {NoMsg}
    BY <1>1, <2>1
  <2>4. CASE dataLog' = Tail(dataLog) /\ handed' = handed /\ lastPub' = lastPub
    BY <1>2, <2>2, <2>4 DEF CustodyInv, CustodyOK
  <2>5. CASE Publish(Head(dataLog), 1, FALSE, Tail(dataLog))
    <3>1. ElementsOf(Tail(dataLog)) \subseteq handed \cup {NoMsg}
      BY <1>2, <2>2 DEF CustodyOK
    <3> QED
      BY <2>2, <2>3, <2>5, <3>1, ConstantsAssumption, PublishCustody
  <2> QED
    BY <2>1, <2>4, <2>5
<1> QED
  BY <1>4, <1>5, <1>6, <1>7, <1>8, <1>9, Steps, Zenon

(* How the packets on the way to the client change, and with them what has *)
(* been handed to publish().                                               *)
LEMMA NextCommands ==
    ASSUME TypeOK, LoopInv, CommandsInv, CustodyInv, [Next]_vars
    PROVE  CommandsInv'
<1>1. /\ dataLog \in Seq(Msgs \cup {NoMsg}) /\ toClient \in Seq(ToClient)
      /\ CommandsOK(toClient, handed) /\ ElementsOf(dataLog) \subseteq handed \cup {NoMsg}
  BY DEF TypeOK, MessageType, NetType, CommandsInv, CustodyInv, CustodyOK
<1>2. ASSUME toClient' = <<>> PROVE CommandsInv'
  BY <1>2 DEF CommandsInv, CommandsOK, CommandsOf
<1>3. ASSUME UNCHANGED <<toClient, handed>> PROVE CommandsInv'
  BY <1>1, <1>3 DEF CommandsInv
<1>4. ASSUME NEW m, NEW qos, NEW isNull, NEW log, Publish(m, qos, isNull, log)
      PROVE  handed' = handed \cup {m}
  BY <1>4, Zenon DEF Publish
<1>5. ASSUME NEW m \in AppMsgs, CommandsOK(toClient', handed), handed' = handed \cup {m}
      PROVE  CommandsInv'
  <2>1. m \notin FileAcks
    BY ConstantsAssumption DEF ConstantsAssumption
  <2> QED
    BY <1>5, <2>1, CommandsHanded DEF CommandsInv
<1>6. ApplicationPublishes =>
        \/ handed' = handed
        \/ \E m \in AppMsgs : handed' = handed \cup {m}
  BY <1>4, Zenon DEF ApplicationPublishes
<1>7. PublishPlain \/ Ping => handed' = handed
  BY Zenon DEF PublishPlain, Ping
<1>8. CASE Exit \/ InitInstaMsg
  BY <1>2, <1>8, Zenon DEF Exit, InitInstaMsg
<1>9. CASE ReadEnds
  <2>1. ReadPacketFails
    BY <1>9, Zenon
       DEF ReadEnds, CompulsoryReadEnds, PubAckCycle, PubAckTimeout,
           PubAckWaitEnds, PingWaitEnds, ConnectionWaitCycle, MainReadEnds
  <2> QED
    BY <1>3, <2>1, Zenon DEF ReadPacketFails, netVars
<1>10. CASE ReceivePacket
  <2>1. toClient # <<>> /\ (Exit \/ toClient' = Tail(toClient))
    BY <1>10, Zenon
       DEF ReceivePacket, ReceiveAck, ReceivePubrec, ReceiveConnack,
           ReceiveCommand, Arrives
  <2>2. CASE toClient' = Tail(toClient)
    <3>1. /\ CommandsOK(toClient', handed)
          /\ Head(toClient).type = "COMMAND" =>
               CommandsOK(toClient', handed \cup {Head(toClient).msg})
      BY <1>1, <2>1, <2>2, CommandsTail
    <3>2. \/ handed' = handed
          \/ \E m \in AppMsgs : handed' = handed \cup {m}
          \/ Exit
          \/ /\ Head(toClient).type = "COMMAND"
             /\ handed' = handed \cup {Head(toClient).msg}
      <4>1. CASE ReceiveCommand
        BY <1>4, <1>6, <1>7, <4>1, Zenon DEF ReceiveCommand, Arrives
      <4>2. CASE ReceiveAck \/ ReceivePubrec \/ ReceiveConnack
        BY <4>2, Zenon DEF ReceiveAck, ReceivePubrec, ReceiveConnack
      <4> QED
        BY <1>10, <4>1, <4>2 DEF ReceivePacket
    <3>3. CASE handed' = handed
      BY <3>1, <3>3 DEF CommandsInv
    <3>4. CASE /\ Head(toClient).type = "COMMAND"
               /\ handed' = handed \cup {Head(toClient).msg}
      BY <3>1, <3>4 DEF CommandsInv
    <3> QED
      BY <1>5, <1>8, <3>1, <3>2, <3>3, <3>4
  <2> QED
    BY <1>8, <2>1, <2>2
<1>11. CASE ResendRecord
  <2>1. /\ UNCHANGED toClient /\ dataLog # <<>>
        /\ handed' = handed \/ handed' = handed \cup {Head(dataLog)}
    BY <1>4, <1>11, Zenon DEF ResendRecord
  <2>2. Head(dataLog) \in handed \cup {NoMsg}
    BY <1>1, <2>1, TailIs DEF ElementsOf
  <2>3. CommandsOK(toClient, handed \cup {Head(dataLog)})
    BY <1>1, <2>2, CommandsHanded
  <2> QED
    BY <1>1, <2>1, <2>3 DEF CommandsInv
<1>12. CASE RunBusinessLogic
  <2>1. UNCHANGED toClient /\ ApplicationPublishes
    BY <1>12, Zenon DEF RunBusinessLogic
  <2>2. CommandsOK(toClient', handed)
    BY <1>1, <2>1
  <2> QED
    BY <1>3, <1>5, <1>6, <2>1, <2>2
<1>13. CASE EnterLoop \/ NothingToResend \/ AfterResend \/ TimedPublishes
            \/ RemoveExpiredResultHandlers \/ SkipBusinessLogic
            \/ SendFirstGpsLocation
            \/ AfterBusinessLogic \/ EndOfLoop
  <2>1. Exit \/ UNCHANGED <<toClient, handed>>
    BY <1>7, <1>13, Zenon
       DEF EnterLoop, NothingToResend, AfterResend, TimedPublishes,
           RemoveExpiredResultHandlers, SkipBusinessLogic, AfterBusinessLogic,
           SendFirstGpsLocation,
           EndOfLoop, ClearInstaMsg, netVars
  <2> QED
    BY <1>3, <1>8, <2>1
<1>14. CASE ServerAnswers
  <2>1. /\ UNCHANGED handed
        /\ \/ UNCHANGED toClient
           \/ \E p : toClient' = Append(toClient, p) /\ p.type # "COMMAND"
                     /\ p \in ToClient
    <3>1. TypeOK'
      BY NextType
    <3>2. /\ UNCHANGED handed
          /\ \/ UNCHANGED toClient
             \/ \E rc : toClient' = Append(toClient, Connack(rc))
             \/ \E t \in {"PUBACK", "PUBREC", "PUBCOMP"} : \E id :
                  toClient' = Append(toClient, Ack(t, id))
      BY <1>14 DEF ServerAnswers, Reply
    <3>3. ASSUME NEW p, toClient' = Append(toClient, p) PROVE p \in ToClient
      BY <1>1, <3>1, <3>3, CallBegins DEF TypeOK, NetType
    <3>4. /\ \A rc : Connack(rc).type # "COMMAND"
          /\ \A t \in {"PUBACK", "PUBREC", "PUBCOMP"} : \A id : Ack(t, id).type # "COMMAND"
      BY DEF Connack, Ack
    <3> QED
      BY <3>2, <3>3, <3>4
  <2> QED
    BY <1>1, <1>3, <2>1, CommandsAppend DEF CommandsInv
<1>15. CASE ServerCommands
  <2>0. PICK kind \in Commands :
          \E m \in IF kind \in {"file1", "file2"} THEN FileAcks \ handed
                   ELSE {NoMsg} :
            /\ \A i \in CommandsUnderway : m = NoMsg \/ toClient[i].msg # m
            /\ toClient' = Append(toClient, Command(kind, m))
    BY <1>15, Zenon DEF ServerCommands
  <2>1. PICK m \in IF kind \in {"file1", "file2"} THEN FileAcks \ handed
                   ELSE {NoMsg} :
          /\ \A i \in CommandsUnderway : m = NoMsg \/ toClient[i].msg # m
          /\ toClient' = Append(toClient, Command(kind, m))
    BY <2>0
  <2>2. handed' = handed /\ CommandsUnderway = CommandsOf(toClient)
    BY <1>15 DEF ServerCommands, CommandsUnderway, CommandsOf
  <2>3. Command(kind, m) \in ToClient /\ CommandOK(Command(kind, m), handed)
        /\ Command(kind, m).msg = m
    BY ConstantsAssumption DEF Command, CommandOK, ToClient, ConstantsAssumption
  <2> QED
    BY <1>1, <2>1, <2>2, <2>3, CommandsAppend DEF CommandsInv
<1>16. CASE Crash \/ Stabilise \/ UNCHANGED vars
  BY <1>3, <1>8, <1>16, Zenon DEF Crash, Stabilise, vars, netVars
<1> QED
  BY <1>8, <1>9, <1>10, <1>11, <1>12, <1>13, <1>14, <1>15, <1>16, Zenon
     DEF Next, Client, Environment

LEMMA OneAtMost ==
    ASSUME NEW S, \A x, y \in S : x = y
    PROVE  IsFiniteSet(S) /\ Cardinality(S) <= 1
<1>1. CASE S = {}
  BY <1>1, FS_EmptySet
<1>2. CASE S # {}
  <2>1. PICK x \in S : TRUE
    BY <1>2
  <2>2. S = {x}
    BY <2>1
  <2>3. IsFiniteSet({x}) /\ Cardinality({x}) = 1
    BY FS_Singleton, Zenon
  <2> QED
    BY <2>2, <2>3
<1> QED
  BY <1>1, <1>2

LEMMA CustodyIsSingle == CustodyInv => SingleCustodian
<1> SUFFICES ASSUME CustodyInv, NEW m \in Msgs PROVE Cardinality(Places(m)) <= 1
  BY DEF SingleCustodian
<1>1. m # NoMsg
  BY ConstantsAssumption DEF ConstantsAssumption
<1>2. \A p \in Places(m) :
        \/ \E i \in DOMAIN dataLog : dataLog[i] = m /\ p = <<"log", i>>
        \/ lastPub = m /\ p = <<"lastPub", 0>>
  BY DEF Places
<1>3. /\ \A i, j \in DOMAIN dataLog : dataLog[i] = m /\ dataLog[j] = m => i = j
      /\ \A i \in DOMAIN dataLog : dataLog[i] = m => lastPub # m
  BY <1>1 DEF CustodyInv, CustodyOK, Unique, ElementsOf
<1>4. \A p, q \in Places(m) : p = q
  BY <1>2, <1>3
<1> QED
  BY <1>4, OneAtMost

(* No message is in two places at once: it is never twice in the data log, *)
(* nor both there and the one publish() waits for.  The log and lastPub    *)
(* together hold each message once (CustodyInv); a resend takes the record *)
(* out first, a new message is in no place yet, and the answer to a        *)
(* file-transfer command is a message of its own (CommandsInv).            *)
THEOREM MessagesAreInOnePlace == Spec => []SingleCustodian
<1> DEFINE Inv == TypeOK /\ LoopInv /\ CommandsInv /\ CustodyInv
<1>1. Init => Inv
  <2>1. Init => calls = <<>> /\ reading = FALSE
    BY Zenon DEF Init
  <2>2. calls = <<>> /\ reading = FALSE => LoopInv
    BY DEF LoopInv
  <2> QED
    BY <2>1, <2>2, InitType, InitCustody
<1>2. Inv /\ [Next]_vars => Inv'
  BY NextType, NextLoop, NextCommands, NextCustody
<1>3. Inv => SingleCustodian
  BY CustodyIsSingle
<1> QED
  BY <1>1, <1>2, <1>3, PTL DEF Spec

-----------------------------------------------------------------------------
(* Whose PUBACK is waited for.                                             *)
GuaranteedIn(q) == {i \in DOMAIN q : q[i].qos > 0}

(* The innermost publish() with guarantee is the one for m, under id.      *)
Owned(q, m, id) ==
    \E i \in GuaranteedIn(q) :
       /\ \A j \in GuaranteedIn(q) : j <= i
       /\ q[i].msg = m /\ q[i].id = id

LEMMA OwnedByPlain ==
    ASSUME NEW q \in Seq(Frames), NEW x \in Frames, x.qos = 0, NEW m, NEW id,
           Owned(q, m, id)
    PROVE  Owned(Append(q, x), m, id)
<1> DEFINE r == Append(q, x)
<1>1. /\ \A i \in DOMAIN q : i \in DOMAIN r /\ r[i] = q[i]
      /\ \A i \in DOMAIN r : \/ i \in DOMAIN q
                             \/ i = Len(q) + 1
      /\ r[Len(q) + 1] = x
  BY CallBegins, SMT
<1> HIDE DEF r
<1>2. GuaranteedIn(r) = GuaranteedIn(q)
  BY <1>1 DEF GuaranteedIn
<1>3. \A i \in GuaranteedIn(q) : r[i] = q[i]
  BY <1>1 DEF GuaranteedIn
<1> QED
  BY <1>2, <1>3 DEF Owned, r

LEMMA OwnedByNew ==
    ASSUME NEW q \in Seq(Frames), NEW x \in Frames, x.qos > 0
    PROVE  Owned(Append(q, x), x.msg, x.id)
<1> DEFINE r == Append(q, x)
<1>1. /\ \A i \in DOMAIN r : i <= Len(q) + 1
      /\ r[Len(q) + 1] = x /\ Len(q) + 1 \in DOMAIN r
  OBVIOUS
<1> HIDE DEF r
<1> QED
  BY <1>1 DEF Owned, GuaranteedIn, r

LEMMA OwnedAfterPlain ==
    ASSUME NEW q \in Seq(Frames), q # <<>>, q[Len(q)].qos = 0, NEW m, NEW id,
           Owned(q, m, id)
    PROVE  Owned(Front(q), m, id)
<1> DEFINE r == Front(q)
<1>1. /\ Len(q) \in Nat \ {0} /\ DOMAIN q = 1..Len(q) /\ DOMAIN r = 1..(Len(q) - 1)
      /\ \A i \in DOMAIN r : r[i] = q[i]
  BY CallReturns
<1> HIDE DEF r
<1>2. GuaranteedIn(r) = GuaranteedIn(q)
  BY <1>1 DEF GuaranteedIn
<1>3. \A i \in GuaranteedIn(q) : r[i] = q[i]
  BY <1>1, <1>2 DEF GuaranteedIn
<1> QED
  BY <1>2, <1>3 DEF Owned, r

LEMMA OwnedStays ==
    ASSUME NEW q \in Seq(Frames), q # <<>>, NEW x \in Frames,
           x.qos = q[Len(q)].qos, x.msg = q[Len(q)].msg, x.id = q[Len(q)].id,
           NEW m, NEW id, Owned(q, m, id)
    PROVE  Owned([q EXCEPT ![Len(q)] = x], m, id)
<1> DEFINE r == [q EXCEPT ![Len(q)] = x]
<1>1. /\ DOMAIN r = DOMAIN q
      /\ \A i \in DOMAIN q : /\ r[i].qos = q[i].qos /\ r[i].msg = q[i].msg
                             /\ r[i].id = q[i].id
  OBVIOUS
<1> HIDE DEF r
<1>2. GuaranteedIn(r) = GuaranteedIn(q)
  BY <1>1 DEF GuaranteedIn
<1>3. \A i \in GuaranteedIn(q) : r[i].msg = q[i].msg /\ r[i].id = q[i].id
  BY <1>1 DEF GuaranteedIn
<1> QED
  BY <1>2, <1>3 DEF Owned, r

(* A process that does not run begins with initInstaMsg.                   *)
LEMMA NextDown ==
    ASSUME LoopInv, [Next]_vars, pc = "down"
    PROVE  InitInstaMsg \/ pc' = "down"
<1>1. ~reading
  BY Zenon DEF LoopInv
<1>2. ~ReadEnds
  BY <1>1, Zenon
     DEF ReadEnds, CompulsoryReadEnds, PubAckCycle, PubAckTimeout, PubAckWaitEnds,
         PingWaitEnds, ConnectionWaitCycle, MainReadEnds, ReadPacketFails
<1>3. ~ReceivePacket
  BY <1>1, Zenon
     DEF ReceivePacket, ReceiveAck, ReceivePubrec, ReceiveConnack, ReceiveCommand,
         Arrives
<1>4. Client => InitInstaMsg
  BY <1>2, <1>3, TimedPlace
     DEF Client, EnterLoop, ResendRecord, NothingToResend, AfterResend,
         RemoveExpiredResultHandlers, RunBusinessLogic, SkipBusinessLogic,
         SendFirstGpsLocation, AfterBusinessLogic, EndOfLoop, At
<1>5. Environment \/ UNCHANGED vars => pc' = "down"
  BY Zenon DEF Environment, ServerAnswers, ServerCommands, Crash, Stabilise, Exit, vars
<1> QED
  BY <1>4, <1>5, Zenon DEF Next

OwnedInv ==
    /\ pc # "down" /\ waitingForPuback = "WAITING_FOR_PUBACK" =>
         lastPub # NoMsg /\ Owned(calls, lastPub, pubAckMsgId)
    /\ NoMsg \notin ElementsOf(dataLog)

LEMMA OwnedIs ==
    OwnedInv => WaitOwnsMessage
BY DEF OwnedInv, WaitOwnsMessage, Owned, GuaranteedIn, Guaranteed

LEMMA SavedElements ==
    ASSUME ConstantsAssumption, NEW S, NEW log \in Seq(S), NEW m \in S
    PROVE  \A e \in ElementsOf(SaveRecord(log, m)) : e \in ElementsOf(log) \/ e = m
<1> DEFINE kept == IF Len(log) < MAX_DATA_RECORDS THEN log ELSE Tail(log)
<1>1. /\ kept \in Seq(S)
      /\ \A i \in DOMAIN kept : kept[i] \in ElementsOf(log)
  <2>1. CASE Len(log) < MAX_DATA_RECORDS
    BY <2>1 DEF ElementsOf
  <2>2. CASE ~(Len(log) < MAX_DATA_RECORDS)
    <3>1. log # <<>>
      BY <2>2 DEF ConstantsAssumption
    <3> QED
      BY <2>2, <3>1, TailIs DEF ElementsOf
  <2> QED
    BY <2>1, <2>2
<1> HIDE DEF kept
<1>2. \A i \in DOMAIN Append(kept, m) :
        \/ i \in DOMAIN kept /\ Append(kept, m)[i] = kept[i]
        \/ Append(kept, m)[i] = m
  BY <1>1, CallBegins, SMT
<1>3. ElementsOf(SaveRecord(log, m)) = ElementsOf(Append(kept, m))
  BY DEF SaveRecord, kept
<1> QED
  BY <1>1, <1>2, <1>3 DEF ElementsOf

(* publish() takes over the wait for a message m that is not NULL, or puts *)
(* it in the log at once.                                                  *)
LEMMA PublishOwns ==
    ASSUME TypeOK, ~HeapMayFail,
           NEW m \in Msgs, NEW qos \in {1, 2}, NEW isNull,
           NEW log \in Seq(Msgs \cup {NoMsg}), NoMsg \notin ElementsOf(log),
           Publish(m, qos, isNull, log)
    PROVE  OwnedInv'
<1>1. calls \in Seq(Frames) /\ m # NoMsg /\ m \in Msgs \cup {NoMsg}
  BY ConstantsAssumption DEF TypeOK, StackType, ConstantsAssumption
<1>2. NextPacketId \in 1..MAX_PACKET_ID
  BY NextPacketIdType DEF TypeOK
<1>3. \/ /\ dataLog' = log /\ lastPub' = m /\ pubAckMsgId' = NextPacketId
         /\ \E at \in {"compulsory", "wait"} :
              calls' = Append(calls, [msg |-> m, id |-> NextPacketId, qos |-> qos,
                                      at |-> at, cycles |-> 0])
      \/ dataLog' = SaveRecord(log, m) /\ waitingForPuback' = "PUBACK_TIMEOUT"
  BY Zenon DEF Publish, SaveFailedPublishedMessage
<1>4. CASE dataLog' = SaveRecord(log, m) /\ waitingForPuback' = "PUBACK_TIMEOUT"
  <2>1. NoMsg \notin ElementsOf(SaveRecord(log, m))
    BY <1>1, SavedElements, ConstantsAssumption
  <2> QED
    BY <1>4, <2>1 DEF OwnedInv, ElementsOf
<1>5. ASSUME NEW at \in {"compulsory", "wait"},
             dataLog' = log, lastPub' = m, pubAckMsgId' = NextPacketId,
             calls' = Append(calls, [msg |-> m, id |-> NextPacketId, qos |-> qos,
                                     at |-> at, cycles |-> 0])
      PROVE  OwnedInv'
  <2> DEFINE x == [msg |-> m, id |-> NextPacketId, qos |-> qos, at |-> at,
                   cycles |-> 0]
  <2>1. NextPacketId \in 0..MAX_PACKET_ID
    BY <1>2
  <2>2. x \in Frames /\ x.qos > 0 /\ x.msg = m /\ x.id = NextPacketId
    BY <1>1, <2>1 DEF Frames
  <2> HIDE DEF x
  <2>3. Owned(Append(calls, x), m, NextPacketId)
    BY <1>1, <2>2, OwnedByNew
  <2>4. calls' = Append(calls, x)
    BY <1>5 DEF x
  <2>5. Owned(calls', lastPub', pubAckMsgId') /\ NoMsg \notin ElementsOf(dataLog')
    BY <1>5, <2>3, <2>4
  <2> QED
    BY <1>1, <1>5, <2>5 DEF OwnedInv, Owned, GuaranteedIn, ElementsOf
<1> QED
  BY <1>3, <1>4, <1>5

LEMMA QuietlyOwns ==
    ASSUME TypeOK, LoopInv, OwnedInv, Quietly, pc = "down" => pc' = "down"
    PROVE  OwnedInv'
<1>1. calls \in Seq(Frames) /\ \A at \in {"compulsory", "ping"} : PlainCall(at) \in Frames
  BY ConstantsAssumption
     DEF TypeOK, StackType, PlainCall, Frames, ConstantsAssumption
<1>2. UNCHANGED <<pubAckMsgId, waitingForPuback, lastPub, dataLog>>
  BY Zenon DEF Quietly, ackVars
<1>3. ASSUME Owned(calls, lastPub, pubAckMsgId)
      PROVE  Owned(calls', lastPub, pubAckMsgId)
  <2>1. CASE calls' = calls
    BY <1>3, <2>1
  <2>2. ASSUME NEW at \in {"compulsory", "ping"},
               calls' = Append(calls, PlainCall(at))
        PROVE  Owned(calls', lastPub, pubAckMsgId)
    <3>1. PlainCall(at).qos = 0
      BY DEF PlainCall
    <3> QED
      BY <1>1, <1>3, <2>2, <3>1, OwnedByPlain
  <2>3. CASE calls # <<>> /\ Top.qos = 0 /\ calls' = Front(calls)
    BY <1>1, <1>3, <2>3, TopIs, OwnedAfterPlain
  <2> QED
    BY <2>1, <2>2, <2>3, Zenon DEF Quietly
<1>4. ASSUME pc' # "down", waitingForPuback' = "WAITING_FOR_PUBACK"
      PROVE  lastPub' # NoMsg /\ Owned(calls', lastPub', pubAckMsgId')
  <2>1. lastPub # NoMsg /\ Owned(calls, lastPub, pubAckMsgId)
    BY <1>2, <1>4, Zenon DEF OwnedInv
  <2> QED
    BY <1>2, <1>3, <2>1
<1>5. NoMsg \notin ElementsOf(dataLog')
  BY <1>2 DEF OwnedInv
<1> QED
  BY <1>4, <1>5 DEF OwnedInv, Owned, GuaranteedIn, ElementsOf

LEMMA NextOwns ==
    ASSUME TypeOK, LoopInv, CommandsInv, OwnedInv, ~HeapMayFail, [Next]_vars
    PROVE  OwnedInv'
<1>1. /\ calls \in Seq(Frames) /\ dataLog \in Seq(Msgs \cup {NoMsg})
      /\ lastPub \in Msgs \cup {NoMsg} /\ toClient \in Seq(ToClient)
  BY DEF TypeOK, StackType, MessageType, AckType, NetType
<1>2. pc = "down" => InitInstaMsg \/ pc' = "down"
  BY NextDown
<1>3. ASSUME dataLog' = dataLog,
             pc' = "down" \/ waitingForPuback' # "WAITING_FOR_PUBACK"
      PROVE  OwnedInv'
  BY <1>3, Zenon DEF OwnedInv, ElementsOf
<1>4. ASSUME UNCHANGED <<waitingForPuback, pubAckMsgId, lastPub, dataLog>>,
             ~InitInstaMsg,
             Owned(calls, lastPub, pubAckMsgId) => Owned(calls', lastPub, pubAckMsgId)
      PROVE  OwnedInv'
  <2>1. ASSUME pc' # "down", waitingForPuback' = "WAITING_FOR_PUBACK"
        PROVE  lastPub' # NoMsg /\ Owned(calls', lastPub', pubAckMsgId')
    <3>1. lastPub # NoMsg /\ Owned(calls, lastPub, pubAckMsgId)
      BY <1>2, <1>4, <2>1, Zenon DEF OwnedInv
    <3> QED
      BY <1>4, <3>1
  <2> QED
    BY <1>4, <2>1 DEF OwnedInv, Owned, GuaranteedIn, ElementsOf
<1>5. CASE Exit \/ InitInstaMsg
  <2>1. /\ dataLog' = dataLog
        /\ pc' = "down" \/ waitingForPuback' = "NOT_WAITING_FOR_PUBACK"
    BY <1>5, Zenon DEF Exit, InitInstaMsg
  <2> QED
    BY <1>3, <2>1
<1>6. CASE Quietly /\ ~InitInstaMsg
  BY <1>2, <1>6, QuietlyOwns
<1>7. ASSUME calls # <<>>, NEW x \in Frames, calls' = [calls EXCEPT ![Len(calls)] = x],
             x.qos = Top.qos, x.msg = Top.msg, x.id = Top.id
      PROVE  Owned(calls, lastPub, pubAckMsgId) => Owned(calls', lastPub, pubAckMsgId)
  BY <1>1, <1>7, TopIs, OwnedStays
<1>8. InitInstaMsg => ~reading /\ calls' = calls
  BY Zenon DEF InitInstaMsg, LoopInv
<1>9. CASE CompulsoryReadEnds /\ Top.qos # 0
  <2>1. /\ calls # <<>> /\ calls' = [calls EXCEPT ![Len(calls)].at = "wait"]
        /\ UNCHANGED <<waitingForPuback, pubAckMsgId, lastPub, dataLog>> /\ reading
    BY <1>9, Zenon DEF CompulsoryReadEnds, ReadPacketFails, ackVars
  <2>2. /\ Top = calls[Len(calls)]
        /\ [Top EXCEPT !.at = "wait"] \in Frames
        /\ calls' = [calls EXCEPT ![Len(calls)] = [Top EXCEPT !.at = "wait"]]
        /\ \A f \in {"qos", "msg", "id"} : [Top EXCEPT !.at = "wait"][f] = Top[f]
    BY <2>1, TopIs DEF Frames
  <2>3. Owned(calls, lastPub, pubAckMsgId) => Owned(calls', lastPub, pubAckMsgId)
    BY <1>7, <2>1, <2>2
  <2> QED
    BY <1>4, <1>8, <2>1, <2>3
<1>10. CASE PubAckCycle
  <2>1. /\ calls # <<>> /\ calls' = [calls EXCEPT ![Len(calls)].cycles = @ + 1]
        /\ UNCHANGED <<waitingForPuback, pubAckMsgId, lastPub, dataLog>> /\ reading
    BY <1>10, Zenon DEF PubAckCycle, Waiting, ReadPacketFails
  <2>2. /\ Top = calls[Len(calls)]
        /\ [Top EXCEPT !.cycles = @ + 1] \in Frames
        /\ calls' = [calls EXCEPT ![Len(calls)] = [Top EXCEPT !.cycles = @ + 1]]
        /\ \A f \in {"qos", "msg", "id"} : [Top EXCEPT !.cycles = @ + 1][f] = Top[f]
    BY <2>1, TopIs DEF Frames
  <2>3. Owned(calls, lastPub, pubAckMsgId) => Owned(calls', lastPub, pubAckMsgId)
    BY <1>7, <2>1, <2>2
  <2> QED
    BY <1>4, <1>8, <2>1, <2>3
<1>11. CASE PubAckTimeout
  <2>1. /\ dataLog' = SaveRecord(dataLog, lastPub)
        /\ waitingForPuback' = "PUBACK_TIMEOUT" /\ reading
        /\ waitingForPuback = "WAITING_FOR_PUBACK"
    BY <1>11, Zenon
       DEF PubAckTimeout, SaveFailedPublishedMessage, ReadPacketFails
  <2>2. pc # "down"
    BY <2>1, Zenon DEF LoopInv
  <2>3. lastPub # NoMsg /\ NoMsg \notin ElementsOf(dataLog)
    BY <2>1, <2>2, Zenon DEF OwnedInv
  <2>4. NoMsg \notin ElementsOf(SaveRecord(dataLog, lastPub))
    BY <1>1, <2>3, SavedElements, ConstantsAssumption
  <2> QED
    BY <2>1, <2>4 DEF OwnedInv, ElementsOf
<1>12. CASE PubAckWaitEnds
  <2>1. dataLog' = dataLog /\ waitingForPuback' # "WAITING_FOR_PUBACK"
    BY <1>12, Zenon DEF PubAckWaitEnds, ackVars
  <2> QED
    BY <1>3, <2>1
<1>13. CASE ReceiveAck \/ ReceivePubrec
  <2>1. /\ dataLog' = dataLog /\ calls' = calls /\ reading
        /\ \/ waitingForPuback' = "NOT_WAITING_FOR_PUBACK"
           \/ UNCHANGED <<waitingForPuback, pubAckMsgId, lastPub>>
    BY <1>13, Zenon
       DEF ReceiveAck, ReceivePubrec, FireResultHandler, StopWaiting, Arrives
  <2>2. Owned(calls, lastPub, pubAckMsgId) => Owned(calls', lastPub, pubAckMsgId)
    BY <2>1
  <2> QED
    BY <1>3, <1>4, <1>8, <2>1, <2>2
<1>14. ASSUME NEW m \in AppMsgs \ handed, Publish(m, 1, FALSE, dataLog)
       PROVE  OwnedInv'
  BY <1>1, <1>14, PublishOwns DEF OwnedInv, Msgs
<1>15. CASE /\ ReceiveCommand
            /\ \E qos \in {1, 2} : Publish(Head(toClient).msg, qos, TRUE, dataLog)
            /\ Head(toClient).kind \in {"file1", "file2"}
  <2>1. toClient # <<>> /\ Head(toClient).type = "COMMAND"
    BY <1>15, Zenon DEF ReceiveCommand, Arrives
  <2>2. CommandOK(Head(toClient), handed)
    BY <1>1, <2>1, CommandsTail DEF CommandsInv
  <2>3. Head(toClient).msg \in Msgs
    BY <1>15, <2>2 DEF CommandOK, Msgs
  <2> QED
    BY <1>1, <1>15, <2>3, PublishOwns DEF OwnedInv
<1>16. CASE ResendRecord
  <2>1. dataLog # <<>> /\ Publish(Head(dataLog), 1, FALSE, Tail(dataLog))
    BY <1>16, Zenon DEF ResendRecord
  <2>2. /\ Head(dataLog) \in ElementsOf(dataLog)
        /\ ElementsOf(Tail(dataLog)) \subseteq ElementsOf(dataLog)
        /\ Tail(dataLog) \in Seq(Msgs \cup {NoMsg}) /\ Head(dataLog) \in Msgs \cup {NoMsg}
    BY <1>1, <2>1, TailIs DEF ElementsOf
  <2>3. Head(dataLog) \in Msgs /\ NoMsg \notin ElementsOf(Tail(dataLog))
    BY <2>2 DEF OwnedInv
  <2> QED
    BY <2>1, <2>2, <2>3, PublishOwns
<1> QED
  BY <1>5, <1>6, <1>9, <1>10, <1>11, <1>12, <1>13, <1>14, <1>15, <1>16, Steps, Zenon

(* As long as the heap suffices, the driver waits for a PUBACK only on     *)
(* behalf of the innermost publish() with guarantee, under its packet id,  *)
(* and holds its message, so that a timeout stores the right record.       *)
THEOREM WaitIsOwned == ~HeapMayFail => (Spec => []WaitOwnsMessage)
<1> SUFFICES ASSUME ~HeapMayFail PROVE Spec => []WaitOwnsMessage
  OBVIOUS
<1> DEFINE Inv == TypeOK /\ LoopInv /\ CommandsInv /\ CustodyInv /\ OwnedInv
<1>1. Init => Inv
  <2> SUFFICES ASSUME Init PROVE Inv
    OBVIOUS
  <2>1. calls = <<>> /\ reading = FALSE /\ pc = "down" /\ dataLog = <<>>
    BY Zenon DEF Init
  <2>2. LoopInv /\ OwnedInv
    BY <2>1 DEF LoopInv, OwnedInv, ElementsOf
  <2> QED
    BY <2>2, InitType, InitCustody
<1>2. Inv /\ [Next]_vars => Inv'
  BY NextType, NextLoop, NextCommands, NextCustody, NextOwns
<1>3. Inv => WaitOwnsMessage
  BY OwnedIs
<1> QED
  BY <1>1, <1>2, <1>3, PTL DEF Spec

-----------------------------------------------------------------------------
(* Without commands whose handlers publish with guarantee, every such      *)
(* publish() is called by the main loop, with QOS1.                        *)
MainLoopOnly == Commands \cap {"file1", "file2", "callback"} = {}

(* A guaranteed publish() by the main loop, outside all reads.             *)
MainLoopPublishes ==
    /\ calls = <<>> /\ ~reading
    /\ \/ RunBusinessLogic /\ \E m \in AppMsgs \ handed : Publish(m, 1, FALSE, dataLog)
       \/ ResendRecord

LEMMA MainLoopSteps ==
    ASSUME TypeOK, LoopInv, CommandsInv, MainLoopOnly, [Next]_vars
    PROVE  \/ Exit \/ InitInstaMsg \/ Quietly
           \/ CompulsoryReadEnds /\ Top.qos # 0
           \/ PubAckCycle \/ PubAckTimeout \/ PubAckWaitEnds
           \/ ReceiveAck \/ ReceivePubrec \/ MainLoopPublishes
<1>1. toClient \in Seq(ToClient)
  BY DEF TypeOK, NetType
<1>2. CASE ReceiveCommand
  <2>1. toClient # <<>> /\ Head(toClient).type = "COMMAND"
    BY <1>2, Zenon DEF ReceiveCommand, Arrives
  <2>2. Head(toClient).kind \in Commands
    BY <1>1, <2>1, CommandsTail DEF CommandsInv, CommandOK
  <2>3. Head(toClient).kind \notin {"file1", "file2", "callback"}
    BY <2>2 DEF MainLoopOnly
  <2>4. Exit \/ PublishPlain
    BY <1>2, <2>3 DEF ReceiveCommand
  <2> QED
    BY <2>4, Zenon DEF PublishPlain, PlainCall, Quietly
<1>3. ResendRecord \/ RunBusinessLogic => calls = <<>> /\ ~reading
  BY Zenon DEF ResendRecord, RunBusinessLogic, At, LoopInv
<1> QED
  BY <1>2, <1>3, Steps, Zenon DEF MainLoopPublishes

SoleOK(q) == \A i \in DOMAIN q : q[i].qos > 0 => i = 1 /\ q[i].qos = 1

HoldingIn(q) == q # <<>> /\ q[1].qos > 0

LEMMA SoleCall ==
    ASSUME NEW q \in Seq(Frames), SoleOK(q), q # <<>>
    PROVE  /\ q[Len(q)].qos # 0 => Len(q) = 1 /\ HoldingIn(q) /\ q[1].qos = 1
           /\ q[Len(q)].qos # 0 => Front(q) = <<>>
<1>1. Len(q) \in DOMAIN q /\ q[Len(q)] \in Frames
  OBVIOUS
<1>2. q[Len(q)].qos # 0 => q[Len(q)].qos > 0
  BY <1>1 DEF Frames
<1>3. Len(q) = 1 => Front(q) = <<>>
  BY CallReturns
<1> QED
  BY <1>1, <1>2, <1>3 DEF SoleOK, HoldingIn

LEMMA SoleBegins ==
    ASSUME NEW q \in Seq(Frames), SoleOK(q), NEW x \in Frames, x.qos = 0
    PROVE  /\ SoleOK(Append(q, x))
           /\ HoldingIn(Append(q, x)) <=> HoldingIn(q)
           /\ HoldingIn(q) => Append(q, x)[1] = q[1]
<1> DEFINE r == Append(q, x)
<1>1. /\ \A i \in DOMAIN r : \/ i \in DOMAIN q /\ r[i] = q[i]
                             \/ i = Len(q) + 1 /\ r[i] = x
      /\ r # <<>> /\ Len(q) \in Nat
      /\ q # <<>> => r[1] = q[1]
      /\ q = <<>> => r[1] = x
  BY CallBegins, SMT
<1> HIDE DEF r
<1> QED
  BY <1>1 DEF SoleOK, HoldingIn, r

LEMMA SoleReturns ==
    ASSUME NEW q \in Seq(Frames), SoleOK(q), q # <<>>, q[Len(q)].qos = 0
    PROVE  /\ SoleOK(Front(q))
           /\ HoldingIn(Front(q)) <=> HoldingIn(q)
           /\ HoldingIn(q) => Front(q)[1] = q[1]
<1> DEFINE r == Front(q)
<1>1. /\ Len(q) \in Nat \ {0} /\ DOMAIN r = 1..(Len(q) - 1)
      /\ \A i \in DOMAIN r : i \in DOMAIN q /\ r[i] = q[i]
      /\ Len(q) = 1 => r = <<>>
  BY CallReturns
<1> HIDE DEF r
<1>2. Len(q) # 1 => 1 \in DOMAIN r
  <2>1. \A n \in Nat \ {0} : n # 1 => 1 \in 1..(n - 1)
    OBVIOUS
  <2> QED
    BY <1>1, <2>1, Zenon
<1>3. 1 \in DOMAIN r => r # <<>>
  OBVIOUS
<1> QED
  BY <1>1, <1>2, <1>3 DEF SoleOK, HoldingIn, r

(* The one publish() with guarantee under way counts its own cycles.       *)
Holding == HoldingIn(calls)

WaitingFor == Holding /\ waitingForPuback = "WAITING_FOR_PUBACK"

SoleInv == SoleOK(calls)

CycleInv ==
    /\ ~WaitingFor => pubAckRecvAttempts = 0
    /\ WaitingFor => pubAckRecvAttempts = calls[1].cycles

(* What each step does with the call, and with whether it waits.           *)
LEMMA NextSole ==
    ASSUME TypeOK, LoopInv, CommandsInv, SoleInv, MainLoopOnly, [Next]_vars
    PROVE  /\ SoleInv'
           /\ Quietly => /\ Holding' <=> Holding
                         /\ Holding => calls'[1] = calls[1]
           /\ CompulsoryReadEnds /\ Top.qos # 0 =>
                /\ Holding /\ Holding'
                /\ calls'[1] = [calls[1] EXCEPT !.at = "wait"]
           /\ PubAckCycle => /\ Holding /\ Holding'
                             /\ calls'[1] = [calls[1] EXCEPT !.cycles = @ + 1]
           /\ PubAckTimeout \/ PubAckWaitEnds => Holding /\ ~Holding' /\ calls' = <<>>
           /\ \A m, isNull, log : calls = <<>> /\ Publish(m, 1, isNull, log) =>
                \/ UNCHANGED calls
                \/ /\ Len(calls') = 1 /\ Holding'
                   /\ calls'[1].msg = m /\ calls'[1].id = NextPacketId
                   /\ calls'[1].cycles = 0
<1>1. calls \in Seq(Frames) /\ SoleOK(calls)
  BY DEF TypeOK, StackType, SoleInv
<1>2. ASSUME Quietly
      PROVE  /\ SoleInv'
             /\ Holding' <=> Holding
             /\ Holding => calls'[1] = calls[1]
  <2>1. CASE calls' = calls
    BY <1>1, <2>1 DEF SoleInv, Holding
  <2>2. ASSUME NEW at \in {"compulsory", "ping"}, calls' = Append(calls, PlainCall(at))
        PROVE  /\ SoleInv'
               /\ Holding' <=> Holding
               /\ Holding => calls'[1] = calls[1]
    <3>1. PlainCall(at) \in Frames /\ PlainCall(at).qos = 0
      BY ConstantsAssumption DEF PlainCall, Frames, ConstantsAssumption
    <3> QED
      BY <1>1, <2>2, <3>1, SoleBegins DEF SoleInv, Holding
  <2>3. CASE calls # <<>> /\ Top.qos = 0 /\ calls' = Front(calls)
    BY <1>1, <2>3, TopIs, SoleReturns DEF SoleInv, Holding
  <2> QED
    BY <1>2, <2>1, <2>2, <2>3, Zenon DEF Quietly
<1>3. ASSUME calls # <<>>, Top.qos # 0
      PROVE  /\ Len(calls) = 1 /\ Holding /\ Top = calls[1] /\ Front(calls) = <<>>
             /\ calls[1] \in Frames /\ calls[1].qos = 1
  BY <1>1, <1>3, SoleCall, TopIs DEF Holding
<1>4. ASSUME calls # <<>>, Top.qos # 0, NEW x, calls' = [calls EXCEPT ![1] = x],
             x.qos = calls[1].qos
      PROVE  SoleInv' /\ Holding' /\ calls'[1] = x
  <2>1. DOMAIN calls' = {1} /\ calls'[1] = x /\ calls' # <<>> /\ x.qos = 1
    BY <1>1, <1>3, <1>4
  <2> QED
    BY <2>1 DEF SoleInv, SoleOK, Holding, HoldingIn
<1>5. ASSUME CompulsoryReadEnds, Top.qos # 0
      PROVE  /\ SoleInv' /\ Holding /\ Holding'
             /\ calls'[1] = [calls[1] EXCEPT !.at = "wait"]
  <2>1. calls # <<>> /\ calls' = [calls EXCEPT ![Len(calls)].at = "wait"]
    BY <1>5, Zenon DEF CompulsoryReadEnds
  <2>2. /\ calls' = [calls EXCEPT ![1] = [calls[1] EXCEPT !.at = "wait"]]
        /\ [calls[1] EXCEPT !.at = "wait"].qos = calls[1].qos
    BY <1>3, <1>5, <2>1 DEF Frames
  <2> QED
    BY <1>3, <1>4, <1>5, <2>1, <2>2
<1>6. ASSUME PubAckCycle
      PROVE  /\ SoleInv' /\ Holding /\ Holding'
             /\ calls'[1] = [calls[1] EXCEPT !.cycles = @ + 1]
  <2>1. /\ calls # <<>> /\ calls' = [calls EXCEPT ![Len(calls)].cycles = @ + 1]
        /\ Top.at = "wait"
    BY <1>6, Zenon DEF PubAckCycle, Waiting
  <2>2. Top.qos # 0
    BY <2>1, TopIs DEF CallOK
  <2>3. /\ calls' = [calls EXCEPT ![1] = [calls[1] EXCEPT !.cycles = @ + 1]]
        /\ [calls[1] EXCEPT !.cycles = @ + 1].qos = calls[1].qos
    BY <1>3, <2>1, <2>2 DEF Frames
  <2> QED
    BY <1>3, <1>4, <2>1, <2>2, <2>3
<1>7. ASSUME PubAckTimeout \/ PubAckWaitEnds
      PROVE  SoleInv' /\ Holding /\ ~Holding' /\ calls' = <<>>
  <2>1. calls # <<>> /\ Top.at = "wait" /\ calls' = Front(calls)
    BY <1>7, Zenon DEF PubAckTimeout, PubAckWaitEnds, Waiting, Return
  <2>2. Top.qos # 0
    BY <2>1, TopIs DEF CallOK
  <2>3. calls' = <<>>
    BY <1>3, <2>1, <2>2
  <2> QED
    BY <1>3, <2>1, <2>2, <2>3 DEF SoleInv, SoleOK, Holding, HoldingIn
<1>8. ASSUME NEW m, NEW isNull, NEW log, calls = <<>>, Publish(m, 1, isNull, log)
      PROVE  /\ SoleInv'
             /\ \/ UNCHANGED calls
                \/ /\ Len(calls') = 1 /\ Holding'
                   /\ calls'[1].msg = m /\ calls'[1].id = NextPacketId
                   /\ calls'[1].cycles = 0
  <2>1. CASE UNCHANGED calls
    BY <1>1, <2>1 DEF SoleInv
  <2>2. ASSUME NEW at \in {"compulsory", "wait"},
               calls' = Append(calls, [msg |-> m, id |-> NextPacketId, qos |-> 1,
                                       at |-> at, cycles |-> 0])
        PROVE  /\ SoleInv' /\ Len(calls') = 1 /\ Holding'
               /\ calls'[1].msg = m /\ calls'[1].id = NextPacketId
               /\ calls'[1].cycles = 0
    <3>1. calls' = <<[msg |-> m, id |-> NextPacketId, qos |-> 1, at |-> at,
                      cycles |-> 0]>>
      BY <1>8, <2>2
    <3> QED
      BY <3>1 DEF SoleInv, SoleOK, Holding, HoldingIn
  <2> QED
    BY <1>8, <2>1, <2>2, PublishCalls, Zenon
<1>9. CASE Exit
  <2>1. calls' = <<>>
    BY <1>9, Zenon DEF Exit
  <2> QED
    BY <1>2, <1>5, <1>6, <1>7, <1>8, <2>1 DEF SoleInv, SoleOK
<1>10. CASE InitInstaMsg \/ ReceiveAck \/ ReceivePubrec
  <2>1. UNCHANGED calls
    BY <1>10, Zenon DEF InitInstaMsg, ReceiveAck, ReceivePubrec
  <2> QED
    BY <1>1, <1>2, <1>5, <1>6, <1>7, <1>8, <2>1 DEF SoleInv
<1>11. CASE MainLoopPublishes
  <2>1. \/ \E m, log : Publish(m, 1, FALSE, log)
        \/ UNCHANGED calls
    BY <1>11, Zenon DEF MainLoopPublishes, ResendRecord
  <2>2. SoleInv'
    BY <1>1, <1>8, <1>11, <2>1 DEF MainLoopPublishes, SoleInv
  <2> QED
    BY <1>2, <1>5, <1>6, <1>7, <1>8, <2>2
<1> QED
  BY <1>2, <1>5, <1>6, <1>7, <1>8, <1>9, <1>10, <1>11, MainLoopSteps

LEMMA NextCycle ==
    ASSUME TypeOK, LoopInv, CommandsInv, SoleInv, CycleInv, MainLoopOnly, [Next]_vars
    PROVE  CycleInv'
<1>1. /\ Quietly => /\ Holding' <=> Holding
                    /\ Holding => calls'[1] = calls[1]
      /\ CompulsoryReadEnds /\ Top.qos # 0 =>
           /\ Holding /\ Holding'
           /\ calls'[1] = [calls[1] EXCEPT !.at = "wait"]
      /\ PubAckCycle => /\ Holding /\ Holding'
                        /\ calls'[1] = [calls[1] EXCEPT !.cycles = @ + 1]
      /\ PubAckTimeout \/ PubAckWaitEnds => Holding /\ ~Holding' /\ calls' = <<>>
  BY NextSole
<1>2. /\ Holding => calls[1] \in Frames
      /\ calls = <<>> => ~Holding
  BY DEF TypeOK, StackType, Holding, HoldingIn
<1>3. CASE Exit
  <2>1. calls' = <<>> /\ pubAckRecvAttempts' = 0
    BY <1>3, Zenon DEF Exit
  <2> QED
    BY <2>1 DEF CycleInv, WaitingFor, Holding, HoldingIn
<1>4. CASE InitInstaMsg
  BY <1>4, Zenon DEF InitInstaMsg, CycleInv, WaitingFor
<1>5. CASE Quietly
  BY <1>1, <1>5, Zenon DEF Quietly, ackVars, CycleInv, WaitingFor
<1>6. CASE CompulsoryReadEnds /\ Top.qos # 0
  <2>1. /\ UNCHANGED <<waitingForPuback, pubAckRecvAttempts>>
        /\ calls'[1].cycles = calls[1].cycles
    BY <1>1, <1>2, <1>6 DEF CompulsoryReadEnds, ackVars, Frames
  <2> QED
    BY <1>1, <1>6, <2>1, Zenon DEF CycleInv, WaitingFor
<1>7. CASE PubAckCycle
  <2>1. /\ waitingForPuback = "WAITING_FOR_PUBACK" /\ UNCHANGED waitingForPuback
        /\ pubAckRecvAttempts' = pubAckRecvAttempts + 1
    BY <1>7, Zenon DEF PubAckCycle
  <2>2. calls'[1].cycles = calls[1].cycles + 1
    BY <1>1, <1>2, <1>7 DEF Frames
  <2> QED
    BY <1>1, <1>7, <2>1, <2>2, Zenon DEF CycleInv, WaitingFor
<1>8. CASE PubAckTimeout
  BY <1>1, <1>8, Zenon DEF PubAckTimeout, CycleInv, WaitingFor
<1>9. CASE PubAckWaitEnds
  BY <1>1, <1>9, Zenon DEF PubAckWaitEnds, ackVars, CycleInv, WaitingFor
<1>10. CASE ReceiveAck \/ ReceivePubrec
  <2>1. /\ UNCHANGED calls
        /\ \/ waitingForPuback' = "NOT_WAITING_FOR_PUBACK" /\ pubAckRecvAttempts' = 0
           \/ UNCHANGED <<waitingForPuback, pubAckRecvAttempts>>
    BY <1>10, Zenon DEF ReceiveAck, ReceivePubrec, FireResultHandler, StopWaiting
  <2>2. Holding' <=> Holding
    BY <2>1 DEF Holding
  <2> QED
    BY <2>1, <2>2, Zenon DEF CycleInv, WaitingFor
<1>11. CASE MainLoopPublishes
  <2>1. \/ \E m, log : Publish(m, 1, FALSE, log)
        \/ UNCHANGED <<calls, waitingForPuback, pubAckRecvAttempts>>
    BY <1>11, Zenon DEF MainLoopPublishes, ResendRecord, ackVars
  <2>2. calls = <<>> /\ pubAckRecvAttempts = 0
    BY <1>2, <1>11, Zenon DEF MainLoopPublishes, CycleInv, WaitingFor
  <2>3. ASSUME NEW m, NEW log, Publish(m, 1, FALSE, log) PROVE CycleInv'
    <3>1. pubAckRecvAttempts' = 0
      BY <2>2, <2>3, Zenon DEF Publish
    <3>2. \/ calls' = <<>>
          \/ calls'[1].cycles = 0
      BY <2>2, <2>3, NextSole
    <3>3. calls' = <<>> => ~Holding'
      BY DEF Holding, HoldingIn
    <3> QED
      BY <3>1, <3>2, <3>3, Zenon DEF CycleInv, WaitingFor
  <2>4. CASE UNCHANGED <<calls, waitingForPuback, pubAckRecvAttempts>>
    BY <2>4 DEF CycleInv, WaitingFor, Holding
  <2> QED
    BY <2>1, <2>3, <2>4
<1> QED
  BY <1>3, <1>4, <1>5, <1>6, <1>7, <1>8, <1>9, <1>10, <1>11, MainLoopSteps

MainLoopInv ==
    TypeOK /\ LoopInv /\ CommandsInv /\ CustodyInv /\ SoleInv /\ CycleInv

LEMMA InitMainLoop == Init => MainLoopInv
<1> SUFFICES ASSUME Init PROVE MainLoopInv
  OBVIOUS
<1>1. calls = <<>> /\ reading = FALSE /\ pubAckRecvAttempts = 0
  BY Zenon DEF Init
<1>2. LoopInv /\ SoleInv /\ CycleInv
  BY <1>1 DEF LoopInv, SoleInv, SoleOK, CycleInv, WaitingFor, Holding, HoldingIn
<1> QED
  BY <1>2, InitType, InitCustody DEF MainLoopInv

LEMMA NextMainLoop == MainLoopOnly /\ MainLoopInv /\ [Next]_vars => MainLoopInv'
BY NextType, NextLoop, NextCommands, NextCustody, NextSole, NextCycle DEF MainLoopInv

(* When the main loop alone publishes with guarantee, publish() gives its  *)
(* PUBACK all MAX_CYCLES_TO_WAIT_FOR_PUBACK cycles: no other call's cycles *)
(* are counted against it, and none are left over from an earlier wait.    *)
THEOREM WaitIsFull == MainLoopOnly => (Spec => []FullWait)
<1> SUFFICES ASSUME MainLoopOnly PROVE Spec => []FullWait
  OBVIOUS
<1>1. MainLoopInv => FullWait
  <2> SUFFICES ASSUME MainLoopInv, Waiting, waitingForPuback = "WAITING_FOR_PUBACK"
               PROVE  pubAckRecvAttempts = Top.cycles
    BY DEF FullWait
  <2>1. /\ calls # <<>> /\ Top = calls[Len(calls)] /\ Top.qos > 0
        /\ calls \in Seq(Frames) /\ Top \in Frames
    BY TopIs DEF MainLoopInv, Waiting, CallOK, TypeOK, StackType
  <2>2. Top.qos # 0
    BY <2>1 DEF Frames
  <2>3. Len(calls) = 1 /\ Holding
    BY <2>1, <2>2, SoleCall DEF MainLoopInv, SoleInv, Holding
  <2> QED
    BY <2>1, <2>3 DEF MainLoopInv, CycleInv, WaitingFor
<1> QED
  BY <1>1, InitMainLoop, NextMainLoop, PTL DEF Spec

-----------------------------------------------------------------------------
(* What is on its way between the device and the server.                   *)
PubIn(s) == {i \in DOMAIN s : s[i].type = "PUBLISH"}

AckIn(c) == {i \in DOMAIN c : c[i].type = "PUBACK"}

(* The ids in flight: of messages not answered yet, and of their answers.  *)
IdsIn(s, c) == {s[i].id : i \in PubIn(s)} \cup {c[i].id : i \in AckIn(c)}

OnceIn(s, c) ==
    /\ \A i, j \in PubIn(s) : s[i].id = s[j].id => i = j
    /\ \A i, j \in AckIn(c) : c[i].id = c[j].id => i = j
    /\ \A i \in PubIn(s), j \in AckIn(c) : s[i].id # c[j].id

(* Under this id message m is sent, and once it is answered is in d.       *)
Carried(s, c, id, m, d) ==
    /\ \A i \in PubIn(s) : s[i].id = id => s[i].msg = m
    /\ \A i \in AckIn(c) : c[i].id = id => m \in d

SentFrom(s, h) == \A i \in PubIn(s) : s[i].msg \in h \cap Msgs

OnlyQos1(s, c) ==
    /\ \A i \in DOMAIN s : \/ s[i].type = "CONNECT"
                           \/ s[i].type = "PUBLISH" /\ s[i].qos = 1
    /\ \A i \in DOMAIN c : c[i].type \notin {"PUBREC", "PUBCOMP"}

LEMMA ServerTakes ==
    ASSUME NEW s \in Seq(ToServer), NEW c \in Seq(ToClient), s # <<>>
    PROVE  /\ OnceIn(s, c) =>
                /\ OnceIn(Tail(s), c)
                /\ Head(s).type = "PUBLISH" => Head(s).id \notin IdsIn(Tail(s), c)
           /\ IdsIn(Tail(s), c) \subseteq IdsIn(s, c)
           /\ Head(s).type = "PUBLISH" => Head(s).id \in IdsIn(s, c)
           /\ \A id, m, d : Carried(s, c, id, m, d) =>
                /\ Carried(Tail(s), c, id, m, d)
                /\ Head(s).type = "PUBLISH" /\ Head(s).id = id => Head(s).msg = m
           /\ \A h : SentFrom(s, h) =>
                /\ SentFrom(Tail(s), h)
                /\ Head(s).type = "PUBLISH" => Head(s).msg \in h \cap Msgs
           /\ OnlyQos1(s, c) =>
                /\ OnlyQos1(Tail(s), c)
                /\ \/ Head(s).type = "CONNECT"
                   \/ Head(s).type = "PUBLISH" /\ Head(s).qos = 1
<1> DEFINE t == Tail(s)
<1>1. /\ \A i \in DOMAIN t : i + 1 \in DOMAIN s /\ i + 1 # 1 /\ t[i] = s[i + 1]
      /\ \A i, j \in DOMAIN t : i + 1 = j + 1 => i = j
      /\ Head(s) = s[1] /\ 1 \in DOMAIN s
  BY TailIs
<1> HIDE DEF t
<1>2. \A i \in PubIn(t) : i \in DOMAIN t /\ i + 1 \in PubIn(s) /\ i + 1 # 1
                          /\ t[i] = s[i + 1]
  BY <1>1 DEF PubIn
<1>3. Head(s).type = "PUBLISH" => 1 \in PubIn(s) /\ Head(s) = s[1]
  BY <1>1 DEF PubIn
<1>4. OnceIn(s, c) =>
        /\ OnceIn(t, c)
        /\ Head(s).type = "PUBLISH" => Head(s).id \notin IdsIn(t, c)
  <2> SUFFICES ASSUME OnceIn(s, c)
               PROVE  /\ OnceIn(t, c)
                      /\ Head(s).type = "PUBLISH" => Head(s).id \notin IdsIn(t, c)
    OBVIOUS
  <2>1. \A i, j \in PubIn(t) : t[i].id = t[j].id => i = j
    BY <1>1, <1>2 DEF OnceIn
  <2>2. \A i \in PubIn(t), j \in AckIn(c) : t[i].id # c[j].id
    BY <1>2 DEF OnceIn
  <2>3. Head(s).type = "PUBLISH" => \A i \in PubIn(t) : t[i].id # Head(s).id
    BY <1>2, <1>3 DEF OnceIn
  <2>4. Head(s).type = "PUBLISH" => \A i \in AckIn(c) : c[i].id # Head(s).id
    BY <1>3 DEF OnceIn
  <2> QED
    BY <2>1, <2>2, <2>3, <2>4 DEF OnceIn, IdsIn
<1>5. /\ IdsIn(t, c) \subseteq IdsIn(s, c)
      /\ Head(s).type = "PUBLISH" => Head(s).id \in IdsIn(s, c)
  BY <1>2, <1>3 DEF IdsIn
<1>6. \A id, m, d : Carried(s, c, id, m, d) =>
        /\ Carried(t, c, id, m, d)
        /\ Head(s).type = "PUBLISH" /\ Head(s).id = id => Head(s).msg = m
  BY <1>2, <1>3 DEF Carried
<1>7. \A h : SentFrom(s, h) =>
        /\ SentFrom(t, h)
        /\ Head(s).type = "PUBLISH" => Head(s).msg \in h \cap Msgs
  BY <1>2, <1>3 DEF SentFrom
<1>8. OnlyQos1(s, c) =>
        /\ OnlyQos1(t, c)
        /\ \/ Head(s).type = "CONNECT"
           \/ Head(s).type = "PUBLISH" /\ Head(s).qos = 1
  BY <1>1 DEF OnlyQos1
<1> QED
  BY <1>4, <1>5, <1>6, <1>7, <1>8 DEF t

LEMMA ClientTakes ==
    ASSUME NEW s \in Seq(ToServer), NEW c \in Seq(ToClient), c # <<>>
    PROVE  /\ OnceIn(s, c) =>
                /\ OnceIn(s, Tail(c))
                /\ Head(c).type = "PUBACK" => Head(c).id \notin IdsIn(s, Tail(c))
           /\ IdsIn(s, Tail(c)) \subseteq IdsIn(s, c)
           /\ Head(c).type = "PUBACK" => Head(c).id \in IdsIn(s, c)
           /\ \A id, m, d : Carried(s, c, id, m, d) =>
                /\ Carried(s, Tail(c), id, m, d)
                /\ Head(c).type = "PUBACK" /\ Head(c).id = id => m \in d
           /\ OnlyQos1(s, c) =>
                /\ OnlyQos1(s, Tail(c))
                /\ Head(c).type \notin {"PUBREC", "PUBCOMP"}
<1> DEFINE r == Tail(c)
<1>1. /\ \A i \in DOMAIN r : i + 1 \in DOMAIN c /\ i + 1 # 1 /\ r[i] = c[i + 1]
      /\ \A i, j \in DOMAIN r : i + 1 = j + 1 => i = j
      /\ Head(c) = c[1] /\ 1 \in DOMAIN c
  BY TailIs
<1> HIDE DEF r
<1>2. \A i \in AckIn(r) : i \in DOMAIN r /\ i + 1 \in AckIn(c) /\ i + 1 # 1
                          /\ r[i] = c[i + 1]
  BY <1>1 DEF AckIn
<1>3. Head(c).type = "PUBACK" => 1 \in AckIn(c) /\ Head(c) = c[1]
  BY <1>1 DEF AckIn
<1>4. OnceIn(s, c) =>
        /\ OnceIn(s, r)
        /\ Head(c).type = "PUBACK" => Head(c).id \notin IdsIn(s, r)
  <2> SUFFICES ASSUME OnceIn(s, c)
               PROVE  /\ OnceIn(s, r)
                      /\ Head(c).type = "PUBACK" => Head(c).id \notin IdsIn(s, r)
    OBVIOUS
  <2>1. \A i, j \in AckIn(r) : r[i].id = r[j].id => i = j
    BY <1>1, <1>2 DEF OnceIn
  <2>2. \A i \in PubIn(s), j \in AckIn(r) : s[i].id # r[j].id
    BY <1>2 DEF OnceIn
  <2>3. Head(c).type = "PUBACK" => \A i \in AckIn(r) : r[i].id # Head(c).id
    BY <1>2, <1>3 DEF OnceIn
  <2>4. Head(c).type = "PUBACK" => \A i \in PubIn(s) : s[i].id # Head(c).id
    BY <1>3 DEF OnceIn
  <2> QED
    BY <2>1, <2>2, <2>3, <2>4 DEF OnceIn, IdsIn
<1>5. /\ IdsIn(s, r) \subseteq IdsIn(s, c)
      /\ Head(c).type = "PUBACK" => Head(c).id \in IdsIn(s, c)
  BY <1>2, <1>3 DEF IdsIn
<1>6. \A id, m, d : Carried(s, c, id, m, d) =>
        /\ Carried(s, r, id, m, d)
        /\ Head(c).type = "PUBACK" /\ Head(c).id = id => m \in d
  BY <1>2, <1>3 DEF Carried
<1>7. OnlyQos1(s, c) =>
        /\ OnlyQos1(s, r)
        /\ Head(c).type \notin {"PUBREC", "PUBCOMP"}
  BY <1>1 DEF OnlyQos1
<1> QED
  BY <1>4, <1>5, <1>6, <1>7 DEF r

LEMMA ClientSends ==
    ASSUME NEW s \in Seq(ToServer), NEW c \in Seq(ToClient), NEW x \in ToServer,
           x.type = "PUBLISH"
    PROVE  /\ OnceIn(s, c) /\ x.id \notin IdsIn(s, c) => OnceIn(Append(s, x), c)
           /\ IdsIn(Append(s, x), c) \subseteq IdsIn(s, c) \cup {x.id}
           /\ x.id \notin IdsIn(s, c) =>
                \A d : Carried(Append(s, x), c, x.id, x.msg, d)
           /\ \A h : SentFrom(s, h) /\ x.msg \in h \cap Msgs => SentFrom(Append(s, x), h)
           /\ OnlyQos1(s, c) /\ x.qos = 1 => OnlyQos1(Append(s, x), c)
<1> DEFINE t == Append(s, x)
<1>1. \A i \in DOMAIN t : \/ i \in DOMAIN s /\ t[i] = s[i]
                          \/ i = Len(s) + 1 /\ t[i] = x
  BY CallBegins, SMT
<1> HIDE DEF t
<1>2. \A i \in PubIn(t) : \/ i \in PubIn(s) /\ t[i] = s[i]
                          \/ i = Len(s) + 1 /\ t[i] = x
  BY <1>1 DEF PubIn
<1>3. x.id \notin IdsIn(s, c) => /\ \A i \in PubIn(s) : s[i].id # x.id
                                 /\ \A i \in AckIn(c) : c[i].id # x.id
  BY DEF IdsIn
<1>4. ASSUME OnceIn(s, c), x.id \notin IdsIn(s, c) PROVE OnceIn(t, c)
  <2>1. ASSUME NEW i \in PubIn(t), NEW j \in PubIn(t), t[i].id = t[j].id PROVE i = j
    BY <1>2, <1>3, <1>4, <2>1 DEF OnceIn
  <2>2. \A i \in PubIn(t), j \in AckIn(c) : t[i].id # c[j].id
    BY <1>2, <1>3, <1>4 DEF OnceIn
  <2> QED
    BY <1>4, <2>1, <2>2 DEF OnceIn
<1>5. IdsIn(t, c) \subseteq IdsIn(s, c) \cup {x.id}
  BY <1>2 DEF IdsIn
<1>6. x.id \notin IdsIn(s, c) => \A d : Carried(t, c, x.id, x.msg, d)
  BY <1>2, <1>3 DEF Carried
<1>7. \A h : SentFrom(s, h) /\ x.msg \in h \cap Msgs => SentFrom(t, h)
  BY <1>2 DEF SentFrom
<1>8. OnlyQos1(s, c) /\ x.qos = 1 => OnlyQos1(t, c)
  BY <1>1 DEF OnlyQos1
<1> QED
  BY <1>4, <1>5, <1>6, <1>7, <1>8 DEF t

LEMMA ServerSends ==
    ASSUME NEW s \in Seq(ToServer), NEW c \in Seq(ToClient), NEW x \in ToClient
    PROVE  /\ OnceIn(s, c) /\ (x.type = "PUBACK" => x.id \notin IdsIn(s, c)) =>
                OnceIn(s, Append(c, x))
           /\ x.type # "PUBACK" => IdsIn(s, Append(c, x)) \subseteq IdsIn(s, c)
           /\ IdsIn(s, Append(c, x)) \subseteq IdsIn(s, c) \cup {x.id}
           /\ \A id, m, d :
                /\ Carried(s, c, id, m, d)
                /\ x.type = "PUBACK" /\ x.id = id => m \in d
                => Carried(s, Append(c, x), id, m, d)
           /\ OnlyQos1(s, c) /\ x.type \notin {"PUBREC", "PUBCOMP"} =>
                OnlyQos1(s, Append(c, x))
<1> DEFINE r == Append(c, x)
<1>1. \A i \in DOMAIN r : \/ i \in DOMAIN c /\ r[i] = c[i]
                          \/ i = Len(c) + 1 /\ r[i] = x
  BY CallBegins, SMT
<1> HIDE DEF r
<1>2. \A i \in AckIn(r) : \/ i \in AckIn(c) /\ r[i] = c[i]
                          \/ i = Len(c) + 1 /\ r[i] = x /\ x.type = "PUBACK"
  BY <1>1 DEF AckIn
<1>3. x.id \notin IdsIn(s, c) => /\ \A i \in PubIn(s) : s[i].id # x.id
                                 /\ \A i \in AckIn(c) : c[i].id # x.id
  BY DEF IdsIn
<1>4. ASSUME OnceIn(s, c), x.type = "PUBACK" => x.id \notin IdsIn(s, c)
      PROVE  OnceIn(s, r)
  <2>1. ASSUME NEW i \in AckIn(r), NEW j \in AckIn(r), r[i].id = r[j].id PROVE i = j
    BY <1>2, <1>3, <1>4, <2>1 DEF OnceIn
  <2>2. \A i \in PubIn(s), j \in AckIn(r) : s[i].id # r[j].id
    BY <1>2, <1>3, <1>4 DEF OnceIn
  <2> QED
    BY <1>4, <2>1, <2>2 DEF OnceIn
<1>5. /\ x.type # "PUBACK" => IdsIn(s, r) \subseteq IdsIn(s, c)
      /\ IdsIn(s, r) \subseteq IdsIn(s, c) \cup {x.id}
  BY <1>2 DEF IdsIn
<1>6. \A id, m, d :
        /\ Carried(s, c, id, m, d)
        /\ x.type = "PUBACK" /\ x.id = id => m \in d
        => Carried(s, r, id, m, d)
  BY <1>2 DEF Carried
<1>7. OnlyQos1(s, c) /\ x.type \notin {"PUBREC", "PUBCOMP"} => OnlyQos1(s, r)
  BY <1>1 DEF OnlyQos1
<1> QED
  BY <1>4, <1>5, <1>6, <1>7 DEF r

QosInv == OnlyQos1(toServer, toClient)

LEMMA NoPubrec ==
    ASSUME TypeOK, QosInv, ReceivePubrec
    PROVE  FALSE
<1>1. toClient # <<>> /\ Head(toClient).type = "PUBREC"
  BY Zenon DEF ReceivePubrec, Arrives
<1>2. Head(toClient).type \notin {"PUBREC", "PUBCOMP"}
  BY <1>1, ClientTakes DEF TypeOK, NetType, QosInv
<1> QED
  BY <1>1, <1>2

(* The network, as a driver that publishes from its main loop only uses it.*)
NetStill == UNCHANGED <<toServer, toClient, delivered, nextPacketId>>

ClientReads ==
    /\ reading /\ toClient # <<>> /\ toClient' = Tail(toClient)
    /\ UNCHANGED <<toServer, delivered, nextPacketId>>
    /\ Head(toClient).type = "PUBACK" => ReceiveAck

LEMMA NetSteps ==
    ASSUME TypeOK, LoopInv, CommandsInv, QosInv, MainLoopOnly, [Next]_vars
    PROVE  \/ Exit \/ InitInstaMsg \/ NetStill \/ ServerAnswers \/ ServerCommands
           \/ ClientReads
           \/ MainLoopPublishes /\ UNCHANGED <<toClient, delivered>>
<1>1. CASE ReadEnds
  <2>1. ReadPacketFails
    BY <1>1, Zenon
       DEF ReadEnds, CompulsoryReadEnds, PubAckCycle, PubAckTimeout,
           PubAckWaitEnds, PingWaitEnds, ConnectionWaitCycle, MainReadEnds
  <2> QED
    BY <2>1, Zenon DEF ReadPacketFails, netVars, serverVars, tableVars, NetStill
<1>2. CASE ReceiveAck
  BY <1>2, Zenon DEF ReceiveAck, Arrives, ClientReads, serverVars
<1>3. CASE ReceiveConnack
  <2>1. Exit \/ ClientReads
    <3>1. Head(toClient).type # "PUBACK"
      BY <1>3 DEF ReceiveConnack, Arrives
    <3> QED
      BY <1>3, <3>1, Zenon DEF ReceiveConnack, Arrives, ClientReads, serverVars, tableVars
  <2> QED
    BY <2>1
<1>4. CASE ReceiveCommand
  <2>1. toClient # <<>> /\ Head(toClient).type = "COMMAND" /\ reading
    BY <1>4, Zenon DEF ReceiveCommand, Arrives
  <2>2. Head(toClient).kind \in Commands
    BY <2>1, CommandsTail DEF CommandsInv, CommandOK, TypeOK, NetType
  <2>3. Head(toClient).kind \notin {"file1", "file2", "callback"}
    BY <2>2 DEF MainLoopOnly
  <2>4. Exit \/ (toClient' = Tail(toClient) /\ PublishPlain /\ UNCHANGED serverVars)
    BY <1>4, <2>3 DEF ReceiveCommand
  <2>5. Head(toClient).type # "PUBACK"
    BY <2>1
  <2> QED
    BY <2>1, <2>4, <2>5, Zenon DEF PublishPlain, ClientReads, serverVars, tableVars
<1>5. CASE EnterLoop \/ NothingToResend \/ AfterResend \/ SkipBusinessLogic
           \/ RemoveExpiredResultHandlers
  BY <1>5, Zenon
     DEF EnterLoop, NothingToResend, AfterResend, SkipBusinessLogic,
         RemoveExpiredResultHandlers, NetStill, netVars, serverVars, tableVars
<1>6. CASE TimedPublishes \/ SendFirstGpsLocation
  BY <1>6, Zenon
     DEF TimedPublishes, SendFirstGpsLocation, PublishPlain, Ping, NetStill,
         serverVars, tableVars
<1>7. CASE AfterBusinessLogic \/ EndOfLoop
  BY <1>7, Zenon
     DEF AfterBusinessLogic, EndOfLoop, ClearInstaMsg, NetStill, netVars,
         serverVars, tableVars
<1>8. CASE RunBusinessLogic
  <2>1. calls = <<>> /\ ~reading /\ UNCHANGED <<toClient, delivered>>
    BY <1>8, Zenon DEF RunBusinessLogic, At, LoopInv, serverVars
  <2> QED
    BY <1>8, <2>1, Zenon
       DEF RunBusinessLogic, ApplicationPublishes, MainLoopPublishes, NetStill,
           tableVars
<1>9. CASE ResendRecord
  <2>1. calls = <<>> /\ ~reading /\ UNCHANGED <<toClient, delivered>>
    BY <1>9, Zenon DEF ResendRecord, At, LoopInv, serverVars
  <2> QED
    BY <1>9, <2>1, Zenon DEF MainLoopPublishes
<1>10. CASE Crash \/ Stabilise \/ UNCHANGED vars
  BY <1>10, Zenon DEF Crash, Stabilise, vars, NetStill, netVars, serverVars, tableVars
<1> QED
  BY <1>1, <1>2, <1>3, <1>4, <1>5, <1>6, <1>7, <1>8, <1>9, <1>10, NoPubrec, Zenon
     DEF Next, Client, Environment, ReceivePacket

(* What the server does with a packet.                                     *)
LEMMA Answer ==
    ASSUME TypeOK, QosInv, ServerAnswers
    PROVE  /\ toServer # <<>> /\ toServer' = Tail(toServer)
           /\ UNCHANGED <<pc, calls, ackVars, tableVars, rebootPending,
                          runOnceAtStart, dataLog, handed>>
           /\ \/ /\ Head(toServer).type = "CONNECT" /\ UNCHANGED delivered
                 /\ \/ UNCHANGED toClient
                    \/ \E rc : toClient' = Append(toClient, Connack(rc))
              \/ /\ Head(toServer).type = "PUBLISH"
                 /\ delivered' = delivered \cup {Head(toServer).msg}
                 /\ \/ UNCHANGED toClient
                    \/ toClient' = Append(toClient, Ack("PUBACK", Head(toServer).id))
<1>1. toServer # <<>> /\ toServer' = Tail(toServer)
      /\ UNCHANGED <<pc, calls, ackVars, tableVars, rebootPending,
                     runOnceAtStart, dataLog, handed>>
  BY Zenon DEF ServerAnswers, callVars, retryVars, staticVars
<1>2. \/ Head(toServer).type = "CONNECT"
      \/ Head(toServer).type = "PUBLISH" /\ Head(toServer).qos = 1
  BY <1>1, ServerTakes DEF TypeOK, NetType, QosInv
<1> QED
  BY <1>1, <1>2 DEF ServerAnswers, Reply

LEMMA NewToClient ==
    ASSUME TypeOK, TypeOK', NEW x, toClient' = Append(toClient, x)
    PROVE  x \in ToClient
BY CallBegins DEF TypeOK, NetType

LEMMA NextQos ==
    ASSUME TypeOK, LoopInv, CommandsInv, QosInv, MainLoopOnly, [Next]_vars
    PROVE  QosInv'
<1>1. toServer \in Seq(ToServer) /\ toClient \in Seq(ToClient) /\ TypeOK'
  BY NextType DEF TypeOK, NetType
<1>2. CASE Exit
  <2>1. toServer' = toServer /\ toClient' = <<>>
    BY <1>2, Zenon DEF Exit
  <2> QED
    BY <2>1 DEF QosInv, OnlyQos1
<1>3. CASE InitInstaMsg
  <2>1. toServer' \in {<<Connect>>, <<>>} /\ toClient' = <<>>
    BY <1>3 DEF InitInstaMsg
  <2> QED
    BY <2>1 DEF QosInv, OnlyQos1, Connect
<1>4. CASE NetStill
  BY <1>4 DEF NetStill, QosInv
<1>5. CASE ServerAnswers
  <2>1. OnlyQos1(Tail(toServer), toClient) /\ Tail(toServer) \in Seq(ToServer)
    BY <1>1, <1>5, Answer, ServerTakes DEF QosInv
  <2>2. \/ UNCHANGED toClient
        \/ \E x : toClient' = Append(toClient, x) /\ x.type \notin {"PUBREC", "PUBCOMP"}
    <3>1. \/ UNCHANGED toClient
          \/ \E rc : toClient' = Append(toClient, Connack(rc))
          \/ \E id : toClient' = Append(toClient, Ack("PUBACK", id))
      BY <1>5, Answer, Zenon
    <3>2. /\ \A rc : Connack(rc).type \notin {"PUBREC", "PUBCOMP"}
          /\ \A id : Ack("PUBACK", id).type \notin {"PUBREC", "PUBCOMP"}
      BY DEF Connack, Ack
    <3> QED
      BY <3>1, <3>2, Zenon
  <2>3. toServer' = Tail(toServer)
    BY <1>5, Answer
  <2>4. ASSUME NEW x, toClient' = Append(toClient, x), x.type \notin {"PUBREC", "PUBCOMP"}
        PROVE  QosInv'
    <3>1. x \in ToClient
      BY <1>1, <2>4, NewToClient
    <3> QED
      BY <1>1, <2>1, <2>3, <2>4, <3>1, ServerSends DEF QosInv
  <2> QED
    BY <2>1, <2>2, <2>3, <2>4 DEF QosInv
<1>6. CASE ServerCommands
  <2>1. \E kind, m : toClient' = Append(toClient, Command(kind, m))
    BY <1>6, Zenon DEF ServerCommands
  <2>2. PICK x : toClient' = Append(toClient, x) /\ x.type = "COMMAND"
    BY <2>1 DEF Command
  <2>3. toServer' = toServer /\ x \in ToClient
    BY <1>1, <1>6, <2>2, NewToClient DEF ServerCommands
  <2> QED
    BY <1>1, <2>2, <2>3, ServerSends DEF QosInv
<1>7. CASE ClientReads
  BY <1>1, <1>7, ClientTakes DEF ClientReads, QosInv
<1>8. CASE MainLoopPublishes /\ UNCHANGED <<toClient, delivered>>
  <2>1. \/ UNCHANGED toServer
        \/ \E m, id : toServer' = Append(toServer, Message(m, id, 1))
    BY <1>8, Zenon DEF MainLoopPublishes, ResendRecord, Publish
  <2>2. ASSUME NEW m, NEW id, toServer' = Append(toServer, Message(m, id, 1))
        PROVE  QosInv'
    <3>1. Message(m, id, 1) \in ToServer
      BY <1>1, <2>2, CallBegins DEF TypeOK, NetType
    <3>2. Message(m, id, 1).type = "PUBLISH" /\ Message(m, id, 1).qos = 1
      BY DEF Message
    <3> QED
      BY <1>1, <1>8, <2>2, <3>1, <3>2, ClientSends DEF QosInv
  <2> QED
    BY <1>8, <2>1, <2>2 DEF QosInv
<1> QED
  BY <1>2, <1>3, <1>4, <1>5, <1>6, <1>7, <1>8, NetSteps

LEMMA IdSteps ==
    ASSUME TypeOK, LoopInv, CommandsInv, QosInv, MainLoopOnly, [Next]_vars
    PROVE  Exit \/ InitInstaMsg \/ MainLoopPublishes \/ UNCHANGED nextPacketId
BY NetSteps, Zenon
   DEF NetStill, ServerAnswers, ServerCommands, ClientReads, tableVars

(* The publish() with guarantee under way holds its message as long as it  *)
(* waits, and nothing afterwards; no record is NULL.                       *)
HoldInv ==
    /\ Holding => /\ calls[1].msg \in Msgs /\ calls[1].id = nextPacketId
                  /\ pubAckMsgId = nextPacketId
    /\ WaitingFor => lastPub = calls[1].msg
    /\ Holding /\ ~WaitingFor => lastPub = NoMsg
    /\ NoMsg \notin ElementsOf(dataLog)

LEMMA HoldKept ==
    ASSUME HoldInv, Holding' <=> Holding,
           Holding => calls'[1].msg = calls[1].msg /\ calls'[1].id = calls[1].id,
           UNCHANGED <<nextPacketId, pubAckMsgId, waitingForPuback, lastPub, dataLog>>
    PROVE  HoldInv'
<1>1. WaitingFor' <=> WaitingFor
  BY Zenon DEF WaitingFor
<1>2. NoMsg \notin ElementsOf(dataLog')
  BY DEF HoldInv
<1>3. /\ Holding' => /\ calls'[1].msg \in Msgs /\ calls'[1].id = nextPacketId'
                     /\ pubAckMsgId' = nextPacketId'
      /\ WaitingFor' => lastPub' = calls'[1].msg
      /\ Holding' /\ ~WaitingFor' => lastPub' = NoMsg
  BY <1>1, Zenon DEF HoldInv, WaitingFor
<1> QED
  BY <1>2, <1>3 DEF HoldInv, ElementsOf

LEMMA NotHolding ==
    ASSUME calls' = <<>>, NoMsg \notin ElementsOf(dataLog')
    PROVE  HoldInv'
BY DEF HoldInv, WaitingFor, Holding, HoldingIn, ElementsOf

LEMMA PublishHolds ==
    ASSUME TypeOK, LoopInv, CommandsInv, SoleInv, MainLoopOnly, [Next]_vars, calls = <<>>,
           NEW m \in Msgs, NEW log \in Seq(Msgs \cup {NoMsg}), NoMsg \notin ElementsOf(log),
           Publish(m, 1, FALSE, log)
    PROVE  HoldInv'
<1>1. m # NoMsg /\ m \in Msgs \cup {NoMsg}
  BY ConstantsAssumption DEF ConstantsAssumption
<1>2. NoMsg \notin ElementsOf(log) /\ NoMsg \notin ElementsOf(SaveRecord(log, m))
  BY <1>1, SavedElements, ConstantsAssumption
<1>3. /\ nextPacketId' = NextPacketId /\ pubAckMsgId' = NextPacketId
      /\ dataLog' = log \/ dataLog' = SaveRecord(log, m)
      /\ \/ calls' = <<>>
         \/ waitingForPuback' = "WAITING_FOR_PUBACK" /\ lastPub' = m
  BY Zenon DEF Publish, SaveFailedPublishedMessage
<1>4. NoMsg \notin ElementsOf(dataLog')
  BY <1>2, <1>3
<1>5. CASE calls' = <<>>
  BY <1>4, <1>5, NotHolding
<1>6. CASE calls' # <<>>
  <2>1. Holding' /\ calls'[1].msg = m /\ calls'[1].id = NextPacketId
    BY <1>6, NextSole
  <2>2. WaitingFor' /\ lastPub' = m
    BY <1>3, <1>6, <2>1 DEF WaitingFor
  <2> QED
    BY <1>3, <1>4, <2>1, <2>2 DEF HoldInv, ElementsOf
<1> QED
  BY <1>5, <1>6

(* Which message the main loop publishes, and from which log.              *)
LEMMA MainLoopMessage ==
    ASSUME TypeOK, CustodyInv, HoldInv, MainLoopPublishes
    PROVE  \/ /\ RunBusinessLogic
              /\ \E m \in Msgs : /\ m \notin handed
                                 /\ Publish(m, 1, FALSE, dataLog)
           \/ /\ ResendRecord /\ dataLog # <<>>
              /\ Head(dataLog) \in Msgs /\ Head(dataLog) \in handed
              /\ Tail(dataLog) \in Seq(Msgs \cup {NoMsg})
              /\ NoMsg \notin ElementsOf(Tail(dataLog))
              /\ \/ Publish(Head(dataLog), 1, FALSE, Tail(dataLog))
                 \/ /\ HeapMayFail /\ dataLog' = Tail(dataLog)
                    /\ UNCHANGED <<callVars, ackVars, tableVars, rebootPending,
                                   toServer, handed>>
<1>1. CASE RunBusinessLogic /\ \E m \in AppMsgs \ handed : Publish(m, 1, FALSE, dataLog)
  BY <1>1 DEF Msgs
<1>2. CASE ResendRecord
  <2>1. /\ dataLog # <<>>
        /\ \/ Publish(Head(dataLog), 1, FALSE, Tail(dataLog))
           \/ /\ HeapMayFail /\ dataLog' = Tail(dataLog)
              /\ UNCHANGED <<callVars, ackVars, tableVars, rebootPending,
                             toServer, handed>>
    BY <1>2, Zenon DEF ResendRecord
  <2>2. dataLog \in Seq(Msgs \cup {NoMsg})
    BY DEF TypeOK, MessageType
  <2>3. /\ Head(dataLog) \in ElementsOf(dataLog)
        /\ ElementsOf(Tail(dataLog)) \subseteq ElementsOf(dataLog)
        /\ Tail(dataLog) \in Seq(Msgs \cup {NoMsg}) /\ Head(dataLog) \in Msgs \cup {NoMsg}
    BY <2>1, <2>2, TailIs DEF ElementsOf
  <2>4. Head(dataLog) \in Msgs /\ Head(dataLog) \in handed
    BY <2>3 DEF HoldInv, CustodyInv, CustodyOK
  <2> QED
    BY <1>2, <2>1, <2>3, <2>4 DEF HoldInv
<1> QED
  BY <1>1, <1>2, Zenon DEF MainLoopPublishes

LEMMA NextHold ==
    ASSUME MainLoopInv, QosInv, HoldInv, MainLoopOnly, [Next]_vars
    PROVE  HoldInv'
<1>1. /\ TypeOK /\ LoopInv /\ CommandsInv /\ CustodyInv /\ SoleInv
      /\ calls = <<>> => ~Holding
      /\ Holding => calls[1] \in Frames
  BY DEF MainLoopInv, TypeOK, StackType, Holding, HoldingIn
<1>2. /\ Quietly => /\ Holding' <=> Holding
                    /\ Holding => calls'[1] = calls[1]
      /\ CompulsoryReadEnds /\ Top.qos # 0 =>
           /\ Holding /\ Holding'
           /\ calls'[1] = [calls[1] EXCEPT !.at = "wait"]
      /\ PubAckCycle => /\ Holding /\ Holding'
                        /\ calls'[1] = [calls[1] EXCEPT !.cycles = @ + 1]
      /\ PubAckTimeout \/ PubAckWaitEnds => Holding /\ ~Holding' /\ calls' = <<>>
  BY <1>1, NextSole
<1>3. CASE Exit
  <2>1. calls' = <<>> /\ dataLog' = dataLog
    BY <1>3, Zenon DEF Exit
  <2> QED
    BY <2>1, NotHolding DEF HoldInv
<1>4. CASE InitInstaMsg
  <2>1. calls' = calls /\ calls = <<>> /\ dataLog' = dataLog
    BY <1>1, <1>4, Zenon DEF InitInstaMsg, LoopInv
  <2> QED
    BY <2>1, NotHolding DEF HoldInv
<1>5. CASE MainLoopPublishes
  <2>1. calls = <<>> /\ dataLog \in Seq(Msgs \cup {NoMsg})
    BY <1>1, <1>5 DEF MainLoopPublishes, TypeOK, MessageType
  <2>2. ASSUME calls' = calls, dataLog' = Tail(dataLog),
               NoMsg \notin ElementsOf(Tail(dataLog))
        PROVE  HoldInv'
    BY <2>1, <2>2, NotHolding
  <2>3. ASSUME NEW m \in Msgs, NEW log \in Seq(Msgs \cup {NoMsg}),
               NoMsg \notin ElementsOf(log), Publish(m, 1, FALSE, log)
        PROVE  HoldInv'
    BY <1>1, <2>1, <2>3, PublishHolds
  <2> QED
    BY <1>1, <1>5, <2>1, <2>2, <2>3, MainLoopMessage DEF callVars, HoldInv
<1> SUFFICES ASSUME ~Exit, ~InitInstaMsg, ~MainLoopPublishes PROVE HoldInv'
  BY <1>3, <1>4, <1>5
<1>6. UNCHANGED nextPacketId
  BY <1>1, IdSteps
<1>7. CASE Quietly
  <2>1. UNCHANGED <<nextPacketId, pubAckMsgId, waitingForPuback, lastPub, dataLog>>
    BY <1>6, <1>7, Zenon DEF Quietly, ackVars
  <2> QED
    BY <1>2, <1>7, <2>1, HoldKept
<1>8. CASE CompulsoryReadEnds /\ Top.qos # 0
  <2>1. UNCHANGED <<nextPacketId, pubAckMsgId, waitingForPuback, lastPub, dataLog>>
    BY <1>6, <1>8, Zenon DEF CompulsoryReadEnds, ackVars
  <2>2. calls'[1].msg = calls[1].msg /\ calls'[1].id = calls[1].id
    BY <1>1, <1>2, <1>8 DEF Frames
  <2> QED
    BY <1>2, <1>8, <2>1, <2>2, HoldKept
<1>9. CASE PubAckCycle
  <2>1. UNCHANGED <<nextPacketId, pubAckMsgId, waitingForPuback, lastPub, dataLog>>
    BY <1>6, <1>9, Zenon DEF PubAckCycle
  <2>2. calls'[1].msg = calls[1].msg /\ calls'[1].id = calls[1].id
    BY <1>1, <1>2, <1>9 DEF Frames
  <2> QED
    BY <1>2, <1>9, <2>1, <2>2, HoldKept
<1>10. CASE PubAckTimeout
  <2>1. /\ waitingForPuback = "WAITING_FOR_PUBACK"
        /\ dataLog' = dataLog \/ dataLog' = SaveRecord(dataLog, lastPub)
    BY <1>10, Zenon DEF PubAckTimeout, SaveFailedPublishedMessage
  <2>2. /\ lastPub \in Msgs /\ lastPub # NoMsg /\ lastPub \in Msgs \cup {NoMsg}
        /\ dataLog \in Seq(Msgs \cup {NoMsg})
    BY <1>1, <1>2, <1>10, <2>1, ConstantsAssumption
       DEF HoldInv, WaitingFor, ConstantsAssumption, TypeOK, MessageType
  <2>3. NoMsg \notin ElementsOf(dataLog')
    BY <2>1, <2>2, SavedElements, ConstantsAssumption DEF HoldInv
  <2> QED
    BY <1>2, <1>10, <2>3, NotHolding
<1>11. CASE PubAckWaitEnds
  <2>1. dataLog' = dataLog
    BY <1>11, Zenon DEF PubAckWaitEnds
  <2> QED
    BY <1>2, <1>11, <2>1, NotHolding DEF HoldInv
<1>12. CASE ReceiveAck \/ ReceivePubrec
  <2>1. /\ UNCHANGED <<calls, dataLog, pubAckMsgId>>
        /\ \/ UNCHANGED <<waitingForPuback, lastPub>>
           \/ waitingForPuback' = "NOT_WAITING_FOR_PUBACK" /\ lastPub' = NoMsg
    BY <1>12, Zenon
       DEF ReceiveAck, ReceivePubrec, FireResultHandler, StopWaiting, callVars
  <2>2. Holding' <=> Holding
    BY <2>1 DEF Holding
  <2>3. CASE UNCHANGED <<waitingForPuback, lastPub>>
    BY <1>6, <2>1, <2>2, <2>3, HoldKept
  <2>4. CASE waitingForPuback' = "NOT_WAITING_FOR_PUBACK" /\ lastPub' = NoMsg
    <3>1. ~WaitingFor'
      BY <2>4 DEF WaitingFor
    <3>2. NoMsg \notin ElementsOf(dataLog')
      BY <2>1 DEF HoldInv
    <3> QED
      BY <1>6, <2>1, <2>2, <2>4, <3>1, <3>2 DEF HoldInv, ElementsOf
  <2> QED
    BY <2>1, <2>3, <2>4
<1> QED
  BY <1>1, <1>7, <1>8, <1>9, <1>10, <1>11, <1>12, MainLoopSteps

(* What is sent has been handed to publish().                              *)
SentInv == SentFrom(toServer, handed)

LEMMA PublishNet ==
    ASSUME TypeOK, NEW m \in Msgs, NEW log, Publish(m, 1, FALSE, log)
    PROVE  /\ NextPacketId \in 1..MAX_PACKET_ID /\ nextPacketId' = NextPacketId
           /\ \/ UNCHANGED toServer
              \/ /\ toServer' = Append(toServer, Message(m, NextPacketId, 1))
                 /\ lastPub' = m
           /\ Message(m, NextPacketId, 1) \in ToServer
           /\ Message(m, NextPacketId, 1).type = "PUBLISH"
           /\ Message(m, NextPacketId, 1).msg = m
           /\ Message(m, NextPacketId, 1).id = NextPacketId
           /\ handed' = handed \cup {m}
           /\ rebootPending' = TRUE \/ UNCHANGED rebootPending
           /\ waitingForPuback' = "WAITING_FOR_PUBACK" \/ rebootPending' = TRUE
<1>1. NextPacketId \in 1..MAX_PACKET_ID
  BY NextPacketIdType DEF TypeOK
<1>2. /\ nextPacketId' = NextPacketId
      /\ \/ UNCHANGED toServer
         \/ /\ toServer' = Append(toServer, Message(m, NextPacketId, 1))
            /\ lastPub' = m
      /\ handed' = handed \cup {m}
      /\ rebootPending' = TRUE \/ UNCHANGED rebootPending
      /\ waitingForPuback' = "WAITING_FOR_PUBACK" \/ rebootPending' = TRUE
  BY Zenon DEF Publish, SaveFailedPublishedMessage
<1>3. /\ Message(m, NextPacketId, 1) \in ToServer
      /\ Message(m, NextPacketId, 1).type = "PUBLISH"
      /\ Message(m, NextPacketId, 1).msg = m
      /\ Message(m, NextPacketId, 1).id = NextPacketId
  BY <1>1 DEF Message, ToServer
<1> QED
  BY <1>1, <1>2, <1>3

LEMMA NextSent ==
    ASSUME MainLoopInv, QosInv, HoldInv, SentInv, MainLoopOnly, [Next]_vars
    PROVE  SentInv'
<1>1. /\ toServer \in Seq(ToServer) /\ toClient \in Seq(ToClient)
      /\ TypeOK /\ LoopInv /\ CommandsInv /\ CustodyInv
  BY DEF MainLoopInv, TypeOK, NetType
<1>2. CASE Exit
  <2>1. toServer' = toServer /\ handed' = handed
    BY <1>2, Zenon DEF Exit
  <2> QED
    BY <2>1 DEF SentInv
<1>3. CASE InitInstaMsg
  <2>1. toServer' \in {<<Connect>>, <<>>}
    BY <1>3 DEF InitInstaMsg
  <2> QED
    BY <2>1 DEF SentInv, SentFrom, PubIn, Connect
<1>4. CASE MainLoopPublishes
  <2>1. \/ \E m \in Msgs : \E log : Publish(m, 1, FALSE, log)
        \/ UNCHANGED <<toServer, handed>>
    BY <1>1, <1>4, MainLoopMessage, Zenon
  <2>2. ASSUME NEW m \in Msgs, NEW log, Publish(m, 1, FALSE, log) PROVE SentInv'
    <3>1. SentFrom(toServer, handed \cup {m})
      BY DEF SentInv, SentFrom
    <3>2. \/ UNCHANGED toServer
          \/ toServer' = Append(toServer, Message(m, NextPacketId, 1))
      BY <1>1, <2>2, PublishNet
    <3>3. CASE UNCHANGED toServer
      BY <1>1, <2>2, <3>1, <3>3, PublishNet DEF SentInv
    <3>4. CASE toServer' = Append(toServer, Message(m, NextPacketId, 1))
      <4> DEFINE x == Message(m, NextPacketId, 1)
      <4>1. /\ x \in ToServer /\ x.type = "PUBLISH" /\ x.msg = m
            /\ handed' = handed \cup {m}
        BY <1>1, <2>2, PublishNet
      <4>2. toServer' = Append(toServer, x)
        BY <3>4
      <4> HIDE DEF x
      <4>3. SentFrom(Append(toServer, x), handed \cup {m})
        BY <1>1, <3>1, <4>1, ClientSends
      <4> QED
        BY <4>1, <4>2, <4>3 DEF SentInv
    <3> QED
      BY <3>2, <3>3, <3>4
  <2> QED
    BY <2>1, <2>2 DEF SentInv
<1>5. ASSUME UNCHANGED toServer, ~MainLoopPublishes, ~Exit, ~InitInstaMsg PROVE SentInv'
  <2>1. handed' = handed
    BY <1>1, <1>5, MainLoopSteps, Zenon
       DEF Quietly, CompulsoryReadEnds, PubAckCycle, PubAckTimeout, PubAckWaitEnds,
           ReadPacketFails, ReceiveAck, ReceivePubrec
  <2> QED
    BY <1>5, <2>1 DEF SentInv
<1>6. CASE ServerAnswers
  <2>1. toServer # <<>> /\ toServer' = Tail(toServer)
    BY <1>1, <1>6, Answer DEF MainLoopInv
  <2>2. handed' = handed
    BY <1>6, Zenon DEF ServerAnswers
  <2>3. SentFrom(Tail(toServer), handed)
    BY <1>1, <2>1, ServerTakes DEF SentInv
  <2> QED
    BY <2>1, <2>2, <2>3 DEF SentInv
<1>7. CASE NetStill \/ ServerCommands \/ ClientReads
  <2>1. UNCHANGED toServer
    BY <1>7, Zenon DEF NetStill, ServerCommands, ClientReads
  <2> QED
    BY <1>2, <1>3, <1>4, <1>5, <2>1
<1> QED
  BY <1>1, <1>2, <1>3, <1>4, <1>6, <1>7, NetSteps

-----------------------------------------------------------------------------
(* A reboot is asked for when a message is stored, and takes place after   *)
(* the business logic has run, but not at its very first run.  Until then  *)
(* the main loop publishes a few times more: once in the loop it is asked  *)
(* for in, and if that is the first one, once more in the second.  What is *)
(* left over from the publishes before grows with these stages.            *)
Off == pc \in {"down", "init"}

First == ~runOnceAtStart /\ pc \notin {"ran", "located"}

Second == \/ ~runOnceAtStart /\ pc \in {"ran", "located"}
          \/ runOnceAtStart /\ pc \notin {"ran", "located"}

(* Outside publishes a stage is not left for a later one, and for the      *)
(* second only when no reboot is due.                                      *)
Settles ==
    /\ ~rebootPending' => ~rebootPending
    /\ First' => First
    /\ Second' => \/ First
                  \/ Second
                  \/ ~rebootPending

LEMMA SameStage ==
    ASSUME ~rebootPending' => ~rebootPending, UNCHANGED runOnceAtStart,
           pc' \in {"ran", "located"} <=> pc \in {"ran", "located"}
    PROVE  Settles
BY Zenon DEF Settles, First, Second

LEMMA StageSteps ==
    ASSUME TypeOK, LoopInv, CommandsInv, MainLoopOnly, [Next]_vars
    PROVE  \/ Exit \/ InitInstaMsg \/ Off' \/ MainLoopPublishes
           \/ ~Off /\ Settles
<1>1. /\ ~reading => calls = <<>>
      /\ pc \in {"down", "init"} => ~reading
      /\ rebootPending \in BOOLEAN /\ runOnceAtStart \in BOOLEAN
      /\ Off <=> pc = "down" \/ pc = "init"
  BY Zenon DEF LoopInv, TypeOK, FlagType, Off
<1>2. reading => ~Off
  BY <1>1 DEF Off
<1>3. ASSUME UNCHANGED <<pc, runOnceAtStart>>, ~rebootPending' => ~rebootPending
      PROVE  Off' \/ (~Off /\ Settles)
  <2>1. Settles
    BY <1>3, SameStage
  <2> QED
    BY <1>3, <2>1 DEF Off
<1>4. CASE ReadEnds
  <2>1. reading /\ UNCHANGED runOnceAtStart
    BY <1>4, Zenon
       DEF ReadEnds, CompulsoryReadEnds, PubAckCycle, PubAckTimeout,
           PubAckWaitEnds, PingWaitEnds, ConnectionWaitCycle, MainReadEnds,
           ReadPacketFails, staticVars
  <2>2. ~rebootPending' => ~rebootPending
    BY <1>4, Zenon
       DEF ReadEnds, CompulsoryReadEnds, PubAckCycle, PubAckTimeout,
           PubAckWaitEnds, PingWaitEnds, ConnectionWaitCycle, MainReadEnds,
           SaveFailedPublishedMessage, retryVars
  <2>3. CASE ConnectionWaitCycle \/ MainReadEnds
    <3>1. pc \in {"connect", "read"} /\ pc' \in {"connect", "read", "resend"}
      BY <2>3 DEF ConnectionWaitCycle, MainReadEnds
    <3> QED
      BY <1>2, <2>1, <2>2, <3>1, SameStage
  <2>4. CASE UNCHANGED pc
    BY <1>2, <1>3, <2>1, <2>2, <2>4
  <2> QED
    BY <1>4, <2>3, <2>4, Zenon
       DEF ReadEnds, CompulsoryReadEnds, PubAckCycle, PubAckTimeout,
           PubAckWaitEnds, PingWaitEnds
<1>5. CASE ReceivePacket
  <2>1. Exit \/ UNCHANGED <<pc, runOnceAtStart>>
    BY <1>5, Zenon
       DEF ReceivePacket, ReceiveAck, ReceivePubrec, ReceiveConnack,
           ReceiveCommand, staticVars
  <2>2. Exit \/ (~rebootPending' => ~rebootPending)
    <3>1. \A m, qos, isNull, log : Publish(m, qos, isNull, log)
            => (~rebootPending' => ~rebootPending)
      BY Zenon DEF Publish, SaveFailedPublishedMessage
    <3> QED
      BY <1>5, <3>1, Zenon
         DEF ReceivePacket, ReceiveAck, ReceivePubrec, ReceiveConnack,
             ReceiveCommand, ApplicationPublishes, PublishPlain, retryVars
  <2> QED
    BY <1>3, <2>1, <2>2
<1>6. CASE EnterLoop \/ NothingToResend \/ AfterResend \/ SkipBusinessLogic
           \/ RemoveExpiredResultHandlers \/ TimedPublishes
           \/ SendFirstGpsLocation
  <2>1. /\ pc \notin {"down", "init"}
        /\ pc' \in {"ran", "located"} <=> pc \in {"ran", "located"}
        /\ UNCHANGED <<runOnceAtStart, rebootPending>>
    BY <1>6
       DEF EnterLoop, NothingToResend, AfterResend, SkipBusinessLogic, At, retryVars,
           RemoveExpiredResultHandlers, TimedPublishes, AfterTimed, PublishPlain,
           Ping, SendFirstGpsLocation, staticVars
  <2> QED
    BY <2>1, SameStage, Zenon DEF Off
<1>7. CASE RunBusinessLogic
  <2>1. /\ pc = "business" /\ pc' = "ran" /\ UNCHANGED runOnceAtStart
        /\ MainLoopPublishes \/ UNCHANGED rebootPending
    BY <1>1, <1>7, Zenon
       DEF RunBusinessLogic, ApplicationPublishes, MainLoopPublishes, At, staticVars
  <2>2. CASE UNCHANGED rebootPending
    <3>1. pc \notin {"ran", "located"} /\ pc' = "ran" /\ ~Off
      BY <2>1 DEF Off
    <3> QED
      BY <1>1, <2>1, <2>2, <3>1, Zenon DEF Settles, First, Second
  <2> QED
    BY <2>1, <2>2
<1>8. CASE ResendRecord
  BY <1>1, <1>8, Zenon DEF ResendRecord, At, MainLoopPublishes
<1>9. CASE AfterBusinessLogic
  <2>1. \/ Exit
        \/ /\ pc \in {"ran", "located"} /\ pc' = "tail" /\ runOnceAtStart' = TRUE
           /\ UNCHANGED rebootPending /\ ~(rebootPending /\ runOnceAtStart)
    BY <1>9, Zenon DEF AfterBusinessLogic, At, RebootDue
  <2>2. ASSUME pc \in {"ran", "located"}, pc' = "tail", runOnceAtStart' = TRUE,
               UNCHANGED rebootPending, ~(rebootPending /\ runOnceAtStart)
        PROVE  ~Off /\ Settles
    <3>1. pc' \notin {"ran", "located"} /\ ~Off
      BY <2>2 DEF Off
    <3> QED
      BY <2>2, <3>1, Zenon DEF Settles, First, Second
  <2> QED
    BY <2>1, <2>2, Zenon
<1>10. CASE EndOfLoop
  <2>1. \/ Exit
        \/ Off'
        \/ /\ pc = "tail" /\ pc' = "loop" /\ UNCHANGED <<runOnceAtStart, rebootPending>>
    BY <1>10, Zenon DEF EndOfLoop, ClearInstaMsg, At, Off, retryVars
  <2>2. ASSUME pc = "tail", pc' = "loop", UNCHANGED <<runOnceAtStart, rebootPending>>
        PROVE  ~Off /\ Settles
    <3>1. pc' \notin {"ran", "located"} /\ pc \notin {"ran", "located"} /\ ~Off
      BY <2>2 DEF Off
    <3> QED
      BY <2>2, <3>1, SameStage, Zenon
  <2> QED
    BY <2>1, <2>2, Zenon
<1>11. CASE Environment \/ UNCHANGED vars
  <2>1. Exit \/ UNCHANGED <<pc, runOnceAtStart, rebootPending>>
    BY <1>11, Zenon
       DEF Environment, ServerAnswers, ServerCommands, Crash, Stabilise, vars,
           staticVars, retryVars
  <2> QED
    BY <1>3, <2>1
<1> QED
  BY <1>4, <1>5, <1>6, <1>7, <1>8, <1>9, <1>10, <1>11, Zenon DEF Next, Client

-----------------------------------------------------------------------------
(* The result handlers.                                                    *)
One(S) == \E a : S \subseteq {a}

Two(S) == \E a, b : S \subseteq {a, b}

(* Of the handlers S the table T is left.                                  *)
Fewer(S, T) ==
    /\ S = {} => T = {}
    /\ One(S) => One(T)
    /\ Two(S) => Two(T)
    /\ \A id : (\A h \in S : h.msgId = id) => (\A h \in T : h.msgId = id)

LEMMA FewerAfterExpiry ==
    ASSUME NEW S \in SUBSET Handlers
    PROVE  Fewer(S, ExpireHandlers(S))
<1> DEFINE f(h) == [h EXCEPT !.timeout = @ - 1]
           T == ExpireHandlers(S)
<1>1. \A g \in T : \E h \in S : g = f(h)
  BY DEF ExpireHandlers
<1>2. \A h \in S : f(h).msgId = h.msgId
  BY DEF Handlers
<1> HIDE DEF T, f
<1>3. S = {} => T = {}
  BY <1>1
<1>4. ASSUME One(S) PROVE One(T)
  <2>1. PICK a : S \subseteq {a}
    BY <1>4 DEF One
  <2>2. T \subseteq {f(a)}
    BY <1>1, <2>1
  <2> QED
    BY <2>2 DEF One
<1>5. ASSUME Two(S) PROVE Two(T)
  <2>1. PICK a, b : S \subseteq {a, b}
    BY <1>5 DEF Two
  <2>2. T \subseteq {f(a), f(b)}
    BY <1>1, <2>1
  <2> QED
    BY <2>2 DEF Two
<1>6. \A id : (\A h \in S : h.msgId = id) => (\A h \in T : h.msgId = id)
  BY <1>1, <1>2
<1> QED
  BY <1>3, <1>4, <1>5, <1>6 DEF Fewer, T

LEMMA FewerSubset ==
    ASSUME NEW S, NEW T, T \subseteq S
    PROVE  Fewer(S, T)
<1>1. One(S) => One(T)
  BY DEF One
<1>2. Two(S) => Two(T)
  BY DEF Two
<1> QED
  BY <1>1, <1>2 DEF Fewer

LEMMA FewAreLess ==
    ASSUME NEW S, Two(S)
    PROVE  IsFiniteSet(S) /\ Cardinality(S) <= 2
<1>1. PICK a, b : S \subseteq {a, b}
  BY DEF Two
<1>2. IsFiniteSet({a}) /\ Cardinality({a}) = 1
  BY FS_Singleton, Zenon
<1>3. {a} \cup {b} = {a, b}
  OBVIOUS
<1>4. /\ IsFiniteSet({a} \cup {b})
      /\ Cardinality({a} \cup {b}) = IF b \in {a} THEN Cardinality({a})
                                     ELSE Cardinality({a}) + 1
  BY <1>2, FS_AddElement, Zenon
<1>5. IsFiniteSet({a, b}) /\ Cardinality({a, b}) <= 2
  BY <1>2, <1>3, <1>4
<1>6. IsFiniteSet(S) /\ Cardinality(S) <= Cardinality({a, b})
  BY <1>1, <1>5, FS_Subset, Zenon
<1>7. Cardinality(S) \in Nat /\ Cardinality({a, b}) \in Nat
  BY <1>5, <1>6, FS_CardinalityType, Zenon
<1> QED
  BY <1>5, <1>6, <1>7

(* There is room for another handler whenever the main loop publishes, and *)
(* when no reboot is pending the only handler is that of the wait.         *)
TableInv ==
    ~Off => /\ First => One(resultHandlers)
            /\ Second => Two(resultHandlers)
            /\ ~rebootPending =>
                 /\ One(resultHandlers)
                 /\ \A h \in resultHandlers : h.msgId = pubAckMsgId
                 /\ ~WaitingFor => resultHandlers = {}

(* While publish() waits, its answer has not been read, and its handler is *)
(* there to end the wait; the state of a wait given up shows the same.     *)
AckInv ==
    /\ WaitingFor => ~ackSeen /\ HandlersOf(pubAckMsgId) # {}
    /\ waitingForPuback = "PUBACK_TIMEOUT" => ~ackSeen

LEMMA TableKept ==
    ASSUME TableInv, ~Off /\ Settles, Fewer(resultHandlers, resultHandlers'),
           UNCHANGED pubAckMsgId,
           \/ WaitingFor => WaitingFor'
           \/ rebootPending'
           \/ resultHandlers' = {}
    PROVE  TableInv'
<1> DEFINE S == resultHandlers
           T == resultHandlers'
<1>1. One(S) => One(T)
  BY DEF Fewer
<1>2. Two(S) => Two(T)
  BY DEF Fewer
<1>3. One(S) => Two(S)
  BY DEF One, Two
<1>4. /\ First => One(S)
      /\ Second => Two(S)
      /\ ~rebootPending => /\ One(S)
                           /\ \A h \in S : h.msgId = pubAckMsgId
                           /\ ~WaitingFor => S = {}
  BY Zenon DEF TableInv
<1>5. /\ First' => One(T)
      /\ Second' => Two(T)
  BY <1>1, <1>2, <1>3, <1>4, Zenon DEF Settles
<1>6. ASSUME ~rebootPending'
      PROVE  /\ One(T)
             /\ \A h \in T : h.msgId = pubAckMsgId'
             /\ ~WaitingFor' => T = {}
  <2>1. ~rebootPending
    BY <1>6, Zenon DEF Settles
  <2>2. One(T) /\ \A h \in T : h.msgId = pubAckMsgId
    BY <1>1, <1>4, <2>1 DEF Fewer
  <2>3. ~WaitingFor' => T = {}
    BY <1>4, <1>6, <2>1 DEF Fewer
  <2> QED
    BY <2>2, <2>3
<1> QED
  BY <1>5, <1>6, Zenon DEF TableInv, One, Two

(* A publish() by the main loop, with at most two handlers in the table.   *)
LEMMA PublishTable ==
    ASSUME TypeOK, MAX_MESSAGE_HANDLERS > 2, Two(resultHandlers), calls = <<>>,
           NEW m, NEW log, Publish(m, 1, FALSE, log)
    PROVE  \E h : /\ h.msgId = pubAckMsgId'
                  /\ \/ resultHandlers' = resultHandlers \cup {h}
                     \/ resultHandlers' = resultHandlers
                  /\ ~rebootPending' => \/ resultHandlers' = resultHandlers
                                        \/ /\ calls' # <<>>
                                           /\ waitingForPuback' = "WAITING_FOR_PUBACK"
                  /\ calls' # <<>> => resultHandlers' = resultHandlers \cup {h}
                  /\ ackSeen' = FALSE
<1> DEFINE h == [msgId |-> NextPacketId, timeout |-> MQTT_RESULT_HANDLER_TIMEOUT]
<1>1. Cardinality(resultHandlers) # MAX_MESSAGE_HANDLERS
  BY FewAreLess, FS_CardinalityType, ConstantsAssumption DEF ConstantsAssumption
<1>2. AttachResultHandler(resultHandlers, NextPacketId, FALSE) = resultHandlers \cup {h}
  BY <1>1 DEF AttachResultHandler
<1>3. h.msgId = NextPacketId /\ pubAckMsgId' = NextPacketId /\ ackSeen' = FALSE
  BY Zenon DEF Publish
<1> HIDE DEF h
<1>4. \A at : Append(calls, [msg |-> m, id |-> NextPacketId, qos |-> 1, at |-> at,
                             cycles |-> 0]) # <<>>
  BY CallBegins DEF TypeOK, StackType
<1>5. \/ /\ resultHandlers' = resultHandlers \cup {h}
         /\ waitingForPuback' = "WAITING_FOR_PUBACK" /\ calls' # <<>>
      \/ /\ resultHandlers' = resultHandlers \cup {h}
         /\ rebootPending' = TRUE /\ calls' = calls
      \/ resultHandlers' = resultHandlers /\ calls' = calls
  BY <1>2, <1>4, Zenon DEF Publish, SaveFailedPublishedMessage
<1> QED
  BY <1>3, <1>5

LEMMA TableSteps ==
    ASSUME TypeOK, LoopInv, CommandsInv, QosInv, MainLoopOnly, [Next]_vars
    PROVE  \/ Exit \/ InitInstaMsg \/ MainLoopPublishes \/ ReceiveAck
           \/ UNCHANGED <<resultHandlers, pubAckMsgId>>
           \/ /\ resultHandlers' = ExpireHandlers(resultHandlers)
              /\ UNCHANGED <<calls, ackVars>> /\ ~reading
<1>1. CASE ReadEnds
  BY <1>1, Zenon
     DEF ReadEnds, CompulsoryReadEnds, PubAckCycle, PubAckTimeout, PubAckWaitEnds,
         PingWaitEnds, ConnectionWaitCycle, MainReadEnds, ReadPacketFails,
         tableVars, ackVars
<1>2. CASE ReceiveConnack
  BY <1>2, Zenon DEF ReceiveConnack, tableVars, ackVars
<1>3. CASE ReceiveCommand
  <2>1. toClient # <<>> /\ Head(toClient).type = "COMMAND" /\ reading
    BY <1>3, Zenon DEF ReceiveCommand, Arrives
  <2>2. Head(toClient).kind \in Commands
    BY <2>1, CommandsTail DEF CommandsInv, CommandOK, TypeOK, NetType
  <2>3. Head(toClient).kind \notin {"file1", "file2", "callback"}
    BY <2>2 DEF MainLoopOnly
  <2>4. Exit \/ PublishPlain
    BY <1>3, <2>3 DEF ReceiveCommand
  <2> QED
    BY <2>4, Zenon DEF PublishPlain, tableVars, ackVars
<1>4. CASE RemoveExpiredResultHandlers
  BY <1>4, Zenon DEF RemoveExpiredResultHandlers, At, callVars
<1>5. CASE RunBusinessLogic \/ ResendRecord
  <2>1. calls = <<>> /\ ~reading
    BY <1>5, Zenon DEF RunBusinessLogic, ResendRecord, At, LoopInv
  <2> QED
    BY <1>5, <2>1, Zenon
       DEF RunBusinessLogic, ApplicationPublishes, MainLoopPublishes, tableVars,
           ackVars
<1>6. CASE EnterLoop \/ NothingToResend \/ AfterResend \/ SkipBusinessLogic
           \/ TimedPublishes \/ SendFirstGpsLocation
  BY <1>6, Zenon
     DEF EnterLoop, NothingToResend, AfterResend, SkipBusinessLogic,
         TimedPublishes, SendFirstGpsLocation, PublishPlain, Ping, tableVars,
         ackVars
<1>7. CASE AfterBusinessLogic \/ EndOfLoop
  BY <1>7, Zenon
     DEF AfterBusinessLogic, EndOfLoop, ClearInstaMsg, tableVars, ackVars
<1>8. CASE Environment \/ UNCHANGED vars
  BY <1>8, Zenon
     DEF Environment, ServerAnswers, ServerCommands, Crash, Stabilise, vars,
         tableVars, ackVars
<1> QED
  BY <1>1, <1>2, <1>3, <1>4, <1>5, <1>6, <1>7, <1>8, NoPubrec, Zenon
     DEF Next, Client, ReceivePacket

(* Where in the main loop it publishes.                                    *)
LEMMA MainLoopStage ==
    ASSUME MainLoopPublishes
    PROVE  /\ ~Off
           /\ UNCHANGED runOnceAtStart
           /\ RunBusinessLogic => pc \notin {"ran", "located"} /\ pc' = "ran"
           /\ ResendRecord => /\ pc \notin {"ran", "located"} /\ pc' \notin {"ran", "located"}
                              /\ ~rebootPending
                              /\ waitingForPuback # "WAITING_FOR_PUBACK"
BY DEF MainLoopPublishes, RunBusinessLogic, ResendRecord, At, MayResend, staticVars, Off

LEMMA PublishKeepsTable ==
    ASSUME MainLoopInv, HoldInv, TableInv, MainLoopOnly, MAX_MESSAGE_HANDLERS > 2,
           [Next]_vars, MainLoopPublishes
    PROVE  TableInv'
<1>1. /\ TypeOK /\ LoopInv /\ CommandsInv /\ CustodyInv /\ SoleInv
      /\ calls = <<>> /\ ~WaitingFor /\ ~Off
  BY MainLoopStage
     DEF MainLoopInv, MainLoopPublishes, WaitingFor, Holding, HoldingIn
<1>2. /\ pc \notin {"ran", "located"} /\ UNCHANGED runOnceAtStart
      /\ runOnceAtStart \in BOOLEAN /\ rebootPending \in BOOLEAN
  BY <1>1, MainLoopStage DEF MainLoopPublishes, TypeOK, FlagType
<1>3. Two(resultHandlers) /\ (~rebootPending => resultHandlers = {})
  <2>1. One(resultHandlers) => Two(resultHandlers)
    BY DEF One, Two
  <2> QED
    BY <1>1, <1>2, <2>1, Zenon DEF TableInv, First, Second
<1>4. ASSUME NEW m \in Msgs, NEW log, Publish(m, 1, FALSE, log)
      PROVE  TableInv'
  <2>1. PICK h : /\ h.msgId = pubAckMsgId'
                 /\ \/ resultHandlers' = resultHandlers \cup {h}
                    \/ resultHandlers' = resultHandlers
                 /\ ~rebootPending' => \/ resultHandlers' = resultHandlers
                                       \/ /\ calls' # <<>>
                                          /\ waitingForPuback' = "WAITING_FOR_PUBACK"
    BY <1>1, <1>3, <1>4, PublishTable
  <2>2. ~rebootPending' => ~rebootPending
    BY <1>1, <1>4, PublishNet
  <2>3. ASSUME ~rebootPending'
        PROVE  /\ One(resultHandlers') /\ Two(resultHandlers')
               /\ \A g \in resultHandlers' : g.msgId = pubAckMsgId'
               /\ ~WaitingFor' => resultHandlers' = {}
    <3>1. resultHandlers = {}
      BY <1>3, <2>2, <2>3
    <3>2. /\ resultHandlers' \subseteq {h} /\ resultHandlers' \subseteq {h, h}
          /\ \A g \in resultHandlers' : g.msgId = pubAckMsgId'
      BY <2>1, <3>1
    <3>3. calls' # <<>> => Holding'
      BY <1>1, <1>4, NextSole
    <3>4. ~WaitingFor' => resultHandlers' = {}
      BY <2>1, <2>3, <3>1, <3>3 DEF WaitingFor
    <3> QED
      BY <3>2, <3>4, Zenon DEF One, Two
  <2>4. CASE RunBusinessLogic
    <3>1. pc' = "ran"
      BY <2>4, MainLoopStage
    <3>2. First => Two(resultHandlers')
      <4>1. ASSUME First PROVE Two(resultHandlers')
        <5>1. One(resultHandlers)
          BY <1>1, <4>1 DEF TableInv
        <5>2. PICK a : resultHandlers \subseteq {a}
          BY <5>1 DEF One
        <5>3. resultHandlers' \subseteq {a, h}
          BY <2>1, <5>2
        <5> QED
          BY <5>3 DEF Two
      <4> QED
        BY <4>1
    <3>3. Second' => First
      BY <1>2, <3>1, Zenon DEF First, Second
    <3>4. ~First'
      BY <3>1, Zenon DEF First
    <3> QED
      BY <2>3, <3>2, <3>3, <3>4, Zenon DEF TableInv
  <2>5. CASE ResendRecord
    <3>1. resultHandlers = {}
      BY <1>3, <2>5, MainLoopStage
    <3>2. resultHandlers' \subseteq {h} /\ resultHandlers' \subseteq {h, h}
      BY <2>1, <3>1
    <3>3. One(resultHandlers') /\ Two(resultHandlers')
      BY <3>2, Zenon DEF One, Two
    <3> QED
      BY <2>3, <3>3, Zenon DEF TableInv
  <2> QED
    BY <2>4, <2>5 DEF MainLoopPublishes
<1>5. CASE /\ ResendRecord
           /\ UNCHANGED <<callVars, ackVars, tableVars, rebootPending, toServer, handed>>
  <2>1. /\ UNCHANGED <<calls, waitingForPuback, resultHandlers, pubAckMsgId>>
        /\ ~rebootPending' => ~rebootPending
        /\ pc' \notin {"ran", "located"}
    BY <1>5, MainLoopStage DEF callVars, ackVars, tableVars
  <2>2. Settles
    BY <1>2, <2>1, SameStage
  <2>3. WaitingFor => WaitingFor'
    BY <1>1
  <2>4. Fewer(resultHandlers, resultHandlers')
    BY <2>1, FewerSubset
  <2> QED
    BY <1>1, <2>1, <2>2, <2>3, <2>4, TableKept
<1> QED
  BY <1>1, <1>4, <1>5, MainLoopMessage, Zenon

LEMMA NextTable ==
    ASSUME MainLoopInv, QosInv, HoldInv, TableInv, MainLoopOnly,
           MAX_MESSAGE_HANDLERS > 2, [Next]_vars
    PROVE  TableInv'
<1>1. /\ TypeOK /\ LoopInv /\ CommandsInv /\ CustodyInv /\ SoleInv /\ TypeOK'
      /\ resultHandlers \in SUBSET Handlers
  BY NextType DEF MainLoopInv, TypeOK, AckType
<1>2. CASE Exit \/ Off'
  <2>1. Off'
    BY <1>2 DEF Exit, Off
  <2> QED
    BY <2>1, Zenon DEF TableInv
<1>3. CASE InitInstaMsg
  <2>1. resultHandlers' = {}
    BY <1>3, Zenon DEF InitInstaMsg
  <2> QED
    BY <2>1 DEF TableInv, One, Two
<1>4. CASE MainLoopPublishes
  BY <1>4, PublishKeepsTable
<1> SUFFICES ASSUME ~Exit, ~InitInstaMsg, ~MainLoopPublishes, ~Off /\ Settles
             PROVE  TableInv'
  BY <1>1, <1>2, <1>3, <1>4, StageSteps
<1>5. CASE ReceiveAck
  <2>1. /\ resultHandlers' = resultHandlers \ HandlersOf(Head(toClient).id)
        /\ UNCHANGED <<calls, pubAckMsgId>>
        /\ \/ UNCHANGED waitingForPuback
           \/ Head(toClient).id = pubAckMsgId
    BY <1>5, Zenon DEF ReceiveAck, FireResultHandler, callVars
  <2>2. Fewer(resultHandlers, resultHandlers')
    BY <2>1, FewerSubset
  <2>3. CASE UNCHANGED waitingForPuback
    <3>1. WaitingFor => WaitingFor'
      BY <2>1, <2>3 DEF WaitingFor, Holding
    <3> QED
      BY <2>1, <2>2, <3>1, TableKept
  <2>4. CASE Head(toClient).id = pubAckMsgId
    <3>1. ~rebootPending => \A h \in resultHandlers : h.msgId = pubAckMsgId
      BY DEF TableInv
    <3>2. ~rebootPending => resultHandlers' = {}
      BY <2>1, <2>4, <3>1 DEF HandlersOf
    <3>3. rebootPending' \/ resultHandlers' = {}
      BY <3>2 DEF Settles
    <3> QED
      BY <2>1, <2>2, <3>3, TableKept
  <2> QED
    BY <2>1, <2>3, <2>4
<1>6. CASE ~ReceiveAck
  <2>1. Fewer(resultHandlers, resultHandlers') /\ UNCHANGED pubAckMsgId
    BY <1>1, <1>6, TableSteps, FewerSubset, FewerAfterExpiry DEF ackVars
  <2>2. \/ Holding' <=> Holding
        \/ PubAckTimeout
        \/ PubAckWaitEnds
    BY <1>1, <1>6, NextSole, MainLoopSteps, NoPubrec
  <2>3. \/ UNCHANGED waitingForPuback
        \/ PubAckTimeout
        \/ PubAckWaitEnds
    BY <1>1, <1>6, MainLoopSteps, NoPubrec, Zenon
       DEF Quietly, CompulsoryReadEnds, PubAckCycle, ackVars
  <2>4. PubAckTimeout => rebootPending' = TRUE
    BY Zenon DEF PubAckTimeout, SaveFailedPublishedMessage
  <2>5. PubAckWaitEnds => ~WaitingFor
    BY Zenon DEF PubAckWaitEnds, WaitingFor
  <2>6. \/ WaitingFor => WaitingFor'
        \/ rebootPending'
    BY <2>2, <2>3, <2>4, <2>5, Zenon DEF WaitingFor
  <2> QED
    BY <2>1, <2>6, TableKept
<1> QED
  BY <1>5, <1>6

LEMMA RoomLeft ==
    ASSUME MainLoopInv, TableInv, MainLoopPublishes
    PROVE  Two(resultHandlers) /\ calls = <<>> /\ TypeOK
<1>1. /\ calls = <<>> /\ ~Off /\ pc \notin {"ran", "located"}
      /\ TypeOK /\ runOnceAtStart \in BOOLEAN
  BY MainLoopStage DEF MainLoopInv, MainLoopPublishes, TypeOK, FlagType
<1>2. One(resultHandlers) => Two(resultHandlers)
  BY DEF One, Two
<1> QED
  BY <1>1, <1>2, Zenon DEF TableInv, First, Second

LEMMA NextAck ==
    ASSUME MainLoopInv, QosInv, HoldInv, TableInv, AckInv, MainLoopOnly,
           MAX_MESSAGE_HANDLERS > 2, [Next]_vars
    PROVE  AckInv'
<1>1. /\ TypeOK /\ LoopInv /\ CommandsInv /\ CustodyInv /\ SoleInv /\ TypeOK'
      /\ ackSeen \in BOOLEAN /\ ackSeen' \in BOOLEAN
      /\ calls = <<>> => ~Holding
  BY NextType DEF MainLoopInv, TypeOK, FlagType, Holding, HoldingIn
<1>2. /\ Quietly => (Holding' <=> Holding)
      /\ CompulsoryReadEnds /\ Top.qos # 0 => Holding /\ Holding'
      /\ PubAckCycle => Holding /\ Holding'
      /\ PubAckTimeout \/ PubAckWaitEnds => Holding /\ ~Holding'
  BY <1>1, NextSole
<1>3. CASE Exit \/ InitInstaMsg
  <2>1. /\ calls' = <<>> \/ waitingForPuback' = "NOT_WAITING_FOR_PUBACK"
        /\ \/ waitingForPuback' = "WAITING_FOR_PUBACK"
           \/ waitingForPuback' = "NOT_WAITING_FOR_PUBACK"
    BY <1>3, Zenon DEF Exit, InitInstaMsg
  <2>2. ~WaitingFor'
    BY <2>1 DEF WaitingFor, Holding, HoldingIn
  <2>3. waitingForPuback' # "PUBACK_TIMEOUT"
    BY <2>1
  <2> QED
    BY <2>2, <2>3, Zenon DEF AckInv
<1>4. CASE MainLoopPublishes
  <2>1. ASSUME NEW m, NEW log, Publish(m, 1, FALSE, log) PROVE AckInv'
    <3>1. PICK h : /\ h.msgId = pubAckMsgId' /\ ackSeen' = FALSE
                   /\ calls' # <<>> => resultHandlers' = resultHandlers \cup {h}
      BY <1>4, <2>1, RoomLeft, PublishTable
    <3>2. WaitingFor' => calls' # <<>>
      BY DEF WaitingFor, Holding, HoldingIn
    <3>3. WaitingFor' => h \in HandlersOf(pubAckMsgId)'
      BY <3>1, <3>2 DEF HandlersOf
    <3> QED
      BY <3>1, <3>3 DEF AckInv
  <2>2. CASE UNCHANGED <<calls, waitingForPuback, ackSeen>>
    <3>1. ~WaitingFor'
      BY <1>1, <1>4, <2>2 DEF WaitingFor, Holding, MainLoopPublishes
    <3> QED
      BY <2>2, <3>1, Zenon DEF AckInv
  <2>3. \/ UNCHANGED <<calls, waitingForPuback, ackSeen>>
        \/ \E m, log : Publish(m, 1, FALSE, log)
    BY <1>1, <1>4, MainLoopMessage, Zenon DEF callVars, ackVars
  <2> QED
    BY <2>1, <2>2, <2>3
<1>5. CASE ReceiveAck
  <2> DEFINE id == Head(toClient).id
  <2>1. /\ resultHandlers' = resultHandlers \ HandlersOf(id)
        /\ UNCHANGED <<calls, pubAckMsgId>>
        /\ ackSeen' = (ackSeen \/ (id = pubAckMsgId
                                   /\ waitingForPuback = "WAITING_FOR_PUBACK"))
        /\ \/ waitingForPuback' = "NOT_WAITING_FOR_PUBACK"
           \/ UNCHANGED waitingForPuback /\ ~(HandlersOf(id) # {} /\ id = pubAckMsgId)
    BY <1>5, Zenon
       DEF ReceiveAck, FireResultHandler, SeesAnswer, StopWaiting, callVars
  <2> HIDE DEF id
  <2>2. CASE waitingForPuback' = "NOT_WAITING_FOR_PUBACK"
    BY <2>2 DEF AckInv, WaitingFor
  <2>3. CASE UNCHANGED waitingForPuback /\ ~(HandlersOf(id) # {} /\ id = pubAckMsgId)
    <3>1. ASSUME WaitingFor' PROVE ~ackSeen' /\ HandlersOf(pubAckMsgId)' # {}
      <4>1. WaitingFor
        BY <2>1, <2>3, <3>1 DEF WaitingFor, Holding
      <4>2. ~ackSeen /\ HandlersOf(pubAckMsgId) # {}
        BY <4>1, Zenon DEF AckInv
      <4>3. id # pubAckMsgId
        BY <2>3, <4>2
      <4>4. ~ackSeen'
        BY <2>1, <4>2, <4>3, Zenon
      <4>5. \A h \in HandlersOf(pubAckMsgId) : h \in HandlersOf(pubAckMsgId)'
        BY <2>1, <4>3 DEF HandlersOf
      <4> QED
        BY <4>2, <4>4, <4>5
    <3>2. ASSUME waitingForPuback' = "PUBACK_TIMEOUT" PROVE ~ackSeen'
      <4>1. waitingForPuback = "PUBACK_TIMEOUT"
        BY <2>3, <3>2
      <4>2. waitingForPuback # "WAITING_FOR_PUBACK" /\ ~ackSeen
        BY <4>1 DEF AckInv
      <4> QED
        BY <2>1, <4>2, Zenon
    <3> QED
      BY <3>1, <3>2, Zenon DEF AckInv
  <2> QED
    BY <2>1, <2>2, <2>3, Zenon
<1> SUFFICES ASSUME ~Exit, ~InitInstaMsg, ~MainLoopPublishes, ~ReceiveAck
             PROVE  AckInv'
  BY <1>3, <1>4, <1>5
<1>6. CASE PubAckTimeout
  <2>1. /\ waitingForPuback = "WAITING_FOR_PUBACK" /\ UNCHANGED ackSeen
    BY <1>6, Zenon DEF PubAckTimeout
  <2>2. ~ackSeen /\ ~WaitingFor'
    BY <1>2, <1>6, <2>1, Zenon DEF WaitingFor, AckInv
  <2> QED
    BY <2>1, <2>2, Zenon DEF AckInv
<1>7. CASE PubAckWaitEnds
  <2>1. UNCHANGED <<waitingForPuback, ackSeen>>
    BY <1>7, Zenon DEF PubAckWaitEnds, ackVars
  <2>2. ~WaitingFor'
    BY <1>2, <1>7, Zenon DEF WaitingFor
  <2> QED
    BY <2>1, <2>2, Zenon DEF AckInv
<1>8. CASE Quietly \/ (CompulsoryReadEnds /\ Top.qos # 0) \/ PubAckCycle
  <2>1. UNCHANGED <<waitingForPuback, ackSeen>>
    BY <1>8, Zenon DEF Quietly, CompulsoryReadEnds, PubAckCycle, ackVars
  <2>2. WaitingFor' <=> WaitingFor
    BY <1>2, <1>8, <2>1, Zenon DEF WaitingFor
  <2>3. WaitingFor => UNCHANGED <<resultHandlers, pubAckMsgId>>
    <3>1. ~reading => ~WaitingFor
      BY <1>1 DEF LoopInv, WaitingFor
    <3> QED
      BY <1>1, <3>1, TableSteps
  <2>4. WaitingFor' => ~ackSeen' /\ HandlersOf(pubAckMsgId)' # {}
    <3>1. ASSUME WaitingFor PROVE ~ackSeen /\ HandlersOf(pubAckMsgId)' # {}
      <4>1. HandlersOf(pubAckMsgId)' = HandlersOf(pubAckMsgId)
        BY <2>3, <3>1 DEF HandlersOf
      <4> QED
        BY <3>1, <4>1 DEF AckInv
    <3> QED
      BY <2>1, <2>2, <3>1
  <2> QED
    BY <2>1, <2>4, Zenon DEF AckInv
<1> QED
  BY <1>1, <1>6, <1>7, <1>8, MainLoopSteps, NoPubrec, Zenon

(* The whole invariant of a driver that publishes from its main loop only. *)
DriverInv == MainLoopInv /\ QosInv /\ HoldInv

LEMMA InitDriver == Init => DriverInv /\ SentInv
<1> SUFFICES ASSUME Init PROVE DriverInv /\ SentInv
  OBVIOUS
<1>1. calls = <<>> /\ dataLog = <<>> /\ toServer = <<>> /\ toClient = <<>>
  BY Zenon DEF Init
<1>2. HoldInv
  BY <1>1 DEF HoldInv, WaitingFor, Holding, HoldingIn, ElementsOf
<1> QED
  BY <1>1, <1>2, InitMainLoop DEF DriverInv, QosInv, OnlyQos1, SentInv, SentFrom, PubIn

LEMMA NextDriver == MainLoopOnly /\ DriverInv /\ [Next]_vars => DriverInv'
<1> SUFFICES ASSUME MainLoopOnly, DriverInv, [Next]_vars PROVE DriverInv'
  OBVIOUS
<1>1. TypeOK /\ LoopInv /\ CommandsInv
  BY DEF DriverInv, MainLoopInv
<1> QED
  BY <1>1, NextMainLoop, NextQos, NextHold DEF DriverInv

(* When the main loop alone publishes with guarantee, a message goes back  *)
(* to the data log only if its answer was not read during the wait: the    *)
(* handler that turns an answer into the end of the wait is in the table   *)
(* as long as the wait lasts, because the table never fills up.  Three     *)
(* places are enough for that; the code has 50 (MAX_MESSAGE_HANDLERS).     *)
THEOREM TimeoutIsUnacked ==
    MainLoopOnly /\ MAX_MESSAGE_HANDLERS > 2 => (Spec => []TimeoutMeansUnacked)
<1> SUFFICES ASSUME MainLoopOnly, MAX_MESSAGE_HANDLERS > 2
             PROVE  Spec => []TimeoutMeansUnacked
  OBVIOUS
<1> DEFINE Inv == DriverInv /\ TableInv /\ AckInv
<1>1. Init => Inv
  <2> SUFFICES ASSUME Init PROVE TableInv /\ AckInv
    BY InitDriver
  <2>1. pc = "down" /\ calls = <<>> /\ waitingForPuback = "WAITING_FOR_PUBACK"
    BY Zenon DEF Init
  <2> QED
    BY <2>1 DEF TableInv, Off, AckInv, WaitingFor, Holding, HoldingIn
<1>2. Inv /\ [Next]_vars => Inv'
  BY NextDriver, NextTable, NextAck DEF DriverInv
<1>3. Inv => TimeoutMeansUnacked
  BY DEF AckInv, TimeoutMeansUnacked
<1> QED
  BY <1>1, <1>2, <1>3, PTL DEF Spec

-----------------------------------------------------------------------------
(* The ids in flight.  The id of a new message is none of them: what was   *)
(* sent before a reboot was asked for has the id before the last, at most. *)
Before(id) == IF id = 1 THEN MAX_PACKET_ID ELSE id - 1

Ids == IdsIn(toServer, toClient)

FlightInv ==
    ~Off =>
      /\ nextPacketId \in 1..MAX_PACKET_ID
      /\ OnceIn(toServer, toClient)
      /\ First => Ids \subseteq {nextPacketId}
      /\ Second => Ids \subseteq {nextPacketId, Before(nextPacketId)}
      /\ ~rebootPending => /\ Ids \subseteq {nextPacketId}
                           /\ ~WaitingFor => Ids = {}
      /\ WaitingFor =>
           Carried(toServer, toClient, nextPacketId, lastPub, delivered)

LEMMA FlightKept ==
    ASSUME FlightInv, ~Off /\ Settles, UNCHANGED nextPacketId, Ids' \subseteq Ids,
           OnceIn(toServer', toClient'),
           \/ WaitingFor => WaitingFor'
           \/ rebootPending'
           \/ Ids' = {},
           WaitingFor' =>
             Carried(toServer', toClient', nextPacketId, lastPub', delivered')
    PROVE  FlightInv'
<1>1. /\ nextPacketId \in 1..MAX_PACKET_ID
      /\ First => Ids \subseteq {nextPacketId}
      /\ Second => Ids \subseteq {nextPacketId, Before(nextPacketId)}
      /\ ~rebootPending => /\ Ids \subseteq {nextPacketId}
                           /\ ~WaitingFor => Ids = {}
  BY Zenon DEF FlightInv
<1>2. First' => Ids' \subseteq {nextPacketId'}
  BY <1>1 DEF Settles
<1>3. Second' => Ids' \subseteq {nextPacketId', Before(nextPacketId)'}
  <2>1. Second' => Ids \subseteq {nextPacketId, Before(nextPacketId)}
    BY <1>1 DEF Settles
  <2>2. Before(nextPacketId)' = Before(nextPacketId)
    BY DEF Before
  <2> QED
    BY <2>1, <2>2
<1>4. ~rebootPending' => /\ Ids' \subseteq {nextPacketId'}
                         /\ ~WaitingFor' => Ids' = {}
  <2>1. ~rebootPending' => ~rebootPending
    BY DEF Settles
  <2> QED
    BY <1>1, <2>1
<1>5. WaitingFor' =>
        Carried(toServer', toClient', nextPacketId', lastPub', delivered')
  BY DEF Carried
<1>6. nextPacketId' \in 1..MAX_PACKET_ID
  BY <1>1
<1>7. OnceIn(toServer, toClient)'
  BY DEF OnceIn, PubIn, AckIn
<1>8. WaitingFor' => Carried(toServer, toClient, nextPacketId, lastPub, delivered)'
  BY <1>5 DEF Carried, PubIn, AckIn
<1> QED
  BY <1>2, <1>3, <1>4, <1>6, <1>7, <1>8, Zenon DEF FlightInv

(* What happens on the network between two publishes.                      *)
LEMMA NetKeeps ==
    ASSUME MainLoopInv, QosInv, MainLoopOnly, [Next]_vars, OnceIn(toServer, toClient),
           ~Exit, ~InitInstaMsg, ~MainLoopPublishes
    PROVE  /\ OnceIn(toServer', toClient') /\ Ids' \subseteq Ids
           /\ \A m : Carried(toServer, toClient, nextPacketId, m, delivered) =>
                Carried(toServer', toClient', nextPacketId, m, delivered')
           /\ ReceiveAck => /\ Head(toClient).id \in Ids
                            /\ Head(toClient).id \notin Ids'
<1>1. /\ toServer \in Seq(ToServer) /\ toClient \in Seq(ToClient)
      /\ TypeOK /\ LoopInv /\ CommandsInv /\ TypeOK'
      /\ toServer' \in Seq(ToServer) /\ toClient' \in Seq(ToClient)
  BY NextType DEF MainLoopInv, TypeOK, NetType
<1>2. Ids = IdsIn(toServer, toClient) /\ Ids' = IdsIn(toServer', toClient')
  BY DEF Ids, IdsIn, PubIn, AckIn
<1>3. CASE ReceiveAck
  <2>1. /\ toClient # <<>> /\ toClient' = Tail(toClient)
        /\ UNCHANGED <<toServer, delivered>>
        /\ \/ Head(toClient).type = "PUBACK"
           \/ Head(toClient).type = "PUBCOMP"
    BY <1>3, Zenon DEF ReceiveAck, Arrives, serverVars
  <2>2. Head(toClient).type = "PUBACK"
    BY <1>1, <2>1, ClientTakes DEF QosInv
  <2> QED
    BY <1>1, <1>2, <2>1, <2>2, ClientTakes
<1> SUFFICES ASSUME ~ReceiveAck
             PROVE  /\ OnceIn(toServer', toClient') /\ Ids' \subseteq Ids
                    /\ \A m : Carried(toServer, toClient, nextPacketId, m, delivered) =>
                         Carried(toServer', toClient', nextPacketId, m, delivered')
  BY <1>3
<1>4. CASE NetStill
  BY <1>2, <1>4 DEF NetStill
<1>5. CASE ClientReads
  BY <1>1, <1>2, <1>5, ClientTakes DEF ClientReads
<1>6. CASE ServerCommands
  <2>1. /\ \E kind, m : toClient' = Append(toClient, Command(kind, m))
        /\ UNCHANGED <<toServer, delivered>>
    BY <1>6, Zenon DEF ServerCommands, serverVars
  <2>2. PICK x : toClient' = Append(toClient, x) /\ x.type = "COMMAND"
    BY <2>1 DEF Command
  <2>3. x \in ToClient /\ x.type # "PUBACK"
    BY <1>1, <2>2, NewToClient
  <2>4. /\ OnceIn(toServer, Append(toClient, x))
        /\ IdsIn(toServer, Append(toClient, x)) \subseteq IdsIn(toServer, toClient)
        /\ \A m : Carried(toServer, toClient, nextPacketId, m, delivered) =>
             Carried(toServer, Append(toClient, x), nextPacketId, m, delivered)
    BY <1>1, <2>3, ServerSends
  <2> QED
    BY <1>2, <2>1, <2>2, <2>4
<1>7. CASE ServerAnswers
  <2> DEFINE s == Tail(toServer)
             p == Head(toServer)
  <2>1. toServer # <<>> /\ toServer' = s
    BY <1>1, <1>7, Answer
  <2>2. /\ s \in Seq(ToServer)
        /\ OnceIn(s, toClient)
        /\ p.type = "PUBLISH" => p.id \notin IdsIn(s, toClient)
        /\ IdsIn(s, toClient) \subseteq IdsIn(toServer, toClient)
        /\ p.type = "PUBLISH" => p.id \in IdsIn(toServer, toClient)
        /\ \A m : Carried(toServer, toClient, nextPacketId, m, delivered) =>
             /\ Carried(s, toClient, nextPacketId, m, delivered)
             /\ p.type = "PUBLISH" /\ p.id = nextPacketId => p.msg = m
    BY <1>1, <2>1, ServerTakes
  <2>3. /\ delivered \subseteq delivered'
        /\ p.type = "PUBLISH" => p.msg \in delivered'
        /\ \/ UNCHANGED toClient
           \/ \E rc : toClient' = Append(toClient, Connack(rc))
           \/ p.type = "PUBLISH" /\ toClient' = Append(toClient, Ack("PUBACK", p.id))
    BY <1>1, <1>7, Answer
  <2> HIDE DEF s, p
  <2>4. \A c, m : Carried(s, c, nextPacketId, m, delivered) =>
                    Carried(s, c, nextPacketId, m, delivered')
    BY <2>3 DEF Carried
  <2>5. CASE UNCHANGED toClient
    BY <1>2, <2>1, <2>2, <2>4, <2>5
  <2>6. ASSUME NEW rc, toClient' = Append(toClient, Connack(rc))
        PROVE  /\ OnceIn(toServer', toClient') /\ Ids' \subseteq Ids
               /\ \A m : Carried(toServer, toClient, nextPacketId, m, delivered) =>
                    Carried(toServer', toClient', nextPacketId, m, delivered')
    <3>1. Connack(rc) \in ToClient /\ Connack(rc).type # "PUBACK"
      BY <1>1, <2>6, NewToClient DEF Connack
    <3>2. /\ OnceIn(s, Append(toClient, Connack(rc)))
          /\ IdsIn(s, Append(toClient, Connack(rc))) \subseteq IdsIn(s, toClient)
          /\ \A m : Carried(s, toClient, nextPacketId, m, delivered') =>
               Carried(s, Append(toClient, Connack(rc)), nextPacketId, m, delivered')
      BY <1>1, <2>2, <3>1, ServerSends
    <3> QED
      BY <1>2, <2>1, <2>2, <2>4, <2>6, <3>2
  <2>7. ASSUME p.type = "PUBLISH", toClient' = Append(toClient, Ack("PUBACK", p.id))
        PROVE  /\ OnceIn(toServer', toClient') /\ Ids' \subseteq Ids
               /\ \A m : Carried(toServer, toClient, nextPacketId, m, delivered) =>
                    Carried(toServer', toClient', nextPacketId, m, delivered')
    <3> DEFINE x == Ack("PUBACK", p.id)
    <3>1. x \in ToClient /\ x.id = p.id /\ x.type = "PUBACK"
      BY <1>1, <2>7, NewToClient DEF Ack
    <3>2. toClient' = Append(toClient, x)
      BY <2>7
    <3> HIDE DEF x
    <3>3. /\ OnceIn(s, Append(toClient, x))
          /\ IdsIn(s, Append(toClient, x)) \subseteq IdsIn(s, toClient) \cup {x.id}
      BY <1>1, <2>2, <2>7, <3>1, ServerSends
    <3>4. ASSUME NEW m, Carried(toServer, toClient, nextPacketId, m, delivered)
          PROVE  Carried(toServer', toClient', nextPacketId, m, delivered')
      <4>1. Carried(s, toClient, nextPacketId, m, delivered')
        BY <2>2, <2>4, <3>4
      <4>2. x.type = "PUBACK" /\ x.id = nextPacketId => m \in delivered'
        BY <2>2, <2>3, <2>7, <3>1, <3>4
      <4>3. Carried(s, Append(toClient, x), nextPacketId, m, delivered')
        BY <1>1, <2>2, <3>1, <4>1, <4>2, ServerSends
      <4> QED
        BY <2>1, <3>2, <4>3
    <3> QED
      BY <1>2, <2>1, <2>2, <2>7, <3>1, <3>2, <3>3, <3>4
  <2> QED
    BY <2>3, <2>5, <2>6, <2>7
<1> QED
  BY <1>1, <1>4, <1>5, <1>6, <1>7, NetSteps

LEMMA FreshId ==
    ASSUME MAX_PACKET_ID > 2, nextPacketId \in 1..MAX_PACKET_ID
    PROVE  /\ NextPacketId \notin {nextPacketId, Before(nextPacketId)}
           /\ Before(NextPacketId) = nextPacketId
           /\ NextPacketId \in 1..MAX_PACKET_ID
<1>1. MAX_PACKET_ID \in Nat
  BY ConstantsAssumption DEF ConstantsAssumption
<1>2. nextPacketId \in Nat /\ nextPacketId >= 1 /\ nextPacketId <= MAX_PACKET_ID
  BY <1>1
<1> QED
  BY <1>1, <1>2 DEF NextPacketId, Before

(* A publish() by the main loop sends a packet, or fails.                  *)
LEMMA PublishSends ==
    ASSUME TypeOK, NEW m \in Msgs, NEW log, calls = <<>>, Publish(m, 1, FALSE, log)
    PROVE  \/ /\ toServer' = Append(toServer, Message(m, NextPacketId, 1))
              /\ calls' # <<>> /\ waitingForPuback' = "WAITING_FOR_PUBACK"
              /\ lastPub' = m /\ UNCHANGED rebootPending /\ dataLog' = log
           \/ /\ UNCHANGED <<toServer, calls>> /\ rebootPending' = TRUE
              /\ \/ /\ waitingForPuback' = "PUBACK_TIMEOUT"
                    /\ dataLog' = SaveRecord(log, m)
                 \/ /\ waitingForPuback' = "WAITING_FOR_PUBACK" /\ HeapMayFail
                    /\ dataLog' = log
           \/ /\ UNCHANGED <<toServer, calls, rebootPending>>
              /\ waitingForPuback' = "WAITING_FOR_PUBACK" /\ HeapMayFail
              /\ dataLog' = log
<1>1. \A at : Append(calls, [msg |-> m, id |-> NextPacketId, qos |-> 1, at |-> at,
                             cycles |-> 0]) # <<>>
  BY CallBegins DEF TypeOK, StackType
<1> QED
  BY <1>1, Zenon DEF Publish, SaveFailedPublishedMessage

LEMMA PublishKeepsFlight ==
    ASSUME MainLoopInv, HoldInv, FlightInv, MainLoopOnly, MAX_PACKET_ID > 2,
           [Next]_vars, MainLoopPublishes
    PROVE  FlightInv'
<1>1. /\ TypeOK /\ LoopInv /\ CommandsInv /\ CustodyInv /\ SoleInv
      /\ calls = <<>> /\ ~WaitingFor /\ ~Off
      /\ toServer \in Seq(ToServer) /\ toClient \in Seq(ToClient)
  BY MainLoopStage
     DEF MainLoopInv, MainLoopPublishes, WaitingFor, Holding, HoldingIn, TypeOK, NetType
<1>2. /\ pc \notin {"ran", "located"} /\ UNCHANGED <<runOnceAtStart, toClient, delivered>>
      /\ runOnceAtStart \in BOOLEAN /\ rebootPending \in BOOLEAN
  BY <1>1, MainLoopStage
     DEF MainLoopPublishes, TypeOK, FlagType, RunBusinessLogic, ResendRecord, serverVars
<1>3. /\ nextPacketId \in 1..MAX_PACKET_ID
      /\ OnceIn(toServer, toClient)
      /\ First => Ids \subseteq {nextPacketId}
      /\ Second => Ids \subseteq {nextPacketId, Before(nextPacketId)}
      /\ ~rebootPending => Ids = {}
  BY <1>1, Zenon DEF FlightInv
<1>4. Ids \subseteq {nextPacketId, Before(nextPacketId)}
  <2>1. First \/ Second
    BY <1>2, Zenon DEF First, Second
  <2> QED
    BY <1>3, <2>1
<1>5. Ids = IdsIn(toServer, toClient) /\ Ids' = IdsIn(toServer', toClient')
  BY DEF Ids, IdsIn, PubIn, AckIn
<1>6. ASSUME NEW m \in Msgs, NEW log, Publish(m, 1, FALSE, log)
      PROVE  FlightInv'
  <2> DEFINE x == Message(m, NextPacketId, 1)
  <2>1. /\ x \in ToServer /\ x.type = "PUBLISH" /\ x.msg = m /\ x.id = NextPacketId
        /\ nextPacketId' = NextPacketId /\ (~rebootPending' => ~rebootPending)
    BY <1>1, <1>6, PublishNet
  <2>2. /\ NextPacketId \notin Ids /\ Before(NextPacketId) = nextPacketId
        /\ NextPacketId \in 1..MAX_PACKET_ID
    BY <1>3, <1>4, FreshId
  <2>3. \/ /\ toServer' = Append(toServer, x)
           /\ calls' # <<>> /\ waitingForPuback' = "WAITING_FOR_PUBACK"
           /\ lastPub' = m
        \/ UNCHANGED <<toServer, calls>>
    BY <1>1, <1>6, PublishSends
  <2> HIDE DEF x
  <2>4. /\ OnceIn(toServer', toClient') /\ Ids' \subseteq Ids \cup {NextPacketId}
        /\ \/ Ids' = Ids /\ calls' = <<>>
           \/ WaitingFor'
        /\ WaitingFor' =>
             Carried(toServer', toClient', NextPacketId, lastPub', delivered')
    <3>1. CASE UNCHANGED <<toServer, calls>>
      <4>1. calls' = <<>> /\ ~WaitingFor' /\ Ids' = Ids
        BY <1>1, <1>2, <1>5, <3>1 DEF WaitingFor, Holding, HoldingIn
      <4> QED
        BY <1>2, <1>3, <3>1, <4>1
    <3>2. CASE /\ toServer' = Append(toServer, x)
               /\ calls' # <<>> /\ waitingForPuback' = "WAITING_FOR_PUBACK"
               /\ lastPub' = m
      <4>1. WaitingFor'
        BY <1>1, <1>6, <3>2, NextSole DEF WaitingFor
      <4>2. /\ OnceIn(Append(toServer, x), toClient)
            /\ IdsIn(Append(toServer, x), toClient)
                 \subseteq IdsIn(toServer, toClient) \cup {NextPacketId}
            /\ \A d : Carried(Append(toServer, x), toClient, NextPacketId, m, d)
        BY <1>1, <1>3, <1>5, <2>1, <2>2, ClientSends
      <4> QED
        BY <1>2, <1>5, <3>2, <4>1, <4>2
    <3> QED
      BY <2>3, <3>1, <3>2
  <2>5. ~rebootPending' => /\ Ids' \subseteq {nextPacketId'}
                           /\ ~WaitingFor' => Ids' = {}
    BY <1>3, <2>1, <2>4
  <2>6. Before(nextPacketId)' = nextPacketId
    BY <2>1, <2>2 DEF Before
  <2>7. /\ First' => Ids' \subseteq {nextPacketId'}
        /\ Second' => Ids' \subseteq {nextPacketId', Before(nextPacketId)'}
    <3>1. CASE RunBusinessLogic
      <4>1. pc' = "ran"
        BY <3>1, MainLoopStage
      <4>2. ~First' /\ (Second' => First)
        BY <1>2, <4>1, Zenon DEF First, Second
      <4> QED
        BY <1>3, <2>1, <2>4, <2>6, <4>2
    <3>2. CASE ResendRecord
      <4>1. Ids' \subseteq {nextPacketId'}
        BY <1>3, <2>1, <2>4, <3>2, MainLoopStage
      <4> QED
        BY <4>1
    <3> QED
      BY <3>1, <3>2 DEF MainLoopPublishes
  <2>8. nextPacketId' \in 1..MAX_PACKET_ID
    BY <2>1, <2>2
  <2>9. OnceIn(toServer, toClient)'
    BY <2>4 DEF OnceIn, PubIn, AckIn
  <2>10. WaitingFor' => Carried(toServer, toClient, nextPacketId, lastPub, delivered)'
    BY <2>1, <2>4 DEF Carried, PubIn, AckIn
  <2> QED
    BY <2>5, <2>7, <2>8, <2>9, <2>10, Zenon DEF FlightInv
<1>7. CASE /\ ResendRecord
           /\ UNCHANGED <<callVars, ackVars, tableVars, rebootPending, toServer, handed>>
  <2>1. /\ UNCHANGED <<calls, toServer, nextPacketId, rebootPending>> /\ pc' \notin {"ran", "located"}
    BY <1>7, MainLoopStage DEF callVars, tableVars
  <2>2. Settles
    BY <1>2, <2>1, SameStage
  <2>3. ~WaitingFor'
    BY <1>1, <2>1 DEF WaitingFor, Holding, HoldingIn
  <2>4. Ids' \subseteq Ids /\ OnceIn(toServer', toClient')
    BY <1>2, <1>3, <1>5, <2>1
  <2> QED
    BY <1>1, <2>1, <2>2, <2>3, <2>4, FlightKept
<1> QED
  BY <1>1, <1>6, <1>7, MainLoopMessage, Zenon

(* The wait, between two publishes: it may end, and does not begin.        *)
LEMMA WaitSteps ==
    ASSUME MainLoopInv, QosInv, MainLoopOnly, [Next]_vars,
           ~Exit, ~InitInstaMsg, ~MainLoopPublishes
    PROVE  /\ UNCHANGED <<pubAckMsgId, handed>>
           /\ \/ /\ Holding' <=> Holding
                 /\ UNCHANGED <<waitingForPuback, lastPub, dataLog>>
              \/ /\ ReceiveAck /\ UNCHANGED <<calls, dataLog>>
                 /\ Head(toClient).id = pubAckMsgId
                 /\ waitingForPuback' = "NOT_WAITING_FOR_PUBACK" /\ lastPub' = NoMsg
              \/ PubAckTimeout /\ Holding /\ ~Holding'
              \/ /\ Holding /\ ~WaitingFor /\ ~Holding'
                 /\ UNCHANGED <<waitingForPuback, lastPub, dataLog>>
<1>1. /\ TypeOK /\ LoopInv /\ CommandsInv /\ SoleInv
  BY DEF MainLoopInv
<1>2. /\ Quietly => (Holding' <=> Holding)
      /\ CompulsoryReadEnds /\ Top.qos # 0 => Holding /\ Holding'
      /\ PubAckCycle => Holding /\ Holding'
      /\ PubAckTimeout \/ PubAckWaitEnds => Holding /\ ~Holding'
  BY <1>1, NextSole
<1>3. CASE Quietly \/ (CompulsoryReadEnds /\ Top.qos # 0) \/ PubAckCycle
  <2>1. UNCHANGED <<pubAckMsgId, handed, waitingForPuback, lastPub, dataLog>>
    BY <1>3, Zenon
       DEF Quietly, CompulsoryReadEnds, PubAckCycle, ReadPacketFails, ackVars
  <2> QED
    BY <1>2, <1>3, <2>1, Zenon
<1>4. CASE PubAckTimeout
  BY <1>2, <1>4, Zenon DEF PubAckTimeout, ReadPacketFails
<1>5. CASE PubAckWaitEnds
  <2>1. /\ UNCHANGED <<pubAckMsgId, handed, waitingForPuback, lastPub, dataLog>>
        /\ waitingForPuback # "WAITING_FOR_PUBACK"
    BY <1>5, Zenon DEF PubAckWaitEnds, ReadPacketFails, ackVars
  <2> QED
    BY <1>2, <1>5, <2>1, Zenon DEF WaitingFor
<1>6. CASE ReceiveAck
  <2>1. /\ UNCHANGED <<pubAckMsgId, handed, calls, dataLog>>
        /\ \/ UNCHANGED <<waitingForPuback, lastPub>>
           \/ /\ waitingForPuback' = "NOT_WAITING_FOR_PUBACK" /\ lastPub' = NoMsg
              /\ Head(toClient).id = pubAckMsgId
    BY <1>6, Zenon DEF ReceiveAck, FireResultHandler, StopWaiting, callVars
  <2>2. Holding' <=> Holding
    BY <2>1 DEF Holding
  <2> QED
    BY <1>6, <2>1, <2>2, Zenon
<1> QED
  BY <1>1, <1>3, <1>4, <1>5, <1>6, MainLoopSteps, NoPubrec, Zenon

LEMMA NextFlight ==
    ASSUME DriverInv, FlightInv, MainLoopOnly, MAX_PACKET_ID > 2, [Next]_vars
    PROVE  FlightInv'
<1>1. /\ MainLoopInv /\ QosInv /\ HoldInv
      /\ TypeOK /\ LoopInv /\ CommandsInv
  BY DEF DriverInv, MainLoopInv
<1>2. CASE Exit \/ Off'
  <2>1. Off'
    BY <1>2 DEF Exit, Off
  <2> QED
    BY <2>1, Zenon DEF FlightInv
<1>3. CASE InitInstaMsg
  <2>1. /\ toServer' \in {<<Connect>>, <<>>} /\ toClient' = <<>>
        /\ nextPacketId' = MAX_PACKET_ID
        /\ waitingForPuback' = "NOT_WAITING_FOR_PUBACK"
    BY <1>3 DEF InitInstaMsg
  <2>2. PubIn(toServer)' = {} /\ AckIn(toClient)' = {}
    BY <2>1 DEF PubIn, AckIn, Connect
  <2>3. Ids' = {} /\ OnceIn(toServer, toClient)'
    BY <2>2 DEF Ids, IdsIn, OnceIn
  <2>4. nextPacketId' \in 1..MAX_PACKET_ID
    BY <2>1, ConstantsAssumption DEF ConstantsAssumption
  <2>5. ~WaitingFor'
    BY <2>1 DEF WaitingFor
  <2> QED
    BY <2>3, <2>4, <2>5 DEF FlightInv
<1>4. CASE MainLoopPublishes
  BY <1>1, <1>4, PublishKeepsFlight
<1> SUFFICES ASSUME ~Exit, ~InitInstaMsg, ~MainLoopPublishes, ~Off /\ Settles
             PROVE  FlightInv'
  BY <1>1, <1>2, <1>3, <1>4, StageSteps
<1>5. /\ UNCHANGED nextPacketId
      /\ OnceIn(toServer, toClient)
      /\ WaitingFor => Carried(toServer, toClient, nextPacketId, lastPub, delivered)
      /\ ~rebootPending => Ids \subseteq {nextPacketId}
  BY <1>1, IdSteps DEF FlightInv
<1>6. /\ OnceIn(toServer', toClient') /\ Ids' \subseteq Ids
      /\ \A m : Carried(toServer, toClient, nextPacketId, m, delivered) =>
           Carried(toServer', toClient', nextPacketId, m, delivered')
      /\ ReceiveAck => /\ Head(toClient).id \in Ids
                       /\ Head(toClient).id \notin Ids'
  BY <1>1, <1>5, NetKeeps
<1>7. WaitingFor' => WaitingFor /\ lastPub' = lastPub
  <2>1. PubAckTimeout => ~WaitingFor \/ Holding
    BY DEF WaitingFor
  <2> QED
    BY <1>1, WaitSteps, Zenon DEF WaitingFor
<1>8. WaitingFor' => Carried(toServer', toClient', nextPacketId, lastPub', delivered')
  BY <1>5, <1>6, <1>7
<1>9. \/ WaitingFor => WaitingFor'
      \/ rebootPending'
      \/ Ids' = {}
  <2>1. CASE PubAckTimeout
    BY <2>1, Zenon DEF PubAckTimeout, SaveFailedPublishedMessage
  <2>2. CASE ReceiveAck
    <3>1. ~rebootPending' => Ids' = {}
      BY <1>5, <1>6, <2>2 DEF Settles
    <3> QED
      BY <3>1
  <2>3. CASE ~PubAckTimeout /\ ~ReceiveAck
    BY <1>1, <2>3, WaitSteps, Zenon DEF WaitingFor
  <2> QED
    BY <2>1, <2>2, <2>3
<1> QED
  BY <1>5, <1>6, <1>8, <1>9, FlightKept

-----------------------------------------------------------------------------
(* The refinement of StoreAndForward: the message it holds is that of the  *)
(* one publish() with guarantee under way.                                 *)
Held == IF Guaranteed = {} THEN NoMsg ELSE lastPub

LEMMA HeldIs ==
    ASSUME TypeOK, SoleInv
    PROVE  /\ Holding => Guaranteed # {} /\ Held = lastPub
           /\ ~Holding => Guaranteed = {} /\ Held = NoMsg
<1>1. \A i \in Guaranteed : i \in DOMAIN calls /\ calls[i].qos > 0 /\ i = 1
  BY DEF Guaranteed, SoleInv, SoleOK
<1>2. \A i \in Guaranteed : Holding
  BY <1>1 DEF Holding, HoldingIn
<1>3. Holding => 1 \in Guaranteed
  BY DEF Guaranteed, TypeOK, StackType, Holding, HoldingIn
<1> QED
  BY <1>2, <1>3 DEF Held

LEMMA HeldNext ==
    ASSUME TypeOK', SoleInv'
    PROVE  /\ Holding' => Guaranteed' # {} /\ Held' = lastPub'
           /\ ~Holding' => Guaranteed' = {} /\ Held' = NoMsg
<1>1. \A i \in Guaranteed' : i \in DOMAIN calls' /\ calls'[i].qos > 0 /\ i = 1
  BY DEF Guaranteed, SoleInv, SoleOK
<1>2. \A i \in Guaranteed' : Holding'
  BY <1>1 DEF Holding, HoldingIn
<1>3. Holding' => 1 \in Guaranteed'
  BY DEF Guaranteed, TypeOK, StackType, Holding, HoldingIn
<1> QED
  BY <1>2, <1>3 DEF Held

LEMMA PromisedStutters ==
    ASSUME pc' = "down" <=> pc = "down", UNCHANGED <<handed, Held, dataLog, delivered>>
    PROVE  UNCHANGED Promised!promiseVars
<1>1. (pc' # "down") = (pc # "down")
  OBVIOUS
<1> QED
  BY <1>1, Zenon DEF Promised!promiseVars, Held

LEMMA StoreIs ==
    \A log, m : Promised!Store(log, m) = SaveRecord(log, m)
BY DEF Promised!Store, SaveRecord

(* The process ends with Exit only.                                        *)
LEMMA NextUp ==
    ASSUME LoopInv, [Next]_vars, ~Exit, ~InitInstaMsg
    PROVE  pc' = "down" <=> pc = "down"
<1>1. pc = "down" => pc' = "down"
  BY NextDown
<1>2. ReadEnds => pc' # "down" \/ pc' = pc
  <2>1. CASE ConnectionWaitCycle \/ MainReadEnds
    BY <2>1 DEF ConnectionWaitCycle, MainReadEnds
  <2>2. CASE CompulsoryReadEnds \/ PubAckCycle \/ PubAckTimeout \/ PubAckWaitEnds
             \/ PingWaitEnds
    BY <2>2, Zenon
       DEF CompulsoryReadEnds, PubAckCycle, PubAckTimeout, PubAckWaitEnds, PingWaitEnds
  <2> QED
    BY <2>1, <2>2 DEF ReadEnds
<1>3. ReceivePacket => pc' = pc
  BY Zenon
     DEF ReceivePacket, ReceiveAck, ReceivePubrec, ReceiveConnack, ReceiveCommand
<1>4. CASE EnterLoop \/ NothingToResend \/ AfterResend \/ SkipBusinessLogic
           \/ RemoveExpiredResultHandlers \/ TimedPublishes
           \/ RunBusinessLogic \/ SendFirstGpsLocation \/ ResendRecord
  BY <1>1, <1>4, TimedPlace
     DEF EnterLoop, NothingToResend, AfterResend, SkipBusinessLogic,
         SendFirstGpsLocation, RemoveExpiredResultHandlers, RunBusinessLogic,
         ResendRecord
<1>5. CASE AfterBusinessLogic \/ EndOfLoop
  <2>1. pc' = "tail" \/ pc' = "init" \/ pc' = "loop"
    BY <1>5, Zenon DEF AfterBusinessLogic, EndOfLoop, ClearInstaMsg
  <2> QED
    BY <1>1, <2>1
<1>6. CASE Environment \/ UNCHANGED vars
  BY <1>6, Zenon
     DEF Environment, ServerAnswers, ServerCommands, Crash, Stabilise, vars
<1> QED
  BY <1>1, <1>2, <1>3, <1>4, <1>5, <1>6, Zenon DEF Next, Client

Refines == [Promised!PromiseNext]_(Promised!promiseVars)

LEMMA ExitRefines ==
    ASSUME DriverInv, Exit
    PROVE  Refines
<1>1. /\ pc' = "down" /\ calls' = <<>> /\ UNCHANGED <<handed, dataLog, delivered>>
  BY Zenon DEF Exit, serverVars
<1>2. Guaranteed' = {} /\ Held' = NoMsg
  BY <1>1 DEF Guaranteed, Held
<1>3. CASE pc = "down"
  <2>1. calls = <<>>
    BY <1>3 DEF DriverInv, MainLoopInv, LoopInv
  <2>2. Held = NoMsg
    BY <2>1 DEF Guaranteed, Held
  <2> QED
    BY <1>1, <1>2, <1>3, <2>2, PromisedStutters DEF Refines
<1>4. CASE pc # "down"
  <2>1. Promised!ProcessEnds
    BY <1>1, <1>2, <1>4 DEF Promised!ProcessEnds, Held
  <2> QED
    BY <2>1 DEF Refines, Promised!PromiseNext
<1> QED
  BY <1>3, <1>4

LEMMA StartRefines ==
    ASSUME DriverInv, InitInstaMsg
    PROVE  Refines
<1>1. /\ pc' = "loop" /\ UNCHANGED <<calls, lastPub, handed, dataLog, delivered>>
      /\ pc \in {"down", "init"}
  BY Zenon DEF InitInstaMsg, serverVars, callVars
<1>2. Held' = Held
  BY <1>1 DEF Guaranteed, Held
<1>3. CASE pc = "down"
  <2>1. Promised!ProcessStarts
    BY <1>1, <1>2, <1>3 DEF Promised!ProcessStarts, Held
  <2> QED
    BY <2>1 DEF Refines, Promised!PromiseNext
<1>4. CASE pc # "down"
  <2>1. pc' = "down" <=> pc = "down"
    BY <1>1, <1>4
  <2> QED
    BY <1>1, <1>2, <2>1, PromisedStutters DEF Refines
<1> QED
  BY <1>3, <1>4

LEMMA PublishRefines ==
    ASSUME DriverInv, DriverInv', MainLoopOnly, [Next]_vars, MainLoopPublishes
    PROVE  Refines
<1>1. /\ TypeOK /\ LoopInv /\ CommandsInv /\ CustodyInv /\ SoleInv /\ HoldInv
      /\ TypeOK' /\ SoleInv' /\ calls = <<>>
  BY DEF DriverInv, MainLoopInv, MainLoopPublishes
<1>2. pc # "down" /\ pc' # "down" /\ delivered' = delivered
  BY DEF MainLoopPublishes, RunBusinessLogic, ResendRecord, At, serverVars
<1>3. Held = NoMsg
  BY <1>1, HeldIs DEF Holding, HoldingIn
<1>4. /\ calls' = <<>> => Guaranteed' = {} /\ Held' = NoMsg
      /\ Holding' => Held' = lastPub'
  BY <1>1, HeldNext DEF Holding, HoldingIn
<1>5. ASSUME NEW m \in Msgs, NEW log, Publish(m, 1, FALSE, log)
      PROVE  /\ handed' = handed \cup {m}
             /\ \/ Held' = m /\ dataLog' = log
                \/ Held' = NoMsg /\ dataLog' = SaveRecord(log, m)
                \/ /\ Held' = NoMsg /\ dataLog' = log /\ HeapMayFail
                   /\ Abandoned'
  <2>1. handed' = handed \cup {m}
    BY <1>1, <1>5, PublishNet
  <2>2. \/ /\ calls' # <<>> /\ waitingForPuback' = "WAITING_FOR_PUBACK"
           /\ lastPub' = m /\ dataLog' = log
        \/ /\ UNCHANGED calls /\ dataLog' = SaveRecord(log, m)
        \/ /\ UNCHANGED calls /\ waitingForPuback' = "WAITING_FOR_PUBACK"
           /\ HeapMayFail /\ dataLog' = log
    BY <1>1, <1>5, PublishSends
  <2>3. calls' # <<>> => Holding'
    BY <1>1, <1>5, NextSole
  <2>4. calls' = <<>> /\ waitingForPuback' = "WAITING_FOR_PUBACK" => Abandoned'
    BY <1>2, <1>4 DEF Abandoned
  <2> QED
    BY <1>1, <1>4, <2>1, <2>2, <2>3, <2>4
<1>6. CASE RunBusinessLogic /\ \E m \in Msgs : m \notin handed
                                                /\ Publish(m, 1, FALSE, dataLog)
  <2>1. PICK m \in Msgs : m \notin handed /\ Publish(m, 1, FALSE, dataLog)
    BY <1>6
  <2>2. /\ handed' = handed \cup {m}
        /\ \/ Held' = m /\ dataLog' = dataLog
           \/ Held' = NoMsg /\ dataLog' = SaveRecord(dataLog, m)
           \/ /\ Held' = NoMsg /\ dataLog' = dataLog /\ HeapMayFail
              /\ Abandoned'
    BY <1>5, <2>1
  <2>3. CASE \/ Held' = m /\ dataLog' = dataLog
             \/ Held' = NoMsg /\ dataLog' = SaveRecord(dataLog, m)
    <3>1. Promised!Accept(m)
      BY <1>2, <1>3, <2>1, <2>2, <2>3, StoreIs DEF Promised!Accept, Held
    <3> QED
      BY <2>1, <3>1 DEF Refines, Promised!PromiseNext
  <2>4. CASE Held' = NoMsg /\ dataLog' = dataLog /\ HeapMayFail /\ Abandoned'
    <3>1. Promised!Starve
      BY <1>2, <1>3, <2>1, <2>2, <2>4 DEF Promised!Starve, Held
    <3> QED
      BY <3>1 DEF Refines, Promised!PromiseNext
  <2> QED
    BY <2>2, <2>3, <2>4
<1>7. CASE /\ dataLog # <<>> /\ Head(dataLog) \in Msgs /\ Head(dataLog) \in handed
           /\ Publish(Head(dataLog), 1, FALSE, Tail(dataLog))
  <2>1. handed' = handed
    BY <1>5, <1>7
  <2>2. \/ Held' = Head(dataLog) /\ dataLog' = Tail(dataLog)
        \/ Held' = NoMsg /\ dataLog' = SaveRecord(Tail(dataLog), Head(dataLog))
        \/ Held' = NoMsg /\ dataLog' = Tail(dataLog) /\ HeapMayFail
    BY <1>5, <1>7
  <2>3. CASE \/ Held' = Head(dataLog) /\ dataLog' = Tail(dataLog)
             \/ Held' = NoMsg /\ dataLog' = SaveRecord(Tail(dataLog), Head(dataLog))
    <3>1. Promised!Forward
      BY <1>2, <1>3, <1>7, <2>1, <2>3, StoreIs DEF Promised!Forward, Held
    <3> QED
      BY <3>1 DEF Refines, Promised!PromiseNext
  <2>4. CASE Held' = NoMsg /\ dataLog' = Tail(dataLog) /\ HeapMayFail
    <3>1. Promised!Starve
      BY <1>2, <1>3, <1>7, <2>1, <2>4 DEF Promised!Starve, Held
    <3> QED
      BY <3>1 DEF Refines, Promised!PromiseNext
  <2> QED
    BY <2>2, <2>3, <2>4
<1>8. CASE /\ dataLog # <<>> /\ HeapMayFail /\ dataLog' = Tail(dataLog)
           /\ UNCHANGED <<callVars, ackVars, tableVars, rebootPending, toServer, handed>>
  <2>1. Held' = NoMsg /\ handed' = handed
    BY <1>1, <1>4, <1>8 DEF callVars
  <2>2. Promised!Starve
    BY <1>2, <1>3, <1>8, <2>1 DEF Promised!Starve, Held
  <2> QED
    BY <2>2 DEF Refines, Promised!PromiseNext
<1> QED
  BY <1>1, <1>6, <1>7, <1>8, MainLoopMessage, Zenon

LEMMA OtherStepsRefine ==
    ASSUME DriverInv, DriverInv', SentInv, FlightInv, MainLoopOnly, [Next]_vars,
           ~Exit, ~InitInstaMsg, ~MainLoopPublishes
    PROVE  Refines
<1>1. /\ TypeOK /\ LoopInv /\ CommandsInv /\ SoleInv /\ QosInv /\ HoldInv /\ MainLoopInv
      /\ TypeOK' /\ SoleInv' /\ HoldInv'
  BY DEF DriverInv, MainLoopInv
<1>2. pc' = "down" <=> pc = "down"
  BY <1>1, NextUp
<1>3. toServer \in Seq(ToServer) /\ toClient \in Seq(ToClient)
  BY <1>1 DEF TypeOK, NetType
<1>4. /\ Holding => Held = lastPub
      /\ ~Holding => Held = NoMsg
      /\ Holding' => Held' = lastPub'
      /\ ~Holding' => Held' = NoMsg
  BY <1>1, HeldIs, HeldNext
<1>5. UNCHANGED <<pubAckMsgId, handed>>
  BY <1>1, WaitSteps
<1>6. CASE ServerAnswers
  <2>1. /\ toServer # <<>> /\ UNCHANGED <<calls, lastPub, dataLog>>
        /\ \/ UNCHANGED delivered
           \/ /\ Head(toServer).type = "PUBLISH"
              /\ delivered' = delivered \cup {Head(toServer).msg}
    BY <1>1, <1>6, Answer, Zenon DEF ackVars
  <2>2. Held' = Held
    BY <2>1 DEF Held, Guaranteed
  <2>3. Head(toServer).type = "PUBLISH" => Head(toServer).msg \in handed \cap Msgs
    BY <1>3, <2>1, ServerTakes DEF SentInv
  <2>4. CASE UNCHANGED delivered
    BY <1>2, <1>5, <2>1, <2>2, <2>4, PromisedStutters DEF Refines
  <2>5. CASE /\ Head(toServer).type = "PUBLISH"
             /\ delivered' = delivered \cup {Head(toServer).msg}
    <3>1. Promised!Receive(Head(toServer).msg)
      BY <1>2, <1>5, <2>1, <2>2, <2>3, <2>5 DEF Promised!Receive, Held
    <3> QED
      BY <2>3, <2>5, <3>1 DEF Refines, Promised!PromiseNext
  <2> QED
    BY <2>1, <2>4, <2>5
<1> SUFFICES ASSUME ~ServerAnswers PROVE Refines
  BY <1>6
<1>7. delivered' = delivered
  BY <1>1, NetSteps, Zenon DEF NetStill, ServerCommands, ClientReads, serverVars
<1>8. ASSUME UNCHANGED dataLog, Held' = Held PROVE Refines
  BY <1>2, <1>5, <1>7, <1>8, PromisedStutters DEF Refines
<1>9. CASE UNCHANGED <<lastPub, dataLog>> /\ (Holding' <=> Holding)
  BY <1>4, <1>8, <1>9
<1>10. CASE /\ ReceiveAck /\ UNCHANGED <<calls, dataLog>>
            /\ Head(toClient).id = pubAckMsgId /\ lastPub' = NoMsg
  <2>1. Holding' <=> Holding
    BY <1>10 DEF Holding
  <2>2. Held' = NoMsg
    BY <1>4, <1>10, <2>1
  <2>3. CASE ~WaitingFor
    BY <1>1, <1>4, <1>8, <1>10, <2>2, <2>3 DEF HoldInv
  <2>4. CASE WaitingFor
    <3>1. reading /\ toClient # <<>> /\ Head(toClient).type \in {"PUBACK", "PUBCOMP"}
      BY <1>10, Zenon DEF ReceiveAck, Arrives
    <3>2. Head(toClient).type = "PUBACK" /\ pc # "down" /\ ~Off
      BY <1>1, <1>3, <3>1, ClientTakes DEF QosInv, LoopInv, Off
    <3>3. Holding /\ pubAckMsgId = nextPacketId
      BY <1>1, <2>4 DEF WaitingFor, HoldInv
    <3>4. Carried(toServer, toClient, nextPacketId, lastPub, delivered)
      BY <2>4, <3>2 DEF FlightInv
    <3>5. lastPub \in delivered
      BY <1>3, <1>10, <3>1, <3>2, <3>3, <3>4, ClientTakes
    <3>6. Promised!Forget
      BY <1>2, <1>4, <1>5, <1>7, <1>10, <2>2, <3>2, <3>3, <3>5 DEF Promised!Forget, Held
    <3> QED
      BY <3>6 DEF Refines, Promised!PromiseNext
  <2> QED
    BY <2>3, <2>4
<1>11. CASE PubAckTimeout /\ Holding /\ ~Holding'
  <2>1. /\ reading /\ waitingForPuback = "WAITING_FOR_PUBACK"
        /\ SaveFailedPublishedMessage(dataLog, lastPub)
    BY <1>11, Zenon DEF PubAckTimeout, ReadPacketFails
  <2>2. pc # "down"
    BY <1>1, <2>1 DEF LoopInv
  <2>3. Held = lastPub /\ Held # NoMsg /\ Held' = NoMsg
    BY <1>1, <1>4, <1>11, <2>1, ConstantsAssumption
       DEF HoldInv, WaitingFor, ConstantsAssumption
  <2>4. CASE dataLog' = SaveRecord(dataLog, lastPub)
    <3>1. Promised!PutBack
      BY <1>2, <1>5, <1>7, <2>2, <2>3, <2>4, StoreIs DEF Promised!PutBack, Held
    <3> QED
      BY <3>1 DEF Refines, Promised!PromiseNext
  <2>5. CASE /\ HeapMayFail /\ dataLog' = dataLog
             /\ waitingForPuback' = "WAITING_FOR_PUBACK"
    <3>1. Abandoned'
      BY <1>1, <1>2, <1>11, <2>2, <2>5, HeldNext DEF Abandoned
    <3>2. Promised!Starve
      BY <1>2, <1>5, <1>7, <2>2, <2>3, <2>5, <3>1 DEF Promised!Starve, Held
    <3> QED
      BY <3>2 DEF Refines, Promised!PromiseNext
  <2> QED
    BY <2>1, <2>4, <2>5, Zenon DEF SaveFailedPublishedMessage
<1>12. CASE Holding /\ ~WaitingFor /\ ~Holding' /\ UNCHANGED dataLog
  BY <1>1, <1>4, <1>8, <1>12 DEF HoldInv
<1> QED
  BY <1>1, <1>9, <1>10, <1>11, <1>12, WaitSteps, Zenon

LEMMA InitPromised == Init => Promised!PromiseInit
<1> SUFFICES ASSUME Init PROVE Promised!PromiseInit
  OBVIOUS
<1>1. /\ pc = "down" /\ calls = <<>> /\ dataLog = <<>>
      /\ handed = {} /\ delivered = {}
  BY Zenon DEF Init
<1> QED
  BY <1>1 DEF Promised!PromiseInit, Guaranteed

(* When the main loop alone publishes with guarantee, the driver does what *)
(* StoreAndForward says of it: waitForPubAck lets go of a message only     *)
(* because the server has it or because saveFailedPublishedMessage has put *)
(* it back, send_previously_unsent_data sends the oldest record first, and *)
(* whatever happens in between, reboots and crashes too, changes nothing   *)
(* in what is held and stored.  The id of a message must not be that of an *)
(* answer still on its way: three ids are enough, MAX_PACKET_ID is 10000.  *)
THEOREM PromiseIsKept ==
    MainLoopOnly /\ MAX_PACKET_ID > 2 => (Spec => KeepsPromise)
<1> SUFFICES ASSUME MainLoopOnly, MAX_PACKET_ID > 2
             PROVE  Spec => KeepsPromise
  OBVIOUS
<1> DEFINE Inv == DriverInv /\ SentInv /\ FlightInv
<1>1. Init => Inv
  <2> SUFFICES ASSUME Init PROVE FlightInv
    BY InitDriver
  <2> QED
    BY DEF Init, FlightInv, Off
<1>2. Inv /\ [Next]_vars => Inv'
  BY NextDriver, NextSent, NextFlight DEF DriverInv
<1>3. Inv /\ Inv' /\ [Next]_vars => Refines
  BY ExitRefines, StartRefines, PublishRefines, OtherStepsRefine
<1>4. Spec => [][Promised!PromiseNext]_(Promised!promiseVars)
  BY <1>1, <1>2, <1>3, PTL DEF Spec, Refines
<1> QED
  BY <1>4, InitPromised, PTL DEF Spec, KeepsPromise, Promised!Promise

-----------------------------------------------------------------------------
(* Losses, when packet handlers publish with guarantee as well.  Any       *)
(* number of answers may be on their way then.  None is taken for another  *)
(* message's because an id is used once on a connection: a record that is  *)
(* put back asks for a reboot, and is not sent again before it.            *)
FewerThanIds == IsFiniteSet(Msgs) /\ Cardinality(Msgs) < MAX_PACKET_ID

(* The ids used since initInstaMsg, and the messages that may still be     *)
(* published until the next.                                               *)
Used == IF nextPacketId = MAX_PACKET_ID THEN 0 ELSE nextPacketId

Unsent == (Msgs \ handed) \cup (IF rebootPending THEN {} ELSE ElementsOf(dataLog))

IdInv ==
    ~Off => /\ nextPacketId \in 1..MAX_PACKET_ID
            /\ Used + Cardinality(Unsent) <= Cardinality(Msgs)

(* No packet has an id that is still to be used; under the last id there   *)
(* is nothing but message m, and answers to it when it is in d.            *)
RequestOK(p, n, m, d) ==
    /\ p.type \in {"PUBLISH", "PUBREL"} => p.id <= n
    /\ p.type = "PUBLISH" /\ p.id = n => m = NoMsg \/ m = p.msg
    /\ p.type = "PUBREL" /\ p.id = n => m = NoMsg \/ m \in d

AnswerOK(p, n, m, d) ==
    p.type \in {"PUBACK", "PUBREC", "PUBCOMP"} =>
      p.id <= n /\ (p.id = n => m = NoMsg \/ m \in d)

TrafficInv ==
    ~Off =>
      /\ lastPub # NoMsg => pubAckMsgId = Used
      /\ \A i \in DOMAIN toServer : RequestOK(toServer[i], Used, lastPub, delivered)
      /\ \A i \in DOMAIN toClient : AnswerOK(toClient[i], Used, lastPub, delivered)

(* A message is held as long as it is waited for; the log is not too long. *)
KeepInv ==
    /\ lastPub # NoMsg => waitingForPuback = "WAITING_FOR_PUBACK" /\ pc # "down"
    /\ Len(dataLog) <= MAX_DATA_RECORDS

(* The publishes: of a new message, or of the oldest record.               *)
Publishes(m, log) ==
    /\ \E qos \in {1, 2}, isNull \in BOOLEAN : Publish(m, qos, isNull, log)
    /\ m \in Msgs
    /\ \/ log = dataLog /\ m \notin handed
       \/ /\ calls = <<>> /\ ~rebootPending /\ dataLog # <<>>
          /\ m = Head(dataLog) /\ log = Tail(dataLog)

LEMMA SaveDrops ==
    ASSUME NEW S, NEW log \in Seq(S), NEW m \in S
    PROVE  /\ m \in ElementsOf(SaveRecord(log, m))
           /\ \A e \in ElementsOf(log) :
                \/ e \in ElementsOf(SaveRecord(log, m))
                \/ Len(log) >= MAX_DATA_RECORDS /\ e = Head(log)
           /\ Len(log) <= MAX_DATA_RECORDS => Len(SaveRecord(log, m)) <= MAX_DATA_RECORDS
<1> DEFINE kept == IF Len(log) < MAX_DATA_RECORDS THEN log ELSE Tail(log)
           r == Append(kept, m)
<1>1. /\ kept \in Seq(S)
      /\ Len(log) <= MAX_DATA_RECORDS => Len(kept) + 1 <= MAX_DATA_RECORDS
      /\ \A e \in ElementsOf(log) : \/ e \in ElementsOf(kept)
                                    \/ Len(log) >= MAX_DATA_RECORDS /\ e = Head(log)
  <2>1. CASE Len(log) < MAX_DATA_RECORDS
    BY <2>1
  <2>2. CASE ~(Len(log) < MAX_DATA_RECORDS)
    <3>1. log # <<>> /\ kept = Tail(log) /\ Len(log) >= MAX_DATA_RECORDS
      BY <2>2
    <3> HIDE DEF kept
    <3>2. /\ kept \in Seq(S) /\ Len(kept) = Len(log) - 1
          /\ \A i \in DOMAIN log : i = 1 \/ (i - 1 \in DOMAIN kept /\ kept[i - 1] = log[i])
          /\ Head(log) = log[1]
      BY <3>1
    <3>3. \A e \in ElementsOf(log) : e \in ElementsOf(kept) \/ e = Head(log)
      BY <3>2 DEF ElementsOf
    <3> QED
      BY <3>1, <3>2, <3>3
  <2> QED
    BY <2>1, <2>2
<1> HIDE DEF kept
<1>2. /\ Len(r) = Len(kept) + 1 /\ m = r[Len(kept) + 1] /\ Len(kept) + 1 \in DOMAIN r
      /\ \A i \in DOMAIN kept : i \in DOMAIN r /\ r[i] = kept[i]
  BY <1>1
<1> HIDE DEF r
<1>3. m \in ElementsOf(r) /\ \A e \in ElementsOf(kept) : e \in ElementsOf(r)
  BY <1>2 DEF ElementsOf
<1>4. SaveRecord(log, m) = r
  BY DEF SaveRecord, r, kept
<1> QED
  BY <1>1, <1>2, <1>3, <1>4

(* A process that has not got to initInstaMsg stays there until it does.   *)
LEMMA NextOff ==
    ASSUME LoopInv, [Next]_vars, Off, ~InitInstaMsg
    PROVE  Off' /\ (Exit \/ UNCHANGED nextPacketId)
<1>1. ~reading /\ pc \in {"down", "init"}
  BY Zenon DEF LoopInv, Off
<1>2. ~ReadEnds
  BY <1>1, Zenon
     DEF ReadEnds, CompulsoryReadEnds, PubAckCycle, PubAckTimeout, PubAckWaitEnds,
         PingWaitEnds, ConnectionWaitCycle, MainReadEnds, ReadPacketFails
<1>3. ~ReceivePacket
  BY <1>1, Zenon
     DEF ReceivePacket, ReceiveAck, ReceivePubrec, ReceiveConnack, ReceiveCommand,
         Arrives
<1>4. ~Client
  BY <1>1, <1>2, <1>3, TimedPlace
     DEF Client, EnterLoop, ResendRecord, NothingToResend, AfterResend,
         RemoveExpiredResultHandlers, RunBusinessLogic, SkipBusinessLogic,
         SendFirstGpsLocation, AfterBusinessLogic, EndOfLoop, At
<1>5. Environment \/ UNCHANGED vars => pc' = "down" \/ pc' = pc
  BY Zenon DEF Environment, ServerAnswers, ServerCommands, Crash, Stabilise, Exit, vars
<1>6. Environment \/ UNCHANGED vars => Exit \/ UNCHANGED nextPacketId
  BY Zenon
     DEF Environment, ServerAnswers, ServerCommands, Crash, Stabilise, tableVars, vars
<1> QED
  BY <1>1, <1>4, <1>5, <1>6, Zenon DEF Next, Off

LEMMA PublishingSteps ==
    ASSUME TypeOK, LoopInv, CommandsInv, OwnedInv, ~HeapMayFail
    PROVE  /\ (\E m \in AppMsgs \ handed : Publish(m, 1, FALSE, dataLog)) =>
                \E m, log : Publishes(m, log)
           /\ /\ ReceiveCommand
              /\ \E qos \in {1, 2} : Publish(Head(toClient).msg, qos, TRUE, dataLog)
              /\ Head(toClient).kind \in {"file1", "file2"}
              => \E m, log : Publishes(m, log)
           /\ ResendRecord => \E m, log : Publishes(m, log)
<1>1. ASSUME NEW m \in AppMsgs \ handed, Publish(m, 1, FALSE, dataLog)
      PROVE  Publishes(m, dataLog)
  BY <1>1 DEF Publishes, Msgs
<1>2. ASSUME ReceiveCommand, Head(toClient).kind \in {"file1", "file2"},
             \E qos \in {1, 2} : Publish(Head(toClient).msg, qos, TRUE, dataLog)
      PROVE  Publishes(Head(toClient).msg, dataLog)
  <2>1. toClient # <<>> /\ Head(toClient).type = "COMMAND"
    BY <1>2, Zenon DEF ReceiveCommand, Arrives
  <2>2. CommandOK(Head(toClient), handed)
    BY <2>1, CommandsTail DEF CommandsInv, TypeOK, NetType
  <2>3. Head(toClient).msg \in Msgs /\ Head(toClient).msg \notin handed
    BY <1>2, <2>2 DEF CommandOK, Msgs
  <2> QED
    BY <1>2, <2>3 DEF Publishes
<1>3. ASSUME ResendRecord PROVE Publishes(Head(dataLog), Tail(dataLog))
  <2>1. /\ dataLog # <<>> /\ ~reading /\ ~rebootPending
        /\ Publish(Head(dataLog), 1, FALSE, Tail(dataLog))
    BY <1>3, Zenon DEF ResendRecord, At, MayResend
  <2>2. calls = <<>>
    BY <2>1 DEF LoopInv
  <2>3. Head(dataLog) \in Msgs
    <3>1. dataLog \in Seq(Msgs \cup {NoMsg}) /\ Head(dataLog) = dataLog[1]
          /\ 1 \in DOMAIN dataLog /\ dataLog[1] \in Msgs \cup {NoMsg}
      BY <2>1, TailIs DEF TypeOK, MessageType
    <3> QED
      BY <3>1 DEF OwnedInv, ElementsOf
  <2> QED
    BY <2>1, <2>2, <2>3 DEF Publishes
<1> QED
  BY <1>1, <1>2, <1>3, Zenon

(* The steps of a running process, as its messages see them.               *)
LEMMA KeepingSteps ==
    ASSUME TypeOK, LoopInv, CommandsInv, OwnedInv, ~HeapMayFail, [Next]_vars,
           ~Exit, ~InitInstaMsg
    PROVE  \/ \E m, log : Publishes(m, log)
           \/ /\ UNCHANGED <<handed, pubAckMsgId>>
              /\ \/ UNCHANGED <<dataLog, lastPub, waitingForPuback>>
                 \/ /\ dataLog' = dataLog /\ lastPub' = NoMsg
                    /\ reading /\ toClient # <<>>
                    /\ Head(toClient).type \in {"PUBACK", "PUBREC", "PUBCOMP"}
                    /\ Head(toClient).id = pubAckMsgId
                 \/ /\ dataLog' = SaveRecord(dataLog, lastPub) /\ lastPub' = NoMsg
                    /\ rebootPending' = TRUE
<1>1. toClient \in Seq(ToClient)
  BY DEF TypeOK, NetType
<1>2. CASE Quietly
  BY <1>2, Zenon DEF Quietly, ackVars
<1>3. CASE (CompulsoryReadEnds /\ Top.qos # 0) \/ PubAckCycle \/ PubAckWaitEnds
  BY <1>3, Zenon
     DEF CompulsoryReadEnds, PubAckCycle, PubAckWaitEnds, ReadPacketFails, ackVars
<1>4. CASE PubAckTimeout
  BY <1>4, Zenon DEF PubAckTimeout, ReadPacketFails, SaveFailedPublishedMessage
<1>5. CASE ReceiveAck \/ ReceivePubrec
  <2>1. /\ reading /\ toClient # <<>> /\ UNCHANGED <<handed, pubAckMsgId, dataLog>>
        /\ \/ Head(toClient).type = "PUBACK" \/ Head(toClient).type = "PUBREC"
           \/ Head(toClient).type = "PUBCOMP"
        /\ \/ UNCHANGED <<lastPub, waitingForPuback>>
           \/ lastPub' = NoMsg /\ Head(toClient).id = pubAckMsgId
    BY <1>5, Zenon
       DEF ReceiveAck, ReceivePubrec, Arrives, FireResultHandler, StopWaiting
  <2> QED
    BY <2>1
<1> QED
  BY <1>2, <1>3, <1>4, <1>5, PublishingSteps, Steps, Zenon

(* And as the packets see them.                                            *)
LEMMA TrafficSteps ==
    ASSUME TypeOK, LoopInv, CommandsInv, OwnedInv, ~HeapMayFail, [Next]_vars,
           ~Exit, ~InitInstaMsg
    PROVE  \/ ServerAnswers
           \/ /\ UNCHANGED delivered
              /\ \/ UNCHANGED toClient
                 \/ toClient # <<>> /\ toClient' = Tail(toClient)
                 \/ \E kind, m : toClient' = Append(toClient, Command(kind, m))
              /\ \/ \E m, log : Publishes(m, log)
                 \/ /\ UNCHANGED nextPacketId /\ (~rebootPending' => ~rebootPending)
                    /\ \/ UNCHANGED toServer
                       \/ /\ toClient # <<>> /\ Head(toClient).type = "PUBREC"
                          /\ toServer' =
                               Append(toServer, Ack("PUBREL", Head(toClient).id))
<1> DEFINE Publishing == \E m, log : Publishes(m, log)
           Still == /\ UNCHANGED nextPacketId /\ (~rebootPending' => ~rebootPending)
                    /\ UNCHANGED toServer
<1>1. CASE ReadEnds
  <2>1. ReadPacketFails
    BY <1>1, Zenon
       DEF ReadEnds, CompulsoryReadEnds, PubAckCycle, PubAckTimeout,
           PubAckWaitEnds, PingWaitEnds, ConnectionWaitCycle, MainReadEnds
  <2>2. ~rebootPending' => ~rebootPending
    BY <1>1, Zenon
       DEF ReadEnds, CompulsoryReadEnds, PubAckCycle, PubAckTimeout,
           PubAckWaitEnds, PingWaitEnds, ConnectionWaitCycle, MainReadEnds,
           SaveFailedPublishedMessage, retryVars
  <2>3. UNCHANGED <<toServer, toClient, delivered, nextPacketId>>
    BY <2>1, Zenon DEF ReadPacketFails, netVars, serverVars, tableVars
  <2> QED
    BY <2>2, <2>3, Zenon
<1>2. CASE ReceiveAck
  BY <1>2, Zenon DEF ReceiveAck, Arrives, serverVars, retryVars
<1>3. CASE ReceivePubrec
  BY <1>3, Zenon DEF ReceivePubrec, Arrives, serverVars, retryVars
<1>4. CASE ReceiveConnack
  BY <1>4, Zenon DEF ReceiveConnack, Arrives, serverVars, tableVars
<1>5. UNCHANGED <<tableVars, rebootPending, toServer>> => Still
  BY DEF tableVars
<1> HIDE DEF Still
<1>6. /\ PublishPlain \/ Ping => Still
      /\ ApplicationPublishes => Publishing \/ Still
  <2>1. PublishPlain \/ Ping => Still
    BY <1>5, Zenon DEF PublishPlain, Ping
  <2>2. ApplicationPublishes => Publishing \/ Still
    BY <1>5, PublishingSteps, Zenon DEF ApplicationPublishes
  <2> QED
    BY <2>1, <2>2
<1>7. CASE ReceiveCommand
  <2>1. toClient # <<>> /\ toClient' = Tail(toClient) /\ UNCHANGED delivered
    BY <1>7, Zenon DEF ReceiveCommand, Arrives, serverVars
  <2>2. \/ PublishPlain \/ ApplicationPublishes
        \/ /\ Head(toClient).kind \in {"file1", "file2"}
           /\ \E qos \in {1, 2} : Publish(Head(toClient).msg, qos, TRUE, dataLog)
    BY <1>7 DEF ReceiveCommand
  <2>3. Publishing \/ Still
    BY <1>6, <1>7, <2>2, PublishingSteps, Zenon
  <2> QED
    BY <2>1, <2>3, Zenon DEF Still
<1>8. CASE EnterLoop \/ NothingToResend \/ AfterResend \/ SkipBusinessLogic
           \/ RemoveExpiredResultHandlers
  BY <1>8, Zenon
     DEF EnterLoop, NothingToResend, AfterResend, SkipBusinessLogic,
         RemoveExpiredResultHandlers, netVars, serverVars, tableVars, retryVars
<1>9. CASE TimedPublishes \/ SendFirstGpsLocation
  <2>1. UNCHANGED <<toClient, delivered>>
    BY <1>9, Zenon DEF TimedPublishes, SendFirstGpsLocation, serverVars
  <2>2. Still
    BY <1>5, <1>6, <1>9, Zenon DEF TimedPublishes, SendFirstGpsLocation
  <2> QED
    BY <2>1, <2>2, Zenon DEF Still
<1>10. CASE AfterBusinessLogic \/ EndOfLoop
  BY <1>10, Zenon
     DEF AfterBusinessLogic, EndOfLoop, ClearInstaMsg, netVars, serverVars,
         tableVars, retryVars
<1>11. CASE RunBusinessLogic
  <2>1. UNCHANGED <<toClient, delivered>> /\ (Publishing \/ Still)
    BY <1>6, <1>11, Zenon DEF RunBusinessLogic, serverVars
  <2> QED
    BY <2>1, Zenon DEF Still
<1>12. CASE ResendRecord
  <2>1. UNCHANGED <<toClient, delivered>> /\ Publishing
    BY <1>12, PublishingSteps, Zenon DEF ResendRecord, serverVars
  <2> QED
    BY <2>1, Zenon
<1>13. CASE ServerCommands
  BY <1>13, Zenon DEF ServerCommands, serverVars, tableVars, retryVars
<1>14. CASE Crash \/ Stabilise \/ UNCHANGED vars
  BY <1>14, Zenon DEF Crash, Stabilise, vars, netVars, serverVars, tableVars, retryVars
<1> QED
  BY <1>1, <1>2, <1>3, <1>4, <1>7, <1>8, <1>9, <1>10, <1>11, <1>12, <1>13, <1>14, Zenon
     DEF Next, Client, Environment, ReceivePacket

LEMMA PublishIs ==
    ASSUME TypeOK, ~HeapMayFail, MAX_PACKET_ID > 1, NEW m, NEW log, Publishes(m, log)
    PROVE  /\ nextPacketId' = NextPacketId /\ nextPacketId' # nextPacketId
           /\ pubAckMsgId' = NextPacketId /\ handed' = handed \cup {m}
           /\ \/ /\ \E qos : toServer' = Append(toServer, Message(m, NextPacketId, qos))
                 /\ waitingForPuback' = "WAITING_FOR_PUBACK" /\ lastPub' = m
                 /\ dataLog' = log /\ UNCHANGED rebootPending
              \/ /\ UNCHANGED toServer /\ rebootPending' = TRUE
                 /\ dataLog' = SaveRecord(log, m) /\ lastPub' = NoMsg
<1>1. PICK qos \in {1, 2}, isNull \in BOOLEAN : Publish(m, qos, isNull, log)
  BY DEF Publishes
<1>2. NextPacketId # nextPacketId
  BY DEF NextPacketId, TypeOK, AckType
<1> QED
  BY <1>1, <1>2, Zenon DEF Publish, SaveFailedPublishedMessage

(* Each id is used once.                                                   *)
LEMMA FewerUnsent ==
    ASSUME FewerThanIds, NEW S \in SUBSET Msgs, NEW T \in SUBSET S
    PROVE  /\ Cardinality(S) \in Nat /\ Cardinality(T) \in Nat /\ Cardinality(Msgs) \in Nat
           /\ Cardinality(T) <= Cardinality(S) /\ Cardinality(S) <= Cardinality(Msgs)
           /\ \A m \in S : m \notin T => Cardinality(T) + 1 <= Cardinality(S)
<1>1. IsFiniteSet(Msgs) /\ IsFiniteSet(S) /\ Cardinality(S) <= Cardinality(Msgs)
  BY FS_Subset DEF FewerThanIds
<1>2. IsFiniteSet(T) /\ Cardinality(T) <= Cardinality(S)
  BY <1>1, FS_Subset
<1>3. /\ Cardinality(S) \in Nat /\ Cardinality(T) \in Nat /\ Cardinality(Msgs) \in Nat
  BY <1>1, <1>2, FS_CardinalityType
<1>4. ASSUME NEW m \in S, m \notin T PROVE Cardinality(T) + 1 <= Cardinality(S)
  <2>1. IsFiniteSet(S \ {m}) /\ Cardinality(S \ {m}) = Cardinality(S) - 1
    BY <1>1, <1>4, FS_RemoveElement
  <2>2. T \in SUBSET (S \ {m})
    BY <1>4
  <2>3. Cardinality(T) <= Cardinality(S \ {m})
    BY <2>1, <2>2, FS_Subset
  <2> QED
    BY <1>3, <2>1, <2>3
<1> QED
  BY <1>1, <1>2, <1>3, <1>4

LEMMA ManyIds ==
    ASSUME FewerThanIds, NEW m \in Msgs
    PROVE  MAX_PACKET_ID > 1
<1>1. {} \in SUBSET Msgs /\ Msgs \in SUBSET Msgs
  OBVIOUS
<1>2. Cardinality({}) + 1 <= Cardinality(Msgs) /\ Cardinality(Msgs) \in Nat
  BY <1>1, FewerUnsent
<1> QED
  BY <1>2, FS_EmptySet DEF FewerThanIds

LEMMA UsedIs ==
    ASSUME FewerThanIds, TypeOK, ~Off, IdInv, Unsent \subseteq Msgs
    PROVE  /\ Used \in Nat /\ MAX_PACKET_ID \in Nat
           /\ \A m \in Unsent : /\ NextPacketId = Used + 1
                                /\ NextPacketId < MAX_PACKET_ID
                                /\ MAX_PACKET_ID > 1
<1>1. nextPacketId \in 1..MAX_PACKET_ID /\ Used + Cardinality(Unsent) <= Cardinality(Msgs)
  BY DEF IdInv
<1>2. MAX_PACKET_ID \in Nat /\ Used \in Nat
  BY <1>1 DEF Used
<1>3. /\ Cardinality(Unsent) \in Nat /\ Cardinality(Msgs) \in Nat
      /\ Cardinality(Msgs) < MAX_PACKET_ID
  BY FewerUnsent DEF FewerThanIds
<1>4. ASSUME NEW m \in Unsent
      PROVE  NextPacketId = Used + 1 /\ NextPacketId < MAX_PACKET_ID /\ MAX_PACKET_ID > 1
  <2>1. 1 <= Cardinality(Unsent)
    <3>1. {} \in SUBSET Unsent /\ Unsent \in SUBSET Msgs /\ m \notin {}
      OBVIOUS
    <3>2. Cardinality({}) + 1 <= Cardinality(Unsent)
      BY <3>1, FewerUnsent
    <3> QED
      BY <3>2, FS_EmptySet
  <2>2. Used + 1 < MAX_PACKET_ID
    BY <1>1, <1>2, <1>3, <2>1
  <2>3. NextPacketId = Used + 1
    BY <1>1, <1>2, <2>2 DEF NextPacketId, Used
  <2> QED
    BY <1>2, <2>2, <2>3
<1> QED
  BY <1>2, <1>4

LEMMA UnsentIs ==
    /\ TypeOK /\ OwnedInv => Unsent \subseteq Msgs
    /\ TypeOK' /\ OwnedInv' => Unsent' \subseteq Msgs
<1>1. ASSUME TypeOK, OwnedInv PROVE Unsent \subseteq Msgs
  <2>1. \A e \in ElementsOf(dataLog) : e \in Msgs \cup {NoMsg}
    BY <1>1 DEF TypeOK, MessageType, ElementsOf
  <2> QED
    BY <1>1, <2>1 DEF OwnedInv, Unsent
<1>2. ASSUME TypeOK', OwnedInv' PROVE Unsent' \subseteq Msgs
  <2>1. \A e \in ElementsOf(dataLog') : e \in Msgs \cup {NoMsg}
    BY <1>2 DEF TypeOK, MessageType, ElementsOf
  <2>2. NoMsg \notin ElementsOf(dataLog')
    BY <1>2 DEF OwnedInv, ElementsOf
  <2> QED
    BY <2>1, <2>2 DEF Unsent, ElementsOf
<1> QED
  BY <1>1, <1>2

(* What publish() takes is then no longer to be sent.                      *)
LEMMA PublishSpends ==
    ASSUME TypeOK, CustodyInv, OwnedInv, ~HeapMayFail, MAX_PACKET_ID > 1,
           NEW m, NEW log, Publishes(m, log)
    PROVE  m \in Unsent /\ m \notin Unsent' /\ Unsent' \subseteq Unsent
<1>1. /\ m \in Msgs /\ NoMsg \notin ElementsOf(dataLog)
      /\ \/ log = dataLog /\ m \notin handed
         \/ /\ ~rebootPending /\ dataLog # <<>> /\ m = Head(dataLog) /\ log = Tail(dataLog)
  BY DEF Publishes, OwnedInv
<1>2. dataLog \in Seq(Msgs \cup {NoMsg}) /\ Unique(dataLog)
      /\ ElementsOf(dataLog) \subseteq handed \cup {NoMsg}
  BY DEF TypeOK, MessageType, CustodyInv, CustodyOK
<1>3. /\ ElementsOf(log) \subseteq ElementsOf(dataLog) /\ m \notin ElementsOf(log)
      /\ m \in handed => ~rebootPending /\ m \in ElementsOf(dataLog)
  <2>1. CASE log = dataLog /\ m \notin handed
    BY <1>1, <1>2, <2>1
  <2>2. CASE ~rebootPending /\ dataLog # <<>> /\ m = Head(dataLog) /\ log = Tail(dataLog)
    <3>1. /\ ElementsOf(Tail(dataLog)) \subseteq ElementsOf(dataLog)
          /\ Head(dataLog) \in ElementsOf(dataLog)
          /\ Head(dataLog) \notin ElementsOf(Tail(dataLog)) \/ Head(dataLog) = NoMsg
      BY <1>2, <2>2, TailCustody
    <3> QED
      BY <1>1, <2>2, <3>1
  <2> QED
    BY <1>1, <2>1, <2>2
<1>4. m \in Unsent
  BY <1>1, <1>3 DEF Unsent
<1>5. handed' = handed \cup {m}
      /\ (rebootPending' = TRUE \/ (dataLog' = log /\ UNCHANGED rebootPending))
  BY PublishIs
<1>6. Unsent' = (Msgs \ handed')
                  \cup (IF rebootPending' THEN {} ELSE ElementsOf(dataLog'))
  BY DEF Unsent, ElementsOf
<1>7. Unsent' \subseteq (Msgs \ (handed \cup {m}))
                  \cup (IF rebootPending THEN {} ELSE ElementsOf(log))
  <2>1. CASE rebootPending' = TRUE
    BY <1>5, <1>6, <2>1
  <2>2. CASE dataLog' = log /\ UNCHANGED rebootPending
    BY <1>5, <1>6, <2>2
  <2> QED
    BY <1>5, <2>1, <2>2
<1>8. m \notin Unsent'
  BY <1>3, <1>7
<1>9. Unsent' \subseteq Unsent
  BY <1>3, <1>7 DEF Unsent
<1> QED
  BY <1>4, <1>8, <1>9

LEMMA NextIds ==
    ASSUME FewerThanIds, ~HeapMayFail, TypeOK, TypeOK', LoopInv, CommandsInv, CustodyInv,
           OwnedInv, OwnedInv', IdInv, [Next]_vars
    PROVE  IdInv'
<1>1. Unsent \subseteq Msgs /\ Unsent' \subseteq Msgs
  BY UnsentIs
<1>2. CASE Off'
  BY <1>2 DEF IdInv
<1>3. CASE Exit
  <2>1. pc' = "down"
    BY <1>3, Zenon DEF Exit
  <2> QED
    BY <1>2, <2>1 DEF Off
<1>4. CASE InitInstaMsg
  <2>1. nextPacketId' = MAX_PACKET_ID
    BY <1>4, Zenon DEF InitInstaMsg
  <2>2. Used' = 0 /\ nextPacketId' \in 1..MAX_PACKET_ID
    BY <2>1 DEF Used
  <2>3. Cardinality(Unsent') \in Nat /\ Cardinality(Unsent') <= Cardinality(Msgs)
    BY <1>1, FewerUnsent
  <2> QED
    BY <2>2, <2>3 DEF IdInv
<1> SUFFICES ASSUME ~Off', ~Exit, ~InitInstaMsg PROVE IdInv'
  BY <1>2, <1>3, <1>4
<1>5. ~Off
  BY NextOff
<1>6. /\ Used \in Nat /\ MAX_PACKET_ID \in Nat
      /\ nextPacketId \in 1..MAX_PACKET_ID
      /\ Used + Cardinality(Unsent) <= Cardinality(Msgs)
      /\ \A m \in Unsent : /\ NextPacketId = Used + 1
                           /\ NextPacketId < MAX_PACKET_ID
                           /\ MAX_PACKET_ID > 1
  BY <1>1, <1>5, UsedIs DEF IdInv
<1>7. ASSUME NEW m, NEW log, Publishes(m, log) PROVE IdInv'
  <2>1. MAX_PACKET_ID > 1
    BY <1>7, ManyIds DEF Publishes
  <2>2. m \in Unsent /\ m \notin Unsent' /\ Unsent' \subseteq Unsent
    BY <1>7, <2>1, PublishSpends
  <2>3. /\ Cardinality(Unsent') + 1 <= Cardinality(Unsent)
        /\ Cardinality(Unsent') \in Nat /\ Cardinality(Unsent) \in Nat
        /\ Cardinality(Msgs) \in Nat
    BY <1>1, <2>2, FewerUnsent
  <2>4. nextPacketId' = Used + 1 /\ nextPacketId' < MAX_PACKET_ID
    BY <1>6, <1>7, <2>1, <2>2, PublishIs
  <2>5. Used' = Used + 1
    BY <1>6, <2>4 DEF Used
  <2>6. nextPacketId' \in 1..MAX_PACKET_ID
    BY <1>6, <2>4
  <2>7. Used' + Cardinality(Unsent') <= Cardinality(Msgs)
    BY <1>6, <2>3, <2>5
  <2> QED
    BY <2>6, <2>7 DEF IdInv
<1>8. CASE ~ \E m, log : Publishes(m, log)
  <2>1. UNCHANGED nextPacketId /\ (~rebootPending' => ~rebootPending)
    <3>1. ServerAnswers => UNCHANGED <<nextPacketId, rebootPending>>
      BY Zenon DEF ServerAnswers, tableVars, retryVars
    <3> QED
      BY <1>8, <3>1, TrafficSteps
  <2>2. handed' = handed /\ (dataLog' = dataLog \/ rebootPending' = TRUE)
    BY <1>8, KeepingSteps
  <2>3. Unsent' = (Msgs \ handed')
                    \cup (IF rebootPending' THEN {} ELSE ElementsOf(dataLog'))
    BY DEF Unsent, ElementsOf
  <2>4. Unsent' \subseteq Unsent
    BY <2>1, <2>2, <2>3 DEF Unsent
  <2>5. /\ Cardinality(Unsent') <= Cardinality(Unsent)
        /\ Cardinality(Unsent') \in Nat /\ Cardinality(Unsent) \in Nat
        /\ Cardinality(Msgs) \in Nat
    BY <1>1, <2>4, FewerUnsent
  <2>6. Used' = Used
    BY <2>1 DEF Used
  <2> QED
    BY <1>6, <2>1, <2>5, <2>6 DEF IdInv
<1> QED
  BY <1>7, <1>8

RequestsOK(s, n, m, d) == \A i \in DOMAIN s : RequestOK(s[i], n, m, d)

AnswersOK(c, n, m, d) == \A i \in DOMAIN c : AnswerOK(c[i], n, m, d)

LEMMA TrafficIs ==
    TrafficInv <=>
      (~Off => /\ lastPub # NoMsg => pubAckMsgId = Used
               /\ RequestsOK(toServer, Used, lastPub, delivered)
               /\ AnswersOK(toClient, Used, lastPub, delivered))
BY DEF TrafficInv, RequestsOK, AnswersOK

(* A packet may grow old: the message is forgotten, or the next is sent.   *)
LEMMA PacketsAge ==
    ASSUME NEW n \in Nat, NEW m, NEW d, NEW e, d \subseteq e
    PROVE  /\ \A s : RequestsOK(s, n, m, d) =>
                RequestsOK(s, n, m, e) /\ RequestsOK(s, n, NoMsg, e)
           /\ \A c : AnswersOK(c, n, m, d) =>
                AnswersOK(c, n, m, e) /\ AnswersOK(c, n, NoMsg, e)
           /\ \A s \in Seq(ToServer) : \A k : RequestsOK(s, n, m, d) =>
                RequestsOK(s, n + 1, k, e)
           /\ \A c \in Seq(ToClient) : \A k : AnswersOK(c, n, m, d) =>
                AnswersOK(c, n + 1, k, e)
<1>1. \A p : RequestOK(p, n, m, d) => RequestOK(p, n, m, e) /\ RequestOK(p, n, NoMsg, e)
  BY DEF RequestOK
<1>2. \A p : AnswerOK(p, n, m, d) => AnswerOK(p, n, m, e) /\ AnswerOK(p, n, NoMsg, e)
  BY DEF AnswerOK
<1>3. ASSUME NEW p \in ToServer, NEW k, RequestOK(p, n, m, d)
      PROVE  RequestOK(p, n + 1, k, e)
  <2>1. p.type \in {"PUBLISH", "PUBREL"} => p.id \in Nat /\ p.id <= n
    BY <1>3 DEF RequestOK, ToServer, Connect
  <2>2. p.type \in {"PUBLISH", "PUBREL"} => p.id <= n + 1 /\ p.id # n + 1
    BY <2>1
  <2> QED
    BY <2>2 DEF RequestOK
<1>4. ASSUME NEW p \in ToClient, NEW k, AnswerOK(p, n, m, d)
      PROVE  AnswerOK(p, n + 1, k, e)
  <2>1. p.type \in {"PUBACK", "PUBREC", "PUBCOMP"} => p.id \in Nat /\ p.id <= n
    BY <1>4 DEF AnswerOK, ToClient
  <2>2. p.type \in {"PUBACK", "PUBREC", "PUBCOMP"} => p.id <= n + 1 /\ p.id # n + 1
    BY <2>1
  <2> QED
    BY <2>2 DEF AnswerOK
<1>5. /\ \A s \in Seq(ToServer) : \A i \in DOMAIN s : s[i] \in ToServer
      /\ \A c \in Seq(ToClient) : \A i \in DOMAIN c : c[i] \in ToClient
  OBVIOUS
<1> QED
  BY <1>1, <1>2, <1>3, <1>4, <1>5, Zenon DEF RequestsOK, AnswersOK

LEMMA PacketsMove ==
    ASSUME NEW s \in Seq(ToServer), NEW c \in Seq(ToClient), NEW n, NEW m, NEW d
    PROVE  /\ RequestsOK(s, n, m, d) /\ s # <<>> =>
                RequestsOK(Tail(s), n, m, d) /\ RequestOK(Head(s), n, m, d)
           /\ AnswersOK(c, n, m, d) /\ c # <<>> =>
                AnswersOK(Tail(c), n, m, d) /\ AnswerOK(Head(c), n, m, d)
           /\ \A p \in ToServer : RequestsOK(s, n, m, d) /\ RequestOK(p, n, m, d) =>
                RequestsOK(Append(s, p), n, m, d)
           /\ \A p \in ToClient : AnswersOK(c, n, m, d) /\ AnswerOK(p, n, m, d) =>
                AnswersOK(Append(c, p), n, m, d)
<1>1. ASSUME s # <<>>, RequestsOK(s, n, m, d)
      PROVE  RequestsOK(Tail(s), n, m, d) /\ RequestOK(Head(s), n, m, d)
  <2>1. /\ \A i \in DOMAIN Tail(s) : i + 1 \in DOMAIN s /\ Tail(s)[i] = s[i + 1]
        /\ Head(s) = s[1] /\ 1 \in DOMAIN s
    BY <1>1, TailIs
  <2> QED
    BY <1>1, <2>1, Zenon DEF RequestsOK
<1>2. ASSUME c # <<>>, AnswersOK(c, n, m, d)
      PROVE  AnswersOK(Tail(c), n, m, d) /\ AnswerOK(Head(c), n, m, d)
  <2>1. /\ \A i \in DOMAIN Tail(c) : i + 1 \in DOMAIN c /\ Tail(c)[i] = c[i + 1]
        /\ Head(c) = c[1] /\ 1 \in DOMAIN c
    BY <1>2, TailIs
  <2> QED
    BY <1>2, <2>1, Zenon DEF AnswersOK
<1>3. ASSUME NEW p \in ToServer, RequestsOK(s, n, m, d), RequestOK(p, n, m, d)
      PROVE  RequestsOK(Append(s, p), n, m, d)
  <2>1. \A i \in DOMAIN Append(s, p) :
          \/ i \in DOMAIN s /\ Append(s, p)[i] = s[i]
          \/ Append(s, p)[i] = p
    BY CallBegins, SMT
  <2> QED
    BY <1>3, <2>1, Zenon DEF RequestsOK
<1>4. ASSUME NEW p \in ToClient, AnswersOK(c, n, m, d), AnswerOK(p, n, m, d)
      PROVE  AnswersOK(Append(c, p), n, m, d)
  <2>1. \A i \in DOMAIN Append(c, p) :
          \/ i \in DOMAIN c /\ Append(c, p)[i] = c[i]
          \/ Append(c, p)[i] = p
    BY CallBegins, SMT
  <2> QED
    BY <1>4, <2>1, Zenon DEF AnswersOK
<1> QED
  BY <1>1, <1>2, <1>3, <1>4, Zenon

(* The server takes the first packet, and answers it.                      *)
LEMMA AnswersStay ==
    ASSUME TypeOK, ~Off, TrafficInv, ServerAnswers
    PROVE  TrafficInv'
<1>1. /\ toServer \in Seq(ToServer) /\ toClient \in Seq(ToClient) /\ toServer # <<>>
      /\ RequestsOK(toServer, Used, lastPub, delivered)
      /\ AnswersOK(toClient, Used, lastPub, delivered)
      /\ lastPub # NoMsg => pubAckMsgId = Used
  <2>1. toServer \in Seq(ToServer) /\ toClient \in Seq(ToClient)
    BY DEF TypeOK, NetType
  <2>2. toServer # <<>>
    BY Zenon DEF ServerAnswers
  <2> QED
    BY <2>1, <2>2, TrafficIs
<1>2. /\ toServer' = Tail(toServer)
      /\ UNCHANGED <<pc, nextPacketId, lastPub, pubAckMsgId>>
  BY Zenon DEF ServerAnswers, tableVars, ackVars
<1>3. Used' = Used /\ ~Off'
  BY <1>2 DEF Used, Off
<1> DEFINE p == Head(toServer)
<1>4. p \in ToServer /\ Tail(toServer) \in Seq(ToServer)
  BY <1>1
<1>5. /\ RequestsOK(Tail(toServer), Used, lastPub, delivered)
      /\ RequestOK(p, Used, lastPub, delivered)
  BY <1>1, PacketsMove
<1> HIDE DEF p
<1>6. Used \in Nat
  BY DEF Used, TypeOK, AckType
<1>7. \A q : Reply(q) => toClient' = Append(toClient, q)
  BY Zenon DEF Reply, Off
<1>8. /\ delivered \subseteq delivered'
      /\ \E q \in ToClient : /\ toClient' = Append(toClient, q)
                             /\ AnswerOK(q, Used, lastPub, delivered')
  <2>1. CASE /\ p.type = "CONNECT" /\ UNCHANGED delivered
             /\ Reply(Connack("accepted")) \/ Reply(Connack("refused"))
    <3>1. PICK rc \in {"accepted", "refused"} : toClient' = Append(toClient, Connack(rc))
      BY <1>7, <2>1
    <3>2. Connack(rc) \in ToClient /\ Connack(rc).type = "CONNACK"
      BY DEF Connack, ToClient
    <3> QED
      BY <2>1, <3>1, <3>2 DEF AnswerOK
  <2>2. CASE /\ p.type = "PUBLISH" /\ delivered' = delivered \cup {p.msg}
             /\ Reply(Ack(IF p.qos = 1 THEN "PUBACK" ELSE "PUBREC", p.id))
    <3>1. PICK t \in {"PUBACK", "PUBREC"} : toClient' = Append(toClient, Ack(t, p.id))
      BY <1>7, <2>2
    <3>2. Ack(t, p.id) \in ToClient /\ Ack(t, p.id).id = p.id
      BY <1>4, <2>2 DEF Ack, ToClient, ToServer, Connect
    <3>3. p.id <= Used /\ (p.id = Used => lastPub = NoMsg \/ lastPub = p.msg)
      BY <1>5, <2>2 DEF RequestOK
    <3>4. AnswerOK(Ack(t, p.id), Used, lastPub, delivered')
      BY <2>2, <3>2, <3>3 DEF AnswerOK
    <3> QED
      BY <2>2, <3>1, <3>2, <3>4
  <2>3. CASE p.type = "PUBREL" /\ UNCHANGED delivered /\ Reply(Ack("PUBCOMP", p.id))
    <3>1. toClient' = Append(toClient, Ack("PUBCOMP", p.id))
      BY <1>7, <2>3
    <3>2. Ack("PUBCOMP", p.id) \in ToClient /\ Ack("PUBCOMP", p.id).id = p.id
      BY <1>4, <2>3 DEF Ack, ToClient, ToServer, Connect
    <3>3. p.id <= Used /\ (p.id = Used => lastPub = NoMsg \/ lastPub \in delivered)
      BY <1>5, <2>3 DEF RequestOK
    <3>4. AnswerOK(Ack("PUBCOMP", p.id), Used, lastPub, delivered')
      BY <2>3, <3>2, <3>3 DEF AnswerOK
    <3> QED
      BY <2>3, <3>1, <3>2, <3>4
  <2> QED
    BY <2>1, <2>2, <2>3, Zenon DEF ServerAnswers, p
<1>9. RequestsOK(toServer', Used, lastPub, delivered')
  BY <1>2, <1>5, <1>6, <1>8, PacketsAge
<1>10. AnswersOK(toClient', Used, lastPub, delivered')
  <2>1. AnswersOK(toClient, Used, lastPub, delivered')
    BY <1>1, <1>6, <1>8, PacketsAge
  <2> QED
    BY <1>1, <1>8, <2>1, PacketsMove
<1> QED
  BY <1>1, <1>2, <1>3, <1>9, <1>10 DEF TrafficInv, RequestsOK, AnswersOK

(* The steps of the client, and of the server's own commands.              *)
LEMMA CommandsAreNoAnswers ==
    ASSUME TypeOK, TypeOK', NEW n \in Nat, NEW m, NEW d,
           AnswersOK(toClient, n, m, d),
           \/ UNCHANGED toClient
           \/ toClient # <<>> /\ toClient' = Tail(toClient)
           \/ \E kind, k : toClient' = Append(toClient, Command(kind, k))
    PROVE  AnswersOK(toClient', n, m, d)
<1>1. toClient \in Seq(ToClient) /\ toClient' \in Seq(ToClient)
  BY DEF TypeOK, NetType
<1>2. ASSUME NEW kind, NEW k, toClient' = Append(toClient, Command(kind, k))
      PROVE  AnswersOK(toClient', n, m, d)
  <2>1. AnswerOK(Command(kind, k), n, m, d)
    BY DEF AnswerOK, Command
  <2>2. \A i \in DOMAIN toClient' : \/ i \in DOMAIN toClient /\ toClient'[i] = toClient[i]
                                    \/ toClient'[i] = Command(kind, k)
    BY <1>1, <1>2
  <2> QED
    BY <2>1, <2>2, Zenon DEF AnswersOK
<1>3. toClient # <<>> => AnswersOK(Tail(toClient), n, m, d)
  <2>1. \A s \in Seq(ToServer), c \in Seq(ToClient) :
          AnswersOK(c, n, m, d) /\ c # <<>> => AnswersOK(Tail(c), n, m, d)
    BY PacketsMove, Zenon
  <2>2. toServer \in Seq(ToServer)
    BY DEF TypeOK, NetType
  <2> QED
    BY <1>1, <2>1, <2>2
<1> QED
  BY <1>2, <1>3

LEMMA PublishKeepsTraffic ==
    ASSUME FewerThanIds, ~HeapMayFail, TypeOK, TypeOK', CustodyInv, OwnedInv,
           IdInv, TrafficInv, ~Off, UNCHANGED delivered,
           \/ UNCHANGED toClient
           \/ toClient # <<>> /\ toClient' = Tail(toClient)
           \/ \E kind, k : toClient' = Append(toClient, Command(kind, k)),
           NEW m, NEW log, Publishes(m, log)
    PROVE  TrafficInv'
<1>1. MAX_PACKET_ID > 1
  BY ManyIds DEF Publishes
<1>2. m \in Unsent
  BY <1>1, PublishSpends
<1>3. /\ Used \in Nat /\ NextPacketId = Used + 1 /\ NextPacketId < MAX_PACKET_ID
  BY <1>2, UnsentIs, UsedIs
<1>4. /\ nextPacketId' = NextPacketId /\ pubAckMsgId' = NextPacketId
      /\ lastPub' = m \/ lastPub' = NoMsg
      /\ \/ UNCHANGED toServer
         \/ \E qos : toServer' = Append(toServer, Message(m, NextPacketId, qos))
  BY <1>1, PublishIs
<1>5. Used' = Used + 1 /\ pubAckMsgId' = Used + 1
  BY <1>3, <1>4 DEF Used
<1>6. /\ toServer \in Seq(ToServer) /\ toClient \in Seq(ToClient)
      /\ toServer' \in Seq(ToServer)
      /\ RequestsOK(toServer, Used, lastPub, delivered)
      /\ AnswersOK(toClient, Used, lastPub, delivered)
  BY TrafficIs DEF TypeOK, NetType
<1>7. /\ RequestsOK(toServer, Used + 1, lastPub', delivered)
      /\ AnswersOK(toClient, Used + 1, lastPub', delivered)
  BY <1>3, <1>6, PacketsAge
<1>8. RequestsOK(toServer', Used + 1, lastPub', delivered)
  <2>1. CASE UNCHANGED toServer
    BY <1>7, <2>1
  <2>2. ASSUME NEW qos, toServer' = Append(toServer, Message(m, NextPacketId, qos))
        PROVE  RequestsOK(toServer', Used + 1, lastPub', delivered)
    <3>1. RequestOK(Message(m, Used + 1, qos), Used + 1, lastPub', delivered)
      BY <1>3, <1>4 DEF RequestOK, Message
    <3>2. \A i \in DOMAIN toServer' :
            \/ i \in DOMAIN toServer /\ toServer'[i] = toServer[i]
            \/ toServer'[i] = Message(m, Used + 1, qos)
      BY <1>3, <1>6, <2>2
    <3> QED
      BY <1>7, <3>1, <3>2, Zenon DEF RequestsOK
  <2> QED
    BY <1>4, <2>1, <2>2
<1>9. AnswersOK(toClient', Used + 1, lastPub', delivered)
  <2>1. Used + 1 \in Nat
    BY <1>3
  <2> QED
    BY <1>7, <2>1, CommandsAreNoAnswers
<1> QED
  BY <1>5, <1>8, <1>9 DEF TrafficInv, RequestsOK, AnswersOK

LEMMA NextTraffic ==
    ASSUME FewerThanIds, ~HeapMayFail, TypeOK, TypeOK', LoopInv, CommandsInv, CustodyInv,
           OwnedInv, IdInv, TrafficInv, KeepInv, [Next]_vars
    PROVE  TrafficInv'
<1>1. CASE Off'
  BY <1>1 DEF TrafficInv
<1>2. CASE Exit
  <2>1. pc' = "down"
    BY <1>2, Zenon DEF Exit
  <2> QED
    BY <1>1, <2>1 DEF Off
<1>3. CASE InitInstaMsg
  <2>1. /\ pc \in {"down", "init"} /\ nextPacketId' = MAX_PACKET_ID
        /\ toClient' = <<>> /\ (toServer' = <<Connect>> \/ toServer' = <<>>)
        /\ lastPub' = lastPub
    BY <1>3, Zenon DEF InitInstaMsg
  <2>2. calls = <<>>
    BY <2>1 DEF LoopInv
  <2>3. lastPub = NoMsg
    BY <2>2 DEF KeepInv, OwnedInv, Owned, GuaranteedIn
  <2>4. \A i \in DOMAIN toServer' : toServer'[i].type = "CONNECT"
    BY <2>1 DEF Connect
  <2>5. RequestsOK(toServer', Used', lastPub', delivered')
    BY <2>4 DEF RequestsOK, RequestOK
  <2>6. AnswersOK(toClient', Used', lastPub', delivered')
    BY <2>1 DEF AnswersOK
  <2> QED
    BY <2>1, <2>3, <2>5, <2>6 DEF TrafficInv, RequestsOK, AnswersOK
<1> SUFFICES ASSUME ~Off', ~Exit, ~InitInstaMsg PROVE TrafficInv'
  BY <1>1, <1>2, <1>3
<1>4. ~Off
  BY NextOff
<1>5. CASE ServerAnswers
  BY <1>4, <1>5, AnswersStay
<1>6. CASE ~ServerAnswers
  <2>1. /\ UNCHANGED delivered
        /\ \/ UNCHANGED toClient
           \/ toClient # <<>> /\ toClient' = Tail(toClient)
           \/ \E kind, m : toClient' = Append(toClient, Command(kind, m))
        /\ \/ \E m, log : Publishes(m, log)
           \/ /\ UNCHANGED nextPacketId
              /\ \/ UNCHANGED toServer
                 \/ /\ toClient # <<>> /\ Head(toClient).type = "PUBREC"
                    /\ toServer' = Append(toServer, Ack("PUBREL", Head(toClient).id))
    BY <1>6, TrafficSteps
  <2>2. ASSUME NEW m, NEW log, Publishes(m, log) PROVE TrafficInv'
    BY <1>4, <2>1, <2>2, PublishKeepsTraffic
  <2>3. CASE ~ \E m, log : Publishes(m, log)
    <3>1. /\ UNCHANGED nextPacketId /\ UNCHANGED pubAckMsgId
          /\ lastPub' = lastPub \/ lastPub' = NoMsg
          /\ \/ UNCHANGED toServer
             \/ /\ toClient # <<>> /\ Head(toClient).type = "PUBREC"
                /\ toServer' = Append(toServer, Ack("PUBREL", Head(toClient).id))
      BY <2>1, <2>3, KeepingSteps
    <3>2. Used' = Used /\ Used \in Nat
      BY <3>1 DEF Used, TypeOK, AckType
    <3>3. /\ toServer \in Seq(ToServer) /\ toClient \in Seq(ToClient)
          /\ RequestsOK(toServer, Used, lastPub, delivered)
          /\ AnswersOK(toClient, Used, lastPub, delivered)
          /\ lastPub # NoMsg => pubAckMsgId = Used
      BY <1>4, TrafficIs DEF TypeOK, NetType
    <3>4. /\ RequestsOK(toServer, Used, lastPub', delivered)
          /\ AnswersOK(toClient, Used, lastPub', delivered)
      BY <3>1, <3>2, <3>3, PacketsAge
    <3>5. AnswersOK(toClient', Used, lastPub', delivered)
      BY <2>1, <3>2, <3>4, CommandsAreNoAnswers
    <3>6. RequestsOK(toServer', Used, lastPub', delivered)
      <4>1. CASE UNCHANGED toServer
        BY <3>4, <4>1
      <4>2. CASE /\ toClient # <<>> /\ Head(toClient).type = "PUBREC"
                 /\ toServer' = Append(toServer, Ack("PUBREL", Head(toClient).id))
        <5>1. /\ AnswerOK(Head(toClient), Used, lastPub', delivered)
              /\ Head(toClient) \in ToClient
          BY <3>3, <3>4, <4>2, PacketsMove
        <5>2. RequestOK(Ack("PUBREL", Head(toClient).id), Used, lastPub', delivered)
          BY <4>2, <5>1 DEF AnswerOK, RequestOK, Ack
        <5>3. Ack("PUBREL", Head(toClient).id) \in ToServer
          BY <4>2, <5>1 DEF Ack, ToServer, ToClient
        <5> QED
          BY <3>3, <3>4, <4>2, <5>2, <5>3, PacketsMove
      <4> QED
        BY <3>1, <4>1, <4>2
    <3> QED
      BY <2>1, <3>1, <3>2, <3>3, <3>5, <3>6 DEF TrafficInv, RequestsOK, AnswersOK
  <2> QED
    BY <2>2, <2>3
<1> QED
  BY <1>5, <1>6

LEMMA HeldIsWaitedFor ==
    ASSUME OwnedInv, KeepInv, lastPub # NoMsg
    PROVE  calls # <<>>
BY DEF KeepInv, OwnedInv, Owned, GuaranteedIn

LEMMA NextKeep ==
    ASSUME FewerThanIds, ~HeapMayFail, TypeOK, LoopInv, CommandsInv, OwnedInv,
           KeepInv, [Next]_vars
    PROVE  KeepInv'
<1>1. CASE Exit
  <2>1. lastPub' = NoMsg /\ dataLog' = dataLog
    BY <1>1, Zenon DEF Exit
  <2> QED
    BY <2>1 DEF KeepInv
<1>2. CASE InitInstaMsg
  <2>1. pc \in {"down", "init"} /\ lastPub' = lastPub /\ dataLog' = dataLog
    BY <1>2, Zenon DEF InitInstaMsg
  <2>2. lastPub = NoMsg
    BY <2>1, HeldIsWaitedFor DEF LoopInv
  <2> QED
    BY <2>1, <2>2 DEF KeepInv
<1> SUFFICES ASSUME ~Exit, ~InitInstaMsg PROVE KeepInv'
  BY <1>1, <1>2
<1>3. /\ dataLog \in Seq(Msgs \cup {NoMsg}) /\ lastPub \in Msgs \cup {NoMsg}
      /\ Len(dataLog) <= MAX_DATA_RECORDS
      /\ lastPub # NoMsg => waitingForPuback = "WAITING_FOR_PUBACK" /\ pc # "down"
  BY DEF TypeOK, MessageType, AckType, KeepInv
<1>4. pc' = "down" <=> pc = "down"
  BY NextUp
<1>5. ASSUME NEW m, NEW log, Publishes(m, log) PROVE KeepInv'
  <2>1. /\ nextPacketId' # nextPacketId
        /\ lastPub' # NoMsg => waitingForPuback' = "WAITING_FOR_PUBACK"
        /\ dataLog' = log \/ dataLog' = SaveRecord(log, m)
    BY <1>5, ManyIds, PublishIs DEF Publishes
  <2>2. pc # "down"
    BY <2>1, NextOff DEF Off
  <2>3. /\ log \in Seq(Msgs \cup {NoMsg}) /\ m \in Msgs \cup {NoMsg}
        /\ Len(log) <= MAX_DATA_RECORDS
    <3>1. CASE log = dataLog
      BY <1>3, <1>5, <3>1 DEF Publishes
    <3>2. CASE dataLog # <<>> /\ log = Tail(dataLog)
      BY <1>3, <1>5, <3>2 DEF Publishes
    <3> QED
      BY <1>5, <3>1, <3>2 DEF Publishes
  <2>4. Len(SaveRecord(log, m)) <= MAX_DATA_RECORDS
    BY <2>3, SaveDrops
  <2> QED
    BY <1>4, <2>1, <2>2, <2>3, <2>4 DEF KeepInv
<1>6. CASE ~ \E m, log : Publishes(m, log)
  <2>1. Len(SaveRecord(dataLog, lastPub)) <= MAX_DATA_RECORDS
    BY <1>3, SaveDrops
  <2> QED
    BY <1>3, <1>4, <1>6, <2>1, KeepingSteps DEF KeepInv
<1> QED
  BY <1>5, <1>6

LEMMA DeliveredStays ==
    [Next]_vars => delivered \subseteq delivered'
<1> SUFFICES ASSUME [Next]_vars PROVE delivered \subseteq delivered'
  OBVIOUS
<1>1. ReadEnds => UNCHANGED delivered
  BY Zenon
     DEF ReadEnds, CompulsoryReadEnds, PubAckCycle, PubAckTimeout, PubAckWaitEnds,
         PingWaitEnds, ConnectionWaitCycle, MainReadEnds, ReadPacketFails, serverVars
<1>2. ReceivePacket => UNCHANGED delivered
  BY Zenon
     DEF ReceivePacket, ReceiveAck, ReceivePubrec, ReceiveConnack, ReceiveCommand,
         Exit, serverVars
<1>3. CASE Client
  BY <1>1, <1>2, <1>3, Zenon
     DEF Client, InitInstaMsg, EnterLoop, ResendRecord, NothingToResend, AfterResend,
         RemoveExpiredResultHandlers, TimedPublishes, RunBusinessLogic,
         SendFirstGpsLocation, SkipBusinessLogic, AfterBusinessLogic, EndOfLoop, ClearInstaMsg, Exit,
         serverVars
<1>4. CASE ServerAnswers
  BY <1>4, SMT DEF ServerAnswers
<1>5. CASE ServerCommands \/ Crash \/ Stabilise \/ UNCHANGED vars
  BY <1>5, Zenon DEF ServerCommands, Crash, Stabilise, Exit, vars, serverVars
<1> QED
  BY <1>3, <1>4, <1>5, Zenon DEF Next, Environment

(* Only these three lose a message.                                        *)
LEMMA LossIs ==
    ASSUME FewerThanIds, ~HeapMayFail, TypeOK, LoopInv, CommandsInv, CustodyInv,
           OwnedInv, IdInv, TrafficInv, KeepInv, [Next]_vars,
           NEW m \in Lost' \ Lost
    PROVE  (pc' = "down" /\ m = lastPub) \/ RolledOver(m) \/ TakenOver(m)
<1>1. /\ m \in Msgs /\ m \in handed' /\ m \notin delivered' /\ m # lastPub'
      /\ m \notin ElementsOf(dataLog')
  BY DEF Lost, ElementsOf
<1>2. m \notin delivered
  BY <1>1, DeliveredStays
<1>3. m \notin handed \/ m = lastPub \/ m \in ElementsOf(dataLog)
  BY <1>1, <1>2 DEF Lost, ElementsOf
<1>4. /\ dataLog \in Seq(Msgs \cup {NoMsg}) /\ lastPub \in Msgs \cup {NoMsg}
      /\ Len(dataLog) \in Nat /\ Len(dataLog) <= MAX_DATA_RECORDS
      /\ m # NoMsg
  BY <1>1 DEF TypeOK, MessageType, AckType, KeepInv
<1>5. CASE Exit
  <2>1. handed' = handed /\ dataLog' = dataLog /\ pc' = "down"
    BY <1>5, Zenon DEF Exit
  <2> QED
    BY <1>1, <1>3, <2>1
<1>6. CASE InitInstaMsg
  <2>1. handed' = handed /\ dataLog' = dataLog /\ lastPub' = lastPub
    BY <1>6, Zenon DEF InitInstaMsg
  <2> QED
    BY <1>1, <1>3, <2>1
<1> SUFFICES ASSUME ~Exit, ~InitInstaMsg PROVE RolledOver(m) \/ TakenOver(m)
  BY <1>5, <1>6
<1>7. ASSUME NEW k, NEW log, Publishes(k, log)
      PROVE  RolledOver(m) \/ TakenOver(m)
  <2>1. MAX_PACKET_ID > 1
    BY <1>7, ManyIds DEF Publishes
  <2>2. /\ nextPacketId' # nextPacketId /\ handed' = handed \cup {k}
        /\ \/ dataLog' = log /\ lastPub' = k
           \/ dataLog' = SaveRecord(log, k)
    BY <1>7, <2>1, PublishIs
  <2>3. CASE m = lastPub
    BY <1>4, <2>2, <2>3, HeldIsWaitedFor DEF TakenOver
  <2>4. k \in Msgs \cup {NoMsg}
    BY <1>7 DEF Publishes
  <2>5. CASE m # lastPub /\ log = dataLog
    <3>1. /\ k \in ElementsOf(SaveRecord(dataLog, k))
          /\ m \in ElementsOf(dataLog) =>
               \/ m \in ElementsOf(SaveRecord(dataLog, k))
               \/ Len(dataLog) >= MAX_DATA_RECORDS /\ m = Head(dataLog)
      BY <1>4, <2>4, SaveDrops
    <3>2. m # k
      BY <1>1, <2>2, <2>5, <3>1
    <3>3. m \in ElementsOf(dataLog)
      BY <1>1, <1>3, <2>2, <2>5, <3>2
    <3>4. Len(dataLog) >= MAX_DATA_RECORDS /\ m = Head(dataLog)
      BY <1>1, <2>2, <2>5, <3>1, <3>3
    <3> QED
      BY <1>4, <3>4 DEF RolledOver
  <2>6. CASE /\ m # lastPub /\ dataLog # <<>>
             /\ k = Head(dataLog) /\ log = Tail(dataLog)
    <3>1. log \in Seq(Msgs \cup {NoMsg}) /\ Len(log) < MAX_DATA_RECORDS
      BY <1>4, <2>6
    <3>2. \A e \in ElementsOf(dataLog) : e = k \/ e \in ElementsOf(log)
      <4>1. /\ \A i \in DOMAIN dataLog :
                 i = 1 \/ (i - 1 \in DOMAIN log /\ log[i - 1] = dataLog[i])
            /\ dataLog[1] = k
        BY <1>4, <2>6
      <4> QED
        BY <4>1 DEF ElementsOf
    <3>3. /\ k \in ElementsOf(SaveRecord(log, k))
          /\ \A e \in ElementsOf(log) : e \in ElementsOf(SaveRecord(log, k))
      BY <2>4, <3>1, SaveDrops
    <3>4. m # k
      BY <1>1, <2>2, <3>3
    <3> QED
      BY <1>1, <1>3, <2>2, <2>6, <3>2, <3>3, <3>4
  <2> QED
    BY <1>7, <2>3, <2>5, <2>6 DEF Publishes
<1>8. CASE ~ \E k, log : Publishes(k, log)
  <2>1. /\ UNCHANGED handed
        /\ \/ UNCHANGED <<dataLog, lastPub>>
           \/ /\ dataLog' = dataLog /\ lastPub' = NoMsg
              /\ reading /\ toClient # <<>>
              /\ Head(toClient).type \in {"PUBACK", "PUBREC", "PUBCOMP"}
              /\ Head(toClient).id = pubAckMsgId
           \/ dataLog' = SaveRecord(dataLog, lastPub)
    BY <1>8, KeepingSteps
  <2>2. CASE UNCHANGED <<dataLog, lastPub>>
    BY <1>1, <1>3, <2>1, <2>2
  <2>3. CASE /\ dataLog' = dataLog
             /\ reading /\ toClient # <<>>
             /\ Head(toClient).type \in {"PUBACK", "PUBREC", "PUBCOMP"}
             /\ Head(toClient).id = pubAckMsgId
    <3>1. m = lastPub
      BY <1>1, <1>3, <2>1, <2>3
    <3>2. ~Off
      BY <2>3 DEF LoopInv, Off
    <3>3. toClient[1] = Head(toClient) /\ 1 \in DOMAIN toClient
      BY <2>3, TailIs DEF TypeOK, NetType
    <3>4. AnswerOK(Head(toClient), Used, lastPub, delivered) /\ pubAckMsgId = Used
      BY <1>4, <3>1, <3>2, <3>3 DEF TrafficInv
    <3> QED
      BY <1>2, <1>4, <2>3, <3>1, <3>4 DEF AnswerOK
  <2>4. CASE dataLog' = SaveRecord(dataLog, lastPub)
    <3>1. /\ lastPub \in ElementsOf(SaveRecord(dataLog, lastPub))
          /\ m \in ElementsOf(dataLog) =>
               \/ m \in ElementsOf(SaveRecord(dataLog, lastPub))
               \/ Len(dataLog) >= MAX_DATA_RECORDS /\ m = Head(dataLog)
      BY <1>4, SaveDrops
    <3>2. Len(dataLog) >= MAX_DATA_RECORDS /\ m = Head(dataLog)
      BY <1>1, <1>3, <2>1, <2>4, <3>1
    <3> QED
      BY <1>4, <3>2 DEF RolledOver
  <2> QED
    BY <2>1, <2>2, <2>3, <2>4
<1> QED
  BY <1>7, <1>8

(* A message is lost in no other way than the three of LossAccounted, for  *)
(* a driver that finds heap and sends fewer messages than it has ids: an   *)
(* answer that is taken for a message's was given to that message.         *)
THEOREM LossIsAccounted ==
    ~HeapMayFail /\ FewerThanIds => (Spec => LossAccounted)
<1> SUFFICES ASSUME ~HeapMayFail, FewerThanIds
             PROVE  Spec => LossAccounted
  OBVIOUS
<1> DEFINE Inv == /\ TypeOK /\ LoopInv /\ CommandsInv /\ CustodyInv /\ OwnedInv
                  /\ IdInv /\ TrafficInv /\ KeepInv
<1>1. Init => Inv
  <2> SUFFICES ASSUME Init PROVE Inv
    OBVIOUS
  <2>1. /\ calls = <<>> /\ reading = FALSE /\ pc = "down" /\ dataLog = <<>>
        /\ lastPub = NoMsg
    BY Zenon DEF Init
  <2>2. LoopInv /\ OwnedInv
    BY <2>1 DEF LoopInv, OwnedInv, ElementsOf
  <2>3. IdInv /\ TrafficInv /\ KeepInv
    BY <2>1 DEF IdInv, TrafficInv, KeepInv, Off
  <2> QED
    BY <2>2, <2>3, InitType, InitCustody
<1>2. Inv /\ [Next]_vars => Inv'
  <2> SUFFICES ASSUME Inv, [Next]_vars PROVE Inv'
    OBVIOUS
  <2>1. TypeOK' /\ LoopInv' /\ CommandsInv' /\ CustodyInv' /\ OwnedInv'
    BY NextType, NextLoop, NextCommands, NextCustody, NextOwns
  <2>2. IdInv' /\ TrafficInv'
    BY <2>1, NextIds, NextTraffic
  <2>3. KeepInv'
    BY NextKeep
  <2> QED
    BY <2>1, <2>2, <2>3
<1>3. Inv /\ [Next]_vars =>
        \/ \A m \in Lost' \ Lost :
             (pc' = "down" /\ m = lastPub) \/ RolledOver(m) \/ TakenOver(m)
        \/ UNCHANGED vars
  BY LossIs
<1> QED
  BY <1>1, <1>2, <1>3, PTL DEF Spec, LossAccounted

=============================================================================
