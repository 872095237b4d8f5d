--------------------------------- MODULE Calls ---------------------------------
(***************************************************************************)
(* The calls of the driver's one thread into one another (instamsg.c and   *)
(* log.c): everything logs, a log may be published to the server, publish  *)
(* logs as well and every few times reads packets, and a packet's handler  *)
(* logs, allocates and may publish.  The state is the stack of the calls   *)
(* under way, and what they share: the flag and the time limit of server   *)
(* logging, readbuf, the message that waits for its PUBACK and the heap    *)
(* of ports without malloc.                                                *)
(*                                                                         *)
(* A frame says what remains to be done by a call; a call whose callee is  *)
(* the last thing it does leaves none.  Debug logs are never published,    *)
(* and left out with what they do for the time limit (log.c:168): the      *)
(* notice that it has passed may go out with one of them as well.  Left    *)
(* out too are the blocks that the scanning of JSON allocates and frees.   *)
(***************************************************************************)
EXTENDS SgHeap, FiniteSets

CONSTANTS
    EXPIRY_SECONDS,     \* 600
    Interval,           \* compulsorySocketReadAfterMQTTPublishInterval: 3
    MAX_CYCLES_TO_WAIT_FOR_PUBACK,
    SMALL, LARGE,       \* the lengths of a topic, and of a payload
    MaxPackets,         \* bound: the packets of a connection
    MaxGuaranteed       \* bound: the guaranteed messages of a connection

ASSUME CallsAssumption ==
    /\ {EXPIRY_SECONDS, MaxPackets, MaxGuaranteed} \subseteq Nat
    /\ {Interval, MAX_CYCLES_TO_WAIT_FOR_PUBACK, SMALL, LARGE}
         \subseteq Nat \ {0}

FRESH_SERVER_LOGS_TIME == -1
NULL == [at |-> 0, size |-> 0]

VARIABLES
    stack,
    serverLoggingEnabled,
    age,                \* the seconds since serverLogsStartTime, or FRESH
    publishCount,       \* modulo Interval
    ipstackCorrupted,
    line, inbox,        \* the line: "up" or "broken", and packets on it
    contents,           \* of readbuf: the packet it holds, 0 for none
    heap, lastPubTopic, lastPubPayload,
    waitingForPuback, pubAckRecvAttempts,
    handlerAttached,    \* the result handler of the message that waits
    \* of the connection: packets sent by the server, guaranteed messages, and
    \* whether the server has the last one and has not answered it
    packets, guaranteed, unanswered,
    \* history: seconds since the server enabled its logs, and how often it
    \* has, on this connection
    since, enabled

loggingVars == <<serverLoggingEnabled, age, since, enabled>>
lineVars    == <<ipstackCorrupted, line>>
serverVars  == <<packets, guaranteed, unanswered>>
pubVars     == <<heap, lastPubTopic, lastPubPayload, waitingForPuback,
                 pubAckRecvAttempts, handlerAttached>>
callsVars   == <<stack, loggingVars, publishCount, lineVars, inbox, contents,
                 pubVars, serverVars>>

-----------------------------------------------------------------------------
(* Frames: what remains to be done, the kind of the publish or packet, the *)
(* number of the packet, and the blocks the frame has to free.             *)
Frame(at) == [at |-> at, kind |-> "none", n |-> 0, mem |-> <<>>]
Log == Frame("log")
ReadAndProcess == Frame("read")
Publish(kind) == [Frame("publish") EXCEPT !.kind = kind]

Top   == Last(stack)
At(f) == stack # <<>> /\ Top.at = f
Then(f) == [Top EXCEPT !.at = f]

(* The call at the top goes on with these frames, the last one first.      *)
Becomes(frames) == stack' = Front(stack) \o frames

LogIf(b) == IF b THEN <<Log>> ELSE <<>>

Capped(n, max) == IF n > max THEN max ELSE n

ASecond ==
    /\ age' = IF age = FRESH_SERVER_LOGS_TIME THEN age
              ELSE Capped(age + 1, EXPIRY_SECONDS + 1)
    /\ since' = Capped(since + 1, EXPIRY_SECONDS + 2)
    /\ UNCHANGED <<serverLoggingEnabled, enabled>>

-----------------------------------------------------------------------------
(* log.c                                                                   *)

(* Mutant: the time starts again with every log. *)
MetadataRestarting ==
    /\ At("log")
    /\ age' = IF serverLoggingEnabled = 1 THEN 0 ELSE age
    /\ Becomes(<<Then("emit")>>)
    /\ UNCHANGED <<serverLoggingEnabled, since, enabled, publishCount,
                   lineVars, inbox, contents, pubVars, serverVars>>

(* Mutant: the flag is cleared when the notice has been sent. *)
MetadataClearingLate ==
    /\ At("log")
    /\ age' = IF serverLoggingEnabled = 1 /\ age = FRESH_SERVER_LOGS_TIME
              THEN 0 ELSE age
    /\ IF serverLoggingEnabled = 1 /\ age > EXPIRY_SECONDS
       THEN Becomes(<<Then("emit"), Publish("notice")>>)
       ELSE Becomes(<<Then("emit")>>)
    /\ UNCHANGED <<serverLoggingEnabled, since, enabled, publishCount,
                   lineVars, inbox, contents, pubVars, serverVars>>

(* processServerLoggingMetadata: "We allow the server-logs only for        *)
(* 10-minutes."                                                            *)
Metadata ==
    /\ At("log")
    /\ IF serverLoggingEnabled = 1 /\ age > EXPIRY_SECONDS
       THEN /\ age' = FRESH_SERVER_LOGS_TIME
            /\ serverLoggingEnabled' = 0
            /\ Becomes(<<Then("emit"), Publish("notice")>>)
       ELSE /\ age' = IF serverLoggingEnabled = 1 /\ age = FRESH_SERVER_LOGS_TIME
                      THEN 0 ELSE age
            /\ Becomes(<<Then("emit")>>)
            /\ UNCHANGED serverLoggingEnabled
    /\ UNCHANGED <<since, enabled, publishCount, lineVars, inbox, contents,
                   pubVars, serverVars>>

(* LOG_COMMON_CODE: to the server, or to the serial line. *)
Emit ==
    /\ At("emit")
    /\ Becomes(IF serverLoggingEnabled = 1 THEN <<Publish("log")>> ELSE <<>>)
    /\ UNCHANGED <<loggingVars, publishCount, lineVars, inbox, contents,
                   pubVars, serverVars>>

-----------------------------------------------------------------------------
(* publish()                                                               *)

(* It takes a second.  Logs are published without a word about them.       *)
PublishStart ==
    /\ At("publish")
    /\ ASecond
    /\ Becomes(CASE Top.kind \in {"log", "notice"} -> <<Then("send")>>
                 [] Top.kind = "app"  -> <<Then("send"), Log>>
                 [] Top.kind = "sure" -> <<Then("topic")>>)
    /\ waitingForPuback' = IF Top.kind = "sure" THEN "waiting"
                           ELSE waitingForPuback
    /\ IF Top.kind = "sure"             \* pubAckMsgId is a new one
       THEN handlerAttached' = 0 /\ unanswered' = 0
       ELSE UNCHANGED <<handlerAttached, unanswered>>
    /\ UNCHANGED <<publishCount, lineVars, inbox, contents, heap, lastPubTopic,
                   lastPubPayload, pubAckRecvAttempts, packets, guaranteed>>

(* sg_malloc(n), and the log that announces what it did. *)
Pointer(n) == IF HasRoom(heap, n) THEN NewBlock(heap, n) ELSE NULL
Malloc(n) == heap' = DEFAULT_MALLOC(heap, n)

AllocateTopic ==
    /\ At("topic")
    /\ Malloc(SMALL) /\ lastPubTopic' = Pointer(SMALL)
    /\ Becomes(<<Then("payload")>> \o LogIf(Announces(heap, SMALL)))
    /\ UNCHANGED <<loggingVars, publishCount, lineVars, inbox, contents,
                   lastPubPayload, waitingForPuback, pubAckRecvAttempts,
                   handlerAttached, serverVars>>

AllocatePayload ==
    /\ At("payload")
    /\ Malloc(LARGE) /\ lastPubPayload' = Pointer(LARGE)
    /\ Becomes(<<Then("track")>> \o LogIf(Announces(heap, LARGE)))
    /\ UNCHANGED <<loggingVars, publishCount, lineVars, inbox, contents,
                   lastPubTopic, waitingForPuback, pubAckRecvAttempts,
                   handlerAttached, serverVars>>

(* attachResultHandler, or FAILURE without memory.                         *)
Track ==
    /\ At("track")
    /\ IF NULL \in {lastPubTopic, lastPubPayload}
       THEN Becomes(<<Log>>) /\ UNCHANGED handlerAttached
       ELSE Becomes(<<Then("send"), Log>>) /\ handlerAttached' = 1
    /\ UNCHANGED <<loggingVars, publishCount, lineVars, inbox, contents, heap,
                   lastPubTopic, lastPubPayload, waitingForPuback,
                   pubAckRecvAttempts, serverVars>>

(* sendPacket; a line that is broken may still take the bytes. *)
Send ==
    /\ At("send")
    /\ \/ /\ ipstackCorrupted = 1
          /\ Becomes(<<Then("failed"), Log>>)
          /\ UNCHANGED <<publishCount, unanswered>>
       \/ /\ ipstackCorrupted = 0
          /\ publishCount' = (publishCount + 1) % Interval
          /\ unanswered' = IF Top.kind = "sure" /\ line = "up" THEN 1
                           ELSE unanswered
          /\ Becomes(<<Then("sent")>>)
       \/ /\ ipstackCorrupted = 0 /\ line = "broken"
          /\ Becomes(<<Then("corrupted"), Log>>)
          /\ UNCHANGED <<publishCount, unanswered>>
    /\ UNCHANGED <<loggingVars, lineVars, inbox, contents, pubVars, packets,
                   guaranteed>>

(* The socket's write logs its error, and then sendPacket notes it. *)
WriteFailed ==
    /\ At("corrupted")
    /\ ipstackCorrupted' = 1
    /\ Becomes(<<Then("failed")>>)
    /\ UNCHANGED <<loggingVars, publishCount, line, inbox, contents, pubVars,
                   serverVars>>

(* The compulsory read is due by the count as it is now: logs count too.   *)
CompulsoryRead(logs) ==
    IF publishCount = 0 THEN <<ReadAndProcess>> \o logs ELSE <<>>

Sent ==
    /\ At("sent")
    /\ Becomes(IF Top.kind \in {"log", "notice"} THEN CompulsoryRead(<<>>)
               ELSE <<Then("published"), Log>>)
    /\ UNCHANGED <<loggingVars, publishCount, lineVars, inbox, contents,
                   pubVars, serverVars>>

Published ==
    /\ At("published")
    /\ Becomes((IF Top.kind = "sure" THEN <<Frame("wait")>> ELSE <<>>)
                 \o CompulsoryRead(<<Log>>))
    /\ UNCHANGED <<loggingVars, publishCount, lineVars, inbox, contents,
                   pubVars, serverVars>>

PublishFailed ==
    /\ At("failed")
    /\ Becomes(CASE Top.kind \in {"log", "notice"} -> <<>>
                 [] Top.kind = "app"  -> <<Log>>
                 [] Top.kind = "sure" -> <<Frame("save"), Log>>)
    /\ UNCHANGED <<loggingVars, publishCount, lineVars, inbox, contents,
                   pubVars, serverVars>>

-----------------------------------------------------------------------------
(* waitForPubAck, saveFailedPublishedMessage                               *)

Wait ==
    /\ At("wait")
    /\ Becomes(<<Then("waited"), ReadAndProcess>>)
    /\ UNCHANGED <<loggingVars, publishCount, lineVars, inbox, contents,
                   pubVars, serverVars>>

(* Mutant: the count is not started again after the last attempt.          *)
WaitedKeepingCount ==
    /\ At("waited")
    /\ IF waitingForPuback # "waiting"
       THEN Becomes(<<>>) /\ UNCHANGED pubAckRecvAttempts
       ELSE IF pubAckRecvAttempts + 1 >= MAX_CYCLES_TO_WAIT_FOR_PUBACK
       THEN Becomes(<<Then("save")>>)
            /\ pubAckRecvAttempts' = pubAckRecvAttempts + 1
       ELSE Becomes(<<Then("wait")>>)
            /\ pubAckRecvAttempts' = pubAckRecvAttempts + 1
    /\ UNCHANGED <<loggingVars, publishCount, lineVars, inbox, contents, heap,
                   lastPubTopic, lastPubPayload, waitingForPuback,
                   handlerAttached, serverVars>>

Waited ==
    /\ At("waited")
    /\ IF waitingForPuback # "waiting"
       THEN Becomes(<<>>) /\ UNCHANGED pubAckRecvAttempts
       ELSE IF pubAckRecvAttempts + 1 >= MAX_CYCLES_TO_WAIT_FOR_PUBACK
       THEN Becomes(<<Then("save")>>) /\ pubAckRecvAttempts' = 0
       ELSE Becomes(<<Then("wait")>>)
            /\ pubAckRecvAttempts' = pubAckRecvAttempts + 1
    /\ UNCHANGED <<loggingVars, publishCount, lineVars, inbox, contents, heap,
                   lastPubTopic, lastPubPayload, waitingForPuback,
                   handlerAttached, serverVars>>

(* The record to be stored.  Without memory there is a second log.         *)
Save ==
    /\ At("save")
    /\ Malloc(LARGE)
    /\ Becomes(IF HasRoom(heap, LARGE)
               THEN <<[Then("saved") EXCEPT !.mem = <<Pointer(LARGE)>>]>>
                      \o LogIf(Announces(heap, LARGE))
               ELSE <<Log, Log>>)
    /\ UNCHANGED <<loggingVars, publishCount, lineVars, inbox, contents,
                   lastPubTopic, lastPubPayload, waitingForPuback,
                   pubAckRecvAttempts, handlerAttached, serverVars>>

Saved ==
    /\ At("saved")
    /\ heap' = DEFAULT_FREE(heap, Top.mem[1])
    /\ Becomes(<<Frame("give up"), Log>>)
    /\ UNCHANGED <<loggingVars, publishCount, lineVars, inbox, contents,
                   lastPubTopic, lastPubPayload, waitingForPuback,
                   pubAckRecvAttempts, handlerAttached, serverVars>>

FreeIf(h, p) == IF p = NULL THEN h ELSE DEFAULT_FREE(h, p)

FreeLastPubMessageResources ==
    /\ heap' = FreeIf(FreeIf(heap, lastPubPayload), lastPubTopic)
    /\ lastPubPayload' = NULL /\ lastPubTopic' = NULL

GiveUp ==
    /\ At("give up")
    /\ waitingForPuback' = "timeout"
    /\ FreeLastPubMessageResources
    /\ Becomes(<<>>)
    /\ UNCHANGED <<loggingVars, publishCount, lineVars, inbox, contents,
                   pubAckRecvAttempts, handlerAttached, serverVars>>

-----------------------------------------------------------------------------
(* readAndProcessIncomingMQTTPacketsIfAny and the handlers.                *)

ReadCorrupted ==
    /\ At("read") /\ ipstackCorrupted = 1
    /\ Becomes(<<Log>>)
    /\ UNCHANGED <<loggingVars, publishCount, lineVars, inbox, contents,
                   pubVars, serverVars>>

ReadNothing ==
    /\ At("read") /\ ipstackCorrupted = 0
    /\ inbox = <<>> /\ line = "up"
    /\ ASecond                          \* SOCKET_READ_TIMEOUT_SECS
    /\ contents' = 0
    /\ Becomes(<<>>)
    /\ UNCHANGED <<publishCount, lineVars, inbox, pubVars, serverVars>>

(* The socket's read logs its error, and then readPacket notes it. *)
RecvError ==
    /\ At("read") /\ ipstackCorrupted = 0 /\ line = "broken"
    /\ contents' = 0
    /\ Becomes(<<Then("unreadable"), Log>>)
    /\ UNCHANGED <<loggingVars, publishCount, lineVars, inbox, pubVars,
                   serverVars>>

ReadFailed ==
    /\ At("unreadable")
    /\ ipstackCorrupted' = 1
    /\ Becomes(<<>>)
    /\ UNCHANGED <<loggingVars, publishCount, line, inbox, contents, pubVars,
                   serverVars>>

(* Only the PUBACK of the last guaranteed message matters here.            *)
Acknowledges(p) ==
    p.kind = "puback" /\ p.id = guaranteed /\ handlerAttached = 1

Processing(p) ==
    CASE p.kind # "puback" ->
           <<[Frame("topic name") EXCEPT !.kind = p.kind, !.n = p.n]>>
      [] Acknowledges(p) -> <<Frame("acked")>> \o LogIf(lastPubPayload # NULL)
      [] OTHER -> <<>>

(* A packet: the loop goes on when it has been processed.                  *)
ReadAPacket ==
    /\ At("read") /\ ipstackCorrupted = 0 /\ inbox # <<>>
    /\ contents' = Head(inbox).n
    /\ inbox' = Tail(inbox)
    /\ Becomes(<<Top>> \o Processing(Head(inbox)))
    /\ handlerAttached' = IF Acknowledges(Head(inbox)) THEN 0
                          ELSE handlerAttached
    /\ UNCHANGED <<loggingVars, publishCount, lineVars, heap, lastPubTopic,
                   lastPubPayload, waitingForPuback, pubAckRecvAttempts,
                   serverVars>>

(* fireResultHandlerAndRemove, after its log. *)
Acked ==
    /\ At("acked")
    /\ FreeLastPubMessageResources
    /\ waitingForPuback' = "not" /\ pubAckRecvAttempts' = 0
    /\ Becomes(<<>>)
    /\ UNCHANGED <<loggingVars, publishCount, lineVars, inbox, contents,
                   handlerAttached, serverVars>>

(* A handler allocates n bytes and goes on; the caller of the macro says   *)
(* what it does without them.                                              *)
Allocate(n, next, otherwise) ==
    /\ Malloc(n)
    /\ Becomes((IF HasRoom(heap, n)
                THEN <<[Then(next) EXCEPT !.mem = Append(@, Pointer(n))]>>
                ELSE otherwise)
               \o LogIf(Announces(heap, n)))
    /\ UNCHANGED <<loggingVars, publishCount, lineVars, inbox, contents,
                   lastPubTopic, lastPubPayload, waitingForPuback,
                   pubAckRecvAttempts, handlerAttached, serverVars>>

(* The name of the topic is copied when the payload follows it at once.    *)
CopyTopicName ==
    At("topic name") /\ Allocate(LARGE, Top.kind, <<Log>>)

TopicName ==
    /\ At("topic name")
    /\ Becomes(<<Then(Top.kind)>>)
    /\ UNCHANGED <<loggingVars, publishCount, lineVars, inbox, contents,
                   pubVars, serverVars>>

(* Mutant: it replies before it looks at the message.                      *)
OneToOneReplyingFirst ==
    /\ At("message")
    /\ Becomes(<<Then("peer message"), Publish("app")>>)
    /\ UNCHANGED <<loggingVars, publishCount, lineVars, inbox, contents,
                   pubVars, serverVars>>

(* oneToOneMessageArrived logs the message before it looks at it.          *)
OneToOne ==
    /\ At("message")
    /\ Becomes(<<Then("peer message"), Log>>)
    /\ UNCHANGED <<loggingVars, publishCount, lineVars, inbox, contents,
                   pubVars, serverVars>>

AllocatePeerMessage ==
    At("peer message") /\ Allocate(LARGE, "peer", <<Then("free"), Log>>)

AllocatePeer == At("peer") /\ Allocate(SMALL, "body", <<Then("free"), Log>>)

(* The callback may reply.  An id or the peer is missing, or the handler   *)
(* of the id: a log.  Of a buffer that was cleared all are missing.        *)
Body ==
    /\ At("body")
    /\ \/ contents # 0 /\ Becomes(<<Then("free")>>)
       \/ contents # 0 /\ Becomes(<<Then("free"), Publish("app")>>)
       \/ Becomes(<<Then("free"), Log>>)
    /\ UNCHANGED <<loggingVars, publishCount, lineVars, inbox, contents,
                   pubVars, serverVars>>

(* serverLoggingTopicMessageArrived: both are allocated before it looks.   *)
AllocateClientId ==
    /\ At("enable") \/ At("disable")
    /\ Allocate(LARGE, "logging", <<Then("only logging")>>)

AllocateLogging ==
    \/ At("logging") /\ Allocate(LARGE, "switch", <<Then("no memory")>>)
    \/ At("only logging")
         /\ Allocate(LARGE, "no memory", <<Then("no memory")>>)

NoMemory ==
    /\ At("no memory")
    /\ Becomes(<<Then("free"), Log>>)
    /\ UNCHANGED <<loggingVars, publishCount, lineVars, inbox, contents,
                   pubVars, serverVars>>

SwitchTo(on) ==
    /\ Becomes(<<Then("free"), Log>>)
    /\ serverLoggingEnabled' = IF on THEN 1 ELSE 0
    /\ age' = IF on THEN FRESH_SERVER_LOGS_TIME ELSE age
    /\ since' = IF on THEN 0 ELSE since
    /\ enabled' = IF on THEN enabled + 1 ELSE enabled

(* What readbuf holds by now decides: another packet says anything, and a  *)
(* buffer that was cleared says nothing.                                   *)
Switch ==
    /\ At("switch")
    /\ \/ contents = Top.n /\ SwitchTo(Top.kind = "enable")
       \/ contents \notin {0, Top.n} /\ \E on \in BOOLEAN : SwitchTo(on)
       \/ /\ contents # Top.n
          /\ Becomes(<<Then("free")>>)
          /\ UNCHANGED loggingVars
    /\ UNCHANGED <<publishCount, lineVars, inbox, contents, pubVars, serverVars>>

FreeNth(k, h, blocks) ==
    IF k \in DOMAIN blocks THEN DEFAULT_FREE(h, blocks[k]) ELSE h

(* Mutant: in the order of their allocation. *)
FreeInOrder(h, blocks) ==
    FreeNth(3, FreeNth(2, FreeNth(1, h, blocks), blocks), blocks)

(* What a handler and its caller have allocated, the last block first: the *)
(* caller the name of the topic, the handler two blocks at most.           *)
FreeAll(h, blocks) ==
    FreeNth(1, FreeNth(2, FreeNth(3, h, blocks), blocks), blocks)

Free ==
    /\ At("free")
    /\ heap' = FreeAll(heap, Top.mem)
    /\ Becomes(<<>>)
    /\ UNCHANGED <<loggingVars, publishCount, lineVars, inbox, contents,
                   lastPubTopic, lastPubPayload, waitingForPuback,
                   pubAckRecvAttempts, handlerAttached, serverVars>>

-----------------------------------------------------------------------------
(* The main loop.                                                          *)

MainPublishes(kind) ==
    /\ stack = <<>>
    /\ guaranteed < MaxGuaranteed \/ kind # "sure"
    /\ guaranteed' = IF kind = "sure" THEN guaranteed + 1 ELSE guaranteed
    /\ stack' = <<Publish(kind)>>
    /\ UNCHANGED <<loggingVars, publishCount, lineVars, inbox, contents,
                   pubVars, packets, unanswered>>

MainReads ==
    /\ stack = <<>>
    /\ stack' = <<ReadAndProcess>>
    /\ UNCHANGED <<loggingVars, publishCount, lineVars, inbox, contents,
                   pubVars, serverVars>>

MainWaits ==
    /\ stack = <<>>
    /\ ASecond
    /\ UNCHANGED <<stack, publishCount, lineVars, inbox, contents, pubVars,
                   serverVars>>

NewConnection ==
    /\ serverLoggingEnabled' = 0 /\ enabled' = 0
    /\ ipstackCorrupted' = 0 /\ line' = "up" /\ inbox' = <<>>
    /\ handlerAttached' = 0
    /\ packets' = 0 /\ guaranteed' = 0 /\ unanswered' = 0

(* clearInstaMsg, without an exit, and initInstaMsg. *)
Reconnect ==
    /\ stack = <<>> /\ ipstackCorrupted = 1
    /\ NewConnection
    /\ waitingForPuback' = "not" /\ pubAckRecvAttempts' = 0
    /\ UNCHANGED <<stack, age, since, publishCount, contents, heap,
                   lastPubTopic, lastPubPayload>>

(* A new process: module Delivery says when the main loop asks for one.    *)
(* Once a block was freed out of order two blocks may overlap, and what    *)
(* the process does is not defined: nothing else is looked at.             *)
Restart ==
    /\ heap.misused = 1 \/ stack = <<>>
    /\ NewConnection
    /\ stack' = <<>> /\ age' = 0 /\ since' = 0
    /\ publishCount' = 0 /\ contents' = 0
    /\ heap' = EmptyHeap /\ lastPubTopic' = NULL /\ lastPubPayload' = NULL
    /\ waitingForPuback' = "not" /\ pubAckRecvAttempts' = 0

-----------------------------------------------------------------------------
(* The server, and the network.                                            *)

Arrives(kind) ==
    /\ line = "up" /\ packets < MaxPackets
    /\ kind = "puback" => unanswered = 1
    /\ packets' = packets + 1
    /\ inbox' = Append(inbox,
         [kind |-> kind, n |-> packets + 1,
          id |-> IF kind = "puback" THEN guaranteed ELSE 0])
    /\ unanswered' = IF kind = "puback" THEN 0 ELSE unanswered
    /\ UNCHANGED <<stack, loggingVars, publishCount, lineVars, contents,
                   pubVars, guaranteed>>

LineBreaks ==
    /\ line = "up"
    /\ line' = "broken"
    /\ UNCHANGED <<stack, loggingVars, publishCount, ipstackCorrupted, inbox,
                   contents, pubVars, serverVars>>

CallsInit ==
    /\ stack = <<>>
    /\ serverLoggingEnabled = 0 /\ age = 0 /\ since = 0 /\ enabled = 0
    /\ publishCount = 0 /\ ipstackCorrupted = 0 /\ line = "up" /\ inbox = <<>>
    /\ contents = 0 /\ heap = EmptyHeap
    /\ lastPubTopic = NULL /\ lastPubPayload = NULL
    /\ waitingForPuback = "not" /\ pubAckRecvAttempts = 0
    /\ handlerAttached = 0 /\ packets = 0 /\ guaranteed = 0 /\ unanswered = 0

Driver ==
    \/ Metadata \/ Emit
    \/ PublishStart \/ AllocateTopic \/ AllocatePayload \/ Track
    \/ Send \/ WriteFailed \/ Sent \/ Published \/ PublishFailed
    \/ Wait \/ Waited \/ Save \/ Saved \/ GiveUp
    \/ ReadCorrupted \/ ReadNothing \/ RecvError \/ ReadFailed \/ ReadAPacket
    \/ Acked
    \/ CopyTopicName \/ TopicName
    \/ OneToOne \/ AllocatePeerMessage \/ AllocatePeer \/ Body
    \/ AllocateClientId \/ AllocateLogging \/ NoMemory \/ Switch \/ Free
    \/ \E kind \in {"app", "sure"} : MainPublishes(kind)
    \/ MainReads \/ MainWaits \/ Reconnect

Network ==
    \/ \E kind \in {"message", "enable", "disable", "puback"} : Arrives(kind)
    \/ LineBreaks

CallsNext == (heap.misused = 0 /\ (Driver \/ Network)) \/ Restart

CallsSpec == CallsInit /\ [][CallsNext]_callsVars

-----------------------------------------------------------------------------
(* Properties                                                              *)

Steps == {"log", "emit", "publish", "topic", "payload", "track", "send",
          "corrupted", "failed", "sent", "published", "wait", "waited", "save",
          "saved", "give up", "read", "unreadable", "acked", "topic name",
          "message", "peer message", "peer", "body", "enable", "disable",
          "logging", "only logging", "switch", "no memory", "free"}

Kinds == {"none", "log", "notice", "app", "sure", "message", "enable", "disable"}

Frames == [at : Steps, kind : Kinds, n : 0..MaxPackets, mem : Seq(Block)]

(* The type of every variable. *)
CallsTypeOK ==
    /\ stack \in Seq(Frames)
    /\ age \in -1..(EXPIRY_SECONDS + 1) /\ since \in 0..(EXPIRY_SECONDS + 2)
    /\ {serverLoggingEnabled, ipstackCorrupted, handlerAttached,
        unanswered, heap.misused} \subseteq 0..1
    /\ publishCount \in 0..(Interval - 1)
    /\ enabled \in 0..MaxPackets
    /\ line \in {"up", "broken"}
    /\ contents \in 0..MaxPackets
    /\ {lastPubTopic, lastPubPayload} \subseteq Block
    /\ waitingForPuback \in {"not", "waiting", "timeout"}
    /\ pubAckRecvAttempts \in 0..(MAX_CYCLES_TO_WAIT_FOR_PUBACK - 1)

(* Logs about a lost connection are published, fail and are logged again:  *)
(* the recursion ends with the time for which the server gets logs, a      *)
(* second for each level.                                                  *)
RecursionBounded ==
    Cardinality({k \in DOMAIN stack :
        /\ stack[k].at \in {"failed", "corrupted"}
        /\ stack[k].kind \in {"log", "notice"}})
      <= (EXPIRY_SECONDS + 2) * enabled

(* "We allow the server-logs only for 10-minutes" (log.c:128), counted     *)
(* from the server's wish, a publish more or less.  A log that has been    *)
(* announced as the last may still go out late, when the server asks for   *)
(* logs again while the notice is sent.                                    *)
LogsInWindow ==
    [][Send /\ Top.kind = "log" /\ enabled = 1
         => since <= EXPIRY_SECONDS + 1]_callsVars

(* A handler finds in readbuf the packet it was called for, as long as the *)
(* server has not asked for logs.                                          *)
PayloadIntact ==
    At("body") \/ At("switch") => contents = Top.n \/ enabled > 0

(* Live blocks never overlap while they are freed in reverse order, and    *)
(* the only ones that are not are those of a guaranteed message: its       *)
(* PUBACK comes while a handler, or the storing of a record, has allocated *)
(* more and publishes.                                                     *)
HeapSound ==
    IF heap.misused = 0 THEN Stacked(heap)
    ELSE lastPubPayload = NULL /\ \E k \in DOMAIN stack : stack[k].mem # <<>>

=============================================================================
