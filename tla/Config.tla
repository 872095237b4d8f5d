-------------------------------- MODULE Config --------------------------------
(***************************************************************************)
(* The editable configuration (config.c and its callers in instamsg.c): a  *)
(* variable of the program, its setting on the storage and what the server *)
(* shows.  Each connection registers every variable anew, and the server   *)
(* may edit a setting at any time.  The edit can be read inside another    *)
(* call: after a publish that reads, and, while the server gets the logs,  *)
(* within any log.  Module Calls has these calls in detail; here the state *)
(* is what they share: readbuf, messageBuffer and the settings, whose      *)
(* storage is that of module DurableStore.                                 *)
(***************************************************************************)
EXTENDS Naturals, Sequences, SequencesExt, FiniteSets, Functions, TLC

CONSTANTS
    Registered,         \* the settings, in the order of their registration
    Interval,           \* COMPULSORY_SOCKET_READ_AFTER_WRITE_COUNT
    OwnDefault,         \* those whose default is the variable as it is
    Values,             \* of settings; 0 is one of them
    First, Default,     \* of variables: at the start, and of settings
    Unset,
    HeapMayFail,        \* sg_malloc may return NULL
    MaxPackets          \* bound: packets of the server in a connection

Keys == Range(Registered)

ASSUME ConfigAssumption ==
    /\ Interval \in Keys /\ OwnDefault \subseteq Keys
    /\ Registered \in Seq(Keys) /\ IsInjective(Registered)
    /\ 0 \in Values /\ Unset \notin Values
    /\ {First, Default} \subseteq [Keys -> Values]
    /\ HeapMayFail \in BOOLEAN /\ MaxPackets \in Nat

VARIABLES
    stack,              \* calls under way: what remains of each, last on top
    variables,          \* the program's variables
    settings,           \* on the storage
    told,               \* what the server was told last of each setting
    serverLogging,      \* serverLoggingEnabled
    readbuf, messageBuffer,
    link,               \* "down", "up", "broken", or known to be "corrupted"
    inbox, packets,     \* packets on their way to the device; sent so far
    registered,         \* the connection has registered everything
    \* history: what the last edit of each setting that was read asked for,
    \* Unset where the code lets go of it; settings edited after their
    \* registration; settings of which a publish was interrupted by a log, or
    \* that were short of heap
    chosen, edited, untold

settingVars == <<variables, settings, told>>
bufferVars  == <<readbuf, messageBuffer>>
lineVars    == <<link, inbox, packets>>
historyVars == <<chosen, edited, untold>>
vars == <<stack, settingVars, serverLogging, bufferVars, lineVars, registered,
          historyVars>>

Store == INSTANCE DurableStore
             WITH Records <- {}, Settings <- Keys, Capacity <- 1, log <- <<>>,
                  taken <- {}, heapless <- HeapMayFail

-----------------------------------------------------------------------------
(* What a buffer holds: a setting, another message, or nothing.            *)
Setting(k, v)  == [kind |-> "config", key |-> k, val |-> v]
Message(kind)  == [kind |-> kind, key |-> Unset, val |-> Unset]
Empty          == Message("nothing")
IsSetting(b)   == b.kind = "config"

(* Frames: what remains to be done, the setting it is about, and for a     *)
(* message that is passed on by its address the buffer it is in.           *)
Frame(at)      == [at |-> at, key |-> Unset, val |-> Unset, in |-> "nowhere"]
About(at, k, v) == [Frame(at) EXCEPT !.key = k, !.val = v]
Register(i)    == [Frame("register") EXCEPT !.val = i]
ReadAndProcess == Frame("read")
Process(b)     == [Frame("process") EXCEPT !.in = b]

Top   == Last(stack)
At(f) == stack # <<>> /\ Top.at = f
Then(f) == [Top EXCEPT !.at = f]
Becomes(frames) == stack' = Front(stack) \o frames

(* A log, before anything else; only the server's logs do more than write. *)
Logs == IF serverLogging = 1 THEN <<Frame("log")>> ELSE <<>>

(* publish() logs, and then sends what is in the buffer by then.           *)
Publish(k, b) == <<[Frame("send") EXCEPT !.key = k, !.in = b]>> \o Logs
PublishPlain  == Publish(Unset, "nowhere")

Buffer(b) == CASE b = "readbuf" -> readbuf
               [] b = "messageBuffer" -> messageBuffer
               [] b = "nowhere" -> Empty

(* For want of heap anything may be lost.                                  *)
Starved ==
    /\ untold' = Keys /\ chosen' = [k \in Keys |-> Unset]
    /\ UNCHANGED edited

-----------------------------------------------------------------------------
(* registerEditableConfig                                                  *)

DefaultOf(k) == IF k \in OwnDefault THEN variables[k] ELSE Default[k]

Using(k, v, logs) == <<About("use", k, v)>> \o logs

(* Mutant: what is found is not looked at. *)
FoundAsDefault(k) == Using(k, DefaultOf(k), Logs)

(* Mutant: the return code is not looked at. *)
NotFoundAsFound(k) == Using(k, settings[k], Logs)

Found(k) == Using(k, settings[k], Logs)

NotFound(k) == Using(k, DefaultOf(k), <<>>)

RegisterNext ==
    /\ At("register") /\ Top.val \in DOMAIN Registered
    /\ LET k == Registered[Top.val]
           next == Register(Top.val + 1)
       IN  \/ /\ Becomes(<<next>> \o (IF settings[k] = Unset THEN NotFound(k)
                                      ELSE Found(k)))
              /\ edited' = edited \ {k}
              /\ UNCHANGED <<chosen, untold>>
           \* no heap to look for it: it does not exist
           \/ /\ HeapMayFail
              /\ Becomes(<<next>> \o Using(k, DefaultOf(k), Logs))
              /\ Starved
           \* no heap for what was found
           \/ /\ HeapMayFail /\ settings[k] # Unset
              /\ Becomes(<<next>> \o Logs)
              /\ Starved
    /\ UNCHANGED <<settingVars, serverLogging, bufferVars, lineVars, registered>>

(* What messageBuffer holds does not matter any more. *)
RegisterDone ==
    /\ At("register") /\ Top.val \notin DOMAIN Registered
    /\ Becomes(<<>>)
    /\ registered' = TRUE /\ messageBuffer' = Empty
    /\ UNCHANGED <<settingVars, serverLogging, readbuf, lineVars, historyVars>>

(* "Now, consume the config-value." *)
Use ==
    /\ At("use")
    /\ variables' = [variables EXCEPT ![Top.key] = Top.val]
    /\ Becomes(<<Then("form")>> \o Logs)
    /\ UNCHANGED <<settings, told, serverLogging, bufferVars, lineVars,
                   registered, historyVars>>

(* Mutant: what is stored already is not told again. *)
FormIfNew ==
    /\ At("form")
    /\ messageBuffer' = Setting(Top.key, Top.val)
    /\ Becomes(IF settings[Top.key] = Top.val THEN <<>>
               ELSE <<Process("messageBuffer")>>)
    /\ UNCHANGED <<settingVars, serverLogging, readbuf, lineVars, registered,
                   historyVars>>

Form ==
    /\ At("form")
    /\ messageBuffer' = Setting(Top.key, Top.val)
    /\ Becomes(<<Process("messageBuffer")>>)
    /\ UNCHANGED <<settingVars, serverLogging, readbuf, lineVars, registered,
                   historyVars>>

-----------------------------------------------------------------------------
(* process_config, of a registration or of an edit by the server           *)

(* What is not a setting is saved as one without a key, a line that hides  *)
(* no other.                                                               *)
Save(b) ==
    IF IsSetting(b)
    THEN /\ Store!Set(b.key, b.val)
         /\ edited' = IF Top.in = "readbuf" THEN edited \cup {b.key} ELSE edited
         /\ UNCHANGED <<chosen, untold>>
    ELSE UNCHANGED <<settings, historyVars>>

ProcessConfig ==
    /\ At("process")
    /\ \/ LET b == Buffer(Top.in)
          IN  Save(b) /\ Becomes(Publish(b.key, Top.in))
       \* no heap for the key
       \/ /\ HeapMayFail
          /\ Becomes(Logs)
          /\ Starved /\ UNCHANGED settings
       \* no heap to copy the other settings
       \/ /\ HeapMayFail
          /\ Becomes(<<Then("save alone")>> \o Logs)
          /\ Starved /\ UNCHANGED settings
    /\ UNCHANGED <<variables, told, serverLogging, bufferVars, lineVars,
                   registered>>

SaveAlone ==
    /\ At("save alone")
    /\ LET b == Buffer(Top.in)
       IN  /\ IF IsSetting(b) THEN Store!SetAlone(b.key, b.val)
              ELSE settings' = [k \in Keys |-> Unset]
           /\ Becomes(Publish(b.key, Top.in))
    /\ Starved
    /\ UNCHANGED <<variables, told, serverLogging, bufferVars, lineVars,
                   registered>>

-----------------------------------------------------------------------------
(* publish(), with QOS0                                                    *)

(* The payload is copied now; a broken line may take it or report it.  The *)
(* count of publishes is left open: any may be the one after which to read. *)
MayRead == variables[Interval] # 0

Send ==
    /\ At("send")
    /\ LET b == Buffer(Top.in)
       IN  told' = IF link = "up" /\ IsSetting(b)
                   THEN [told EXCEPT ![b.key] = b.val] ELSE told
    /\ \/ link \in {"up", "broken"} /\ Becomes(Logs) /\ UNCHANGED link
       \/ /\ link \in {"up", "broken"} /\ MayRead
          /\ Becomes(<<ReadAndProcess>> \o Logs)
          /\ UNCHANGED link
       \/ /\ link \in {"broken", "corrupted"}
          /\ Becomes(Logs) /\ link' = "corrupted"
    /\ UNCHANGED <<variables, settings, serverLogging, bufferVars, inbox,
                   packets, registered, historyVars>>

(* A log of the server's: its publish may read, and it may be the last one. *)
(* What its callers were about to publish or to save is out of date then.  *)
Callers(where) ==
    {stack[i].key : i \in {j \in DOMAIN stack : stack[j].at \in where}}

Logged ==
    /\ At("log")
    /\ serverLogging' \in 0..serverLogging
    /\ \/ Becomes(<<>>) /\ UNCHANGED historyVars
       \/ /\ serverLogging = 1 /\ link # "corrupted" /\ MayRead
          /\ Becomes(<<ReadAndProcess>>)
          /\ untold' = untold \cup (Callers({"send"}) \cap Keys)
          /\ UNCHANGED <<chosen, edited>>
    /\ UNCHANGED <<settingVars, bufferVars, lineVars, registered>>

-----------------------------------------------------------------------------
(* readAndProcessIncomingMQTTPacketsIfAny                                  *)

(* An edit that has been read and whose turn to be saved has not come.     *)
EditWaits(k) ==
    /\ IsSetting(readbuf) /\ readbuf.key = k
    /\ \E i \in DOMAIN stack : stack[i].at = "process" /\ stack[i].in = "readbuf"

(* What is left of the edits when readbuf is cleared: one that waited in it *)
(* is gone, but if it was saved already for a call further up.             *)
EditsLeft ==
    [k \in Keys |-> IF EditWaits(k) /\ settings[k] # readbuf.val
                    THEN Unset ELSE chosen[k]]

(* A registration that has read the setting and not yet saved it: it will  *)
(* overwrite an edit that is read now.                                     *)
Registering(k) ==
    \E i \in DOMAIN stack : stack[i].at \in {"use", "form"} /\ stack[i].key = k

Edit(p) ==
    chosen' = IF IsSetting(p)
              THEN [EditsLeft EXCEPT
                      ![p.key] = IF Registering(p.key) THEN Unset ELSE p.val]
              ELSE EditsLeft

ReadCorrupted ==
    /\ At("read") /\ link = "corrupted"
    /\ Becomes(Logs)
    /\ UNCHANGED <<settingVars, serverLogging, bufferVars, lineVars, registered,
                   historyVars>>

(* Nothing to read, or an error of the socket: either way readbuf has been *)
(* cleared.                                                                *)
ReadNothing ==
    /\ At("read")
    /\ \/ link = "up" /\ inbox = <<>> /\ Becomes(<<>>) /\ UNCHANGED link
       \/ link = "broken" /\ Becomes(Logs) /\ link' = "corrupted"
    /\ readbuf' = Empty /\ chosen' = EditsLeft
    /\ UNCHANGED <<settingVars, serverLogging, messageBuffer, inbox, packets,
                   registered, edited, untold>>

(* "connack" is handleConnOrProvAckGeneric: the data of the client are     *)
(* published before the settings are registered.  The other handlers log   *)
(* before they look at the packet.                                         *)
Handler(p) ==
    CASE p.kind = "config"  -> <<Process("readbuf")>> \o Logs
      [] p.kind = "connack" -> <<Register(1)>> \o PublishPlain
      [] p.kind = "message" -> <<Frame("reply")>> \o Logs
      [] p.kind \in {"enable", "disable"} -> <<Frame("switch")>>

ReadAPacket ==
    /\ At("read") /\ link # "corrupted" /\ inbox # <<>>
    /\ readbuf' = Head(inbox) /\ inbox' = Tail(inbox)
    /\ Edit(Head(inbox))
    /\ Becomes(<<Top>> \o Handler(Head(inbox)))
    /\ UNCHANGED <<settingVars, serverLogging, messageBuffer, link, packets,
                   registered, edited, untold>>

(* serverLoggingTopicMessageArrived *)
Switch ==
    /\ At("switch")
    /\ serverLogging' = IF readbuf.kind = "enable" THEN 1 ELSE 0
    /\ Becomes(IF readbuf.kind = "enable" THEN <<Frame("log")>> ELSE <<>>)
    /\ UNCHANGED <<settingVars, bufferVars, lineVars, registered, historyVars>>

(* oneToOneMessageArrived and MQTTReplyOneToOne *)
Reply ==
    /\ At("reply")
    /\ IF readbuf.kind = "message"
       THEN /\ messageBuffer' = IF messageBuffer = Empty THEN Empty
                                ELSE Message("reply")
            /\ Becomes(PublishPlain)
       ELSE UNCHANGED messageBuffer /\ Becomes(Logs)
    /\ UNCHANGED <<settingVars, serverLogging, readbuf, lineVars, registered,
                   historyVars>>

-----------------------------------------------------------------------------
(* The main loop, the process and the line.                                *)

MainReads ==
    /\ stack = <<>> /\ link # "down"
    /\ stack' = <<ReadAndProcess>>
    /\ UNCHANGED <<settingVars, serverLogging, bufferVars, lineVars, registered,
                   historyVars>>

(* initInstaMsg; the server accepts the connection. *)
Connect ==
    /\ stack = <<>> /\ link = "down"
    /\ link' = "up" /\ inbox' = <<Message("connack")>>
    /\ serverLogging' = 0
    /\ UNCHANGED <<stack, settingVars, bufferVars, packets, registered,
                   historyVars>>

(* initInstaMsg without a connection registers all the same: SIMULATED.    *)
CannotConnect ==
    /\ stack = <<>> /\ link = "down"
    /\ link' = "corrupted"
    /\ stack' = <<Register(1)>>
    /\ UNCHANGED <<settingVars, serverLogging, bufferVars, inbox, packets,
                   registered, historyVars>>

(* A connection is over; what readbuf holds does not matter any more.      *)
NoConnection ==
    /\ link' = "down" /\ inbox' = <<>> /\ packets' = 0
    /\ registered' = FALSE /\ edited' = {} /\ untold' = {}
    /\ readbuf' = Empty /\ messageBuffer' = Empty
    /\ chosen' = EditsLeft
    /\ UNCHANGED <<settings, told>>

(* clearInstaMsg, where it does not exit.                                  *)
Reconnect ==
    /\ stack = <<>> /\ link = "corrupted"
    /\ NoConnection
    /\ UNCHANGED <<stack, variables, serverLogging>>

(* The process ends for one of many reasons, and is started again.         *)
Restart ==
    /\ NoConnection
    /\ stack' = <<>> /\ variables' = First /\ serverLogging' = 0

Arrives(p) ==
    /\ link = "up" /\ packets < MaxPackets
    /\ inbox' = Append(inbox, p) /\ packets' = packets + 1
    /\ UNCHANGED <<stack, settingVars, serverLogging, bufferVars, link,
                   registered, historyVars>>

LineBreaks ==
    /\ link = "up"
    /\ link' = "broken"
    /\ UNCHANGED <<stack, settingVars, serverLogging, bufferVars, inbox, packets,
                   registered, historyVars>>

Init ==
    /\ stack = <<>> /\ variables = First
    /\ settings = [k \in Keys |-> Unset] /\ told = [k \in Keys |-> Unset]
    /\ serverLogging = 0 /\ readbuf = Empty /\ messageBuffer = Empty
    /\ link = "down" /\ inbox = <<>> /\ packets = 0 /\ registered = FALSE
    /\ chosen = [k \in Keys |-> Unset]
    /\ edited = {} /\ untold = {}

Packets == {Setting(k, v) : k \in Keys, v \in Values}
             \cup {Message(kind) : kind \in {"enable", "disable", "message"}}

Next ==
    \/ RegisterNext \/ RegisterDone \/ Use \/ Form
    \/ ProcessConfig \/ SaveAlone
    \/ Send \/ Logged
    \/ ReadCorrupted \/ ReadNothing \/ ReadAPacket \/ Switch \/ Reply
    \/ MainReads \/ Connect \/ CannotConnect \/ Reconnect \/ Restart
    \/ \E p \in Packets : Arrives(p)
    \/ LineBreaks

Spec == Init /\ [][Next]_vars

-----------------------------------------------------------------------------
(* Properties                                                              *)

Optional == Values \cup {Unset}

(* The types; the program never uses anything but a value.                 *)
ConfigTypeOK ==
    /\ variables \in [Keys -> Values]
    /\ {settings, told, chosen} \subseteq [Keys -> Optional]
    /\ serverLogging \in 0..1
    /\ {readbuf, messageBuffer} \subseteq
         Packets \cup {Message(kind) : kind \in {"nothing", "connack", "reply"}}
    /\ link \in {"down", "up", "broken", "corrupted"}
    /\ packets \in 0..MaxPackets /\ Len(inbox) <= MaxPackets + 1
    /\ registered \in BOOLEAN
    /\ edited \cup untold \subseteq Keys

Settled == stack = <<>> /\ link = "up" /\ registered

(* "publish the config on the server, so that the device and server remain *)
(* in sync" (config.c:85): between the calls the server shows what is      *)
(* stored and the program uses it, but for edits of this connection, which *)
(* are used from the next one on.  The exception is a setting whose        *)
(* publish was interrupted by its own log.                                 *)
InSync ==
    Settled => \A k \in Keys \ untold :
        told[k] = settings[k] /\ (k \in edited \/ variables[k] = settings[k])

(* What the server chose last, in an edit that was read, is stored, or     *)
(* waits in readbuf to be stored, whatever is registered, restarted or     *)
(* edited besides.  The exceptions: handleConfigReceived logs before it    *)
(* saves, and a read in that log, or the end of the process, takes the     *)
(* edit away; an edit that arrives in the registration of its own setting  *)
(* is overwritten by the value read before; and lack of heap.              *)
ChoiceKept ==
    \A k \in Keys :
        \/ chosen[k] \in {Unset, settings[k]}
        \/ EditWaits(k) /\ readbuf.val = chosen[k]

=============================================================================
