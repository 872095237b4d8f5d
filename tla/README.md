# A formal model of the InstaMsg C client

InstaMsg-C is a client for constrained devices: it keeps an MQTT-like
connection to the InstaMsg server, publishes messages with a delivery guarantee
that survives loss of the network and of power, carries out commands of the
server (reboot, file transfer and upgrade, configuration, logging, media) and
resets itself when something hangs. This directory models its own logic in
TLA+, checks small instances with TLC and proves theorems with TLAPS. The
vendored code under `src/third_party` is out of scope.

The program is written for single-threaded devices: one thread runs everything
but the watchdog. What makes it hard is re-entrance (`publish()` reads packets
while it waits, and packet handlers publish), global state shared by nested
calls, resets at any moment, and files rewritten in several steps.

## 1. Inventory

| Component | State | Operations | Hard behaviour | Correct when |
|---|---|---|---|---|
| Delivery core, `common/instamsg/driver/instamsg.c` | `pubAckMsgId`, `waitingForPuback`, `pubAckRecvAttempts`, `lastPub*`, `resultHandlers`, `msgSource`, `rebootPending`, `connected`, `socketCorrupted` | `start`, `publish`, `waitForPubAck`, `readAndProcess...`, `fireResultHandlerAndRemove`, `send_previously_unsent_data`, `saveFailedPublishedMessage` | nested publishes, late and lost acknowledgements, exits inside handlers, retries after restart | no message is lost but as accounted for, none is duplicated inside the device, stored ones are sent, a requested reboot happens |
| Persistent storage, `device/linux_desktop/instamsg/device_data_logger.c`, `device_config.c` | `data.txt`, `config.txt`, one shared temporary file | save and fetch a record; save, read and delete a setting | a crash between two file operations; the file shared by both | every operation is all or nothing; a record is handed out once |
| Watchdog, `watchdog.c`, `device_watchdog.c` | five volatile variables shared by two threads | `watchdog_reset_and_enable`, `watchdog_disable`, `watchdog_func` | data races | a hung call is reset, a call in time is not |
| Keepalive (in `instamsg.c`) | `pingReqResponsePending`, `pingRespAttempts` | `sendPingReqToServer`, `waitForPingResp`, PINGRESP | a counter that adds up over days | every wait for an answer ends |
| Connection and provisioning (in `instamsg.c`) | `connected`, `sendPacketIrrespective`, client id, attempts; secret, certificate and key on the storage | CONNECT, CONNACK, PROVACK, `handleCertReceived`, `clearInstaMsg` | a permission that outlives its packet; restart half way; statics lost with the exit | nothing but CONNECT leaves before the CONNACK; what the server issued is kept; the server learns of it |
| Subscriptions (in `instamsg.c`, `mqtt/src`) | message handlers | `subscribe`, SUBACK | slots keep the ids of earlier subscriptions; signed return code | what is granted has a handler |
| Configuration from the server, `config.c` | variables, their settings, `readbuf`, `messageBuffer` | `registerEditableConfig`, `process_config` | an edit read inside the log of a registration; buffers passed on by address | program, storage and server agree, and the server's choice stays |
| File transfer and upgrade, `upgrade.c`, `httpclient.c`, `handleFileTransfer` | the binary and the downloaded file, the mark in the settings, one HTTP socket, one response, one open file | download, upload, delete, `check_for_upgrade` | a crash between removal and copy; transfers nested in each other's pings | only whole files are marked, a marked one comes to run, and a failed transfer is not acknowledged as one that succeeded |
| Own heap, `sg_mem.c` | `currentBytesUsed`, the live blocks | `DEFAULT_MALLOC`, `DEFAULT_FREE` | frees that are not in reverse order, because calls nest | live blocks are disjoint |
| Logger, `log.c` | `serverLoggingEnabled`, `serverLogsStartTime` | `info_log`, `error_log`, `debug_log`, `serverLoggingTopicMessageArrived` | recursion through `publish()`; reads inside a log | it ends, and after ten minutes so do the logs |
| Socket and packet reading, `readPacket`, `socket.c`, `device_socket.c` | `readbuf`, `socketCorrupted`, `errno`, the SSL engine | `socket_read`, `secure_socket_read`, `readPacket` | bytes in pieces, time-outs inside a packet, the end of a connection | what is handed over is what was sent; an end is noticed |
| Media, `media.c` and `instamsg.c` | two flags | media topics | reply time-out | one stream at most |
| Packet encoding, `mqtt/src` | none | remaining length, fields, topic match | boundaries, width of an int | decoding inverts encoding |
| Others | | time, GPS, AT, JSON, hex, globals, applications | I/O and conversions | |

Interactions: the delivery core calls the storage (log and settings), the
socket layer, the heap and the logger; the logger, the configuration and the
packet handlers call back into `publish()`, and `publish()` into the reading of
packets; every blocking call of the core is guarded by the
watchdog; the exit of the process (`exitApp`, `resetDevice`, the watchdog, a
power cut) ends everything but the files, and the supervision script
(`setups/pi/monitor.sh`) starts it again.

`PROJECT.json` lists every component with its status and every hazard with the
line where it bites and the properties that watch over it.

## 2. Modules

| Module | Content |
|---|---|
| `StoreAndForward` | abstract: what the driver promises for a message with guarantee |
| `Delivery` | the delivery core, with the server, the network and crashes |
| `MCDelivery` | instances of it |
| `DeliveryProofs` | TLAPS proofs about it, the refinement of `StoreAndForward` among them |
| `DurableStore` | abstract: a rolling log and a map of settings, operations all or nothing |
| `Storage` | the files of the Linux port, one action per change of a file |
| `MCStorage` | instances of it |
| `StorageProofs` | TLAPS proofs about it, the refinement of `DurableStore` among them |
| `Watchdog` | both threads of the watchdog, one action per access to a shared variable |
| `MCWatchdog` | instances of it |
| `WatchdogProofs` | TLAPS proofs about it |
| `Upgrade` | file transfers, nested, and the replacement of the binary at start-up |
| `MCUpgrade` | instances of it |
| `UpgradeProofs` | TLAPS proofs about it |
| `Session` | provisioning, connection, subscriptions, keep-alive, and the server |
| `MCSession` | instances of it |
| `SessionProofs` | TLAPS proofs about it |
| `PacketStream` | abstract: packets are handed over whole and in order until the connection is given up |
| `PacketReader` | `readPacket` over `recv`, directly or through the SSL engine, one action per `recv` |
| `MCPacketReader` | instances of it |
| `PacketReaderProofs` | TLAPS proofs about it, the refinement of `PacketStream` among them |
| `SgHeap` | the allocator of ports without `malloc`, as operators on a heap |
| `Calls` | logs, publishes, reads and packet handlers nested in one another, over `SgHeap` |
| `MCCalls` | instances of it |
| `CallsProofs` | TLAPS proofs about it |
| `Config` | registration and editing of settings, over `DurableStore` |
| `MCConfig` | instances of it |
| `ConfigProofs` | TLAPS proofs about it |

How they compose: `Calls` extends `SgHeap`; `Config` instantiates
`DurableStore`, which `Storage` is shown to implement, so that what holds on the
abstract storage holds on the files; `Delivery`, `Storage` and `PacketReader`
implement `StoreAndForward`, `DurableStore` and `PacketStream`. `Delivery` and
`Calls` look at the same calls with different data: the first at messages,
acknowledgements and restarts, the second at what every call shares with the
calls it interrupts.

### Delivery

`calls` is the stack of `publish()` calls that have not returned. The driver
has one thread and gives control away only inside a read, so one action is one
packet, or one `readPacket()` that returns nothing together with what its
callers do until the next read. Every other action is one stage of a pass of
the main loop of `start()`: `EnterLoop`, `ConnectionWaitCycle` /
`MainReadEnds`, `ResendRecord` / `NothingToResend`, `AfterResend`,
`RemoveExpiredResultHandlers`, `TimedPublishes` (network statistics, PINGREQ
and GPS location in this order, each due or not), `RunBusinessLogic` /
`SkipBusinessLogic`, `SendFirstGpsLocation` (once, after the first run),
`AfterBusinessLogic`, `EndOfLoop`. `Publish` is an operator that the actions
share, as `publish()` is a function that its callers share.

`ackSeen` and `handed` are history variables; `delivered` is what the server
has; `stable` is a horizon after which network, server and device behave, for
the liveness properties only. What is abstracted: topics and payloads are one
model value; a failed allocation and a failed write are choices; the number of
seconds between two passes is left open (so what is due by the clock may or
may not be due); of the several QOS0 publishes after a CONNACK, the notification of a
new secret among them, one compulsory read is kept; what the application's
`onConnectCallback` publishes is that of a command read right after the CONNACK
(its call in a SIMULATED connection is left out); `waitForPingResp` ends with an answer or with a requested reboot,
its cycles are not counted. `ENABLE_MESSAGE_ACK` is 1.

The promise of `StoreAndForward` holds where packet handlers publish without
guarantee. A failed allocation is an input of it (`MayStarve`, `starved`): what
may be lost then is `Starve`, and nothing else. Where handlers publish with guarantee, `LossAccounted` says exactly
what else can be lost.

### Storage

`pc` is the operation in progress, `unread` the lines of the file it still has
to read. `make_the_switch` is `RenameOver`. `copyFile` is two steps, since a
crash can leave the temporary file empty or partial. Start-up (`Restart`)
removes the temporary file, which is what makes the whole design work: its
mutant breaks both `TypeOK` (lines of one file in the other) and
`AllOrNothing`. Sizes in bytes are counted in records.

### Watchdog

The main thread sets up a guard in four steps, in the order of the code, and
disables it in two; the other thread tests, loads, stores, compares, marks and
resets. `elapsed` counts the ticks of a guard and `raced` records that a tick
fell into its set-up. Negative times are one value. `sync_time_through_NTP`
leaves its guard enabled on failure, which is an action. Both threads log before
they reset the device. With the server's logs on that log is published, and
`sendPacket()` sets up a guard of its own: in the driver's thread it is one like
any other (`reporting`); in the watchdog's thread (`log.*`) nobody counts it
down, and its write may hang like any other, so that only `LogWritten` is not
fair.

### Upgrade

`transfers` is the stack of `handleFileTransfer()` calls, the innermost first;
`http`, `fs` and `status` are the globals they share (`httpSocket`, the static
`FileSystem` of `device_upgrade.c`, `httpResponse.status`). A file is a prefix
of what is transferred, counted in chunks; `OTA_PING` chunks lie between two
pings, at which any command may begin a transfer inside. A deleted file that is
open stays open without a name (`"unlinked"`). `fclose` of a stream that is
closed is undefined: the process goes on or dies (`ClosedTwice`). `spoiled` and
`cut` record the ways in which the code does not protect a marked file or
the binary: another transfer over a file that is marked, or about to be, and a
power cut while the binary is replaced. Which file the server names makes no difference to a
download: every one becomes the next binary. A deletion in the model takes the
downloaded file; the code deletes whatever file the server names
(`instamsg.c:1252-1275`), and that a server names the binary or the settings is
left out.

Builds with SSL reset the device in `release_socket` (`device_socket.c:389`), so
there no transfer is ever acknowledged; `ExitsOnRelease` covers both.
`LengthMayBeMissing` is FALSE in the run: a response without `Content-Length` is
taken for an empty file and marked (`OnlyWholeImages` then fails). When the
length of a file is a multiple of `OTA_PING_BUFFER_SIZE`,
`handleDownloadedBytesBatch` pings after the last byte too
(`httpclient.c:458-468`). A transfer nested in that ping may delete the file, or
replace it and fail, and `downloadFile` then marks what is left, or nothing
(`httpclient.c:627`, "Mark that file was downloaded successfully."):
`DownloadDone` sets `spoiled` when the stream it closes is no longer its own.
The deletion of the mark is one step here because `Storage` shows that deletions are all or nothing; it assumes that there
is another setting, which the connection that brought the command has saved.

### Session

One process after the other, each with its connections. `pc` says where the
thread is: down, in `initInstaMsg`, in the main loop, in `waitForPingResp`, or
between the two writes of a certificate. `SendPacket` is `sendPacket()` with its
one-packet permission. `ServerAnswers`, `ServerNotified` and
`ServerCommands` are the server; before `stable` it may also refuse or
be silent. `certificate` is the part that is stored of what was issued last;
`issued` is a history variable that a crash or a lack of heap during the saving
resets, since the code then keeps only the secret. The secret is a setting in
`config.txt`, while certificate and key have files of their own
(`device_socket.c:413-434`). Each setting that is saved, in the registration
that follows a CONNACK or a failed attempt to connect, or by an edit of the
server, may find no heap and then drops the others (`SaveSetting`, as `SetAlone`
of `DurableStore`); `forgotten` records that the secret went this way. The
lookup of `MQTTConnect` may find no heap either (`Found`): the device then asks
to be provisioned although it has a secret. The JSON fields of a PROVACK that
find no heap are left out. `noConnect` records an
`MQTTConnect` without heap for the secret: with a permission left over from a
failed connection, one packet can then pass before any CONNECT.

`SignedChar` says whether 0x80 can be recognised at `instamsg.c:2365`; the run
takes the compiler that can, since otherwise no handler is ever removed.

### PacketReader

`reading` is where `readPacket()` is, `need` and `buffer` are the read of the
socket it has asked for, `want` and `bytes` the `socket_read()` below it, which
without SSL is the same read. `Recv` takes any part of what has arrived. With
SSL the engine (`fed`, `read`) turns records into plain text; as far as
`socket.c` can see, it asks for the rest of a record's header or of its body.
`lost` says that a time-out made `read_pending_data_from_network` drop bytes of
a record, after which the engine is out of step; `fooled` that a `recv` of 0 was
taken for data because `errno` was 0 (`device_socket.c:286`); both are what the
properties except. `rem_len` and `multiplier` have the width of an int
(`Width`). When a read fails after the header, `readPacket()` returns SUCCESS,
that of its last read, with a packet that is cut off: `GiveUpInAPacket` of
`PacketStream` allows that for the packet under way and no other.

### Calls and SgHeap

`stack` is the stack of C calls, a frame for each call that still has something
to do. An action is one call's way to its next callee, so that a packet can be
read at every log of every call. `contents` is the number of the packet in
`readbuf`, `heap` the heap with its live blocks in the order of their
allocation, `age` the seconds of the server's logs as the code counts them and
`since` as they are. `publishCount` decides when a publish reads, as in the
code; logs count too. Allocations fail when the heap is full, not at will. When
a block is freed out of order (`misused`) two blocks may overlap and what the C
program does is not defined: the behaviour ends there with a restart.

A handler whose packet was overwritten by a nested read goes on with what
`readbuf` holds by then: `Body` and `SwitchTo` leave open what another packet
says.

Left out: the settings (`Config`), and handlers other than those of one-to-one
messages and of the logging topic, the guaranteed publish inside
`handleFileTransfer` with them; the blocks that the scanning of JSON
(`json.c:62-73`) and `send_previously_unsent_data` (`instamsg.c:2020-2054`)
allocate and free around their own calls; debug logs, which are never published,
with what `processServerLoggingMetadata` does in them (`log.c:168`): the notice
may go out with one of them as well. `HeapSound` and `RecursionBounded` say
nothing of these.

### Config

Module `Config` has the same stack with the frames that matter to a setting.
`told` is what the server was told last; `chosen` is what the server chose last:
it is set when the edit is read (`Edit`), and Unset where the code lets go of
it. That is when `readbuf` is cleared while the edit waits in it to be saved
(`EditsLeft`, `EditWaits`), when it arrives in the registration of its own
setting (`Registering`), and for want of heap. Two settings
stand for all: the interval of the compulsory reads, which is itself a setting
and switches the reads inside a publish on, and one whose default is the value
of its variable. Any publish may be the one that reads. The storage is that of
`DurableStore`, `SetAlone` included. Failed allocations inside the scanning of
JSON are left out.

## 3. Runs

| Run | Question | Bounds |
|---|---|---|
| `base` | Does the driver keep its promise without guaranteed publishes from handlers? | 2 messages, log of 2, wait of 2 cycles, 5 packet ids (wrap), 2 nested calls, re-initialisation without exit, failing allocations |
| `nested` | And with them? | 2 messages and 1 file acknowledgement, handler table of 1, handlers that expire in one pass |
| `live` | Do stored messages and requested reboots make progress? | as base, no commands, allocations succeed, exit on clear |
| `nullhandler` | Violation: a time-out although the PUBACK was read | 1 message, 1 file acknowledgement |
| `storage_crash` | Is each storage operation all or nothing? | 3 records, log of 2, 2 settings, 2 values, any number of crashes, failing allocations |
| `watchdog` | Is what the watchdog does right unless a tick races with a set-up? | guards of 2 and 4 (immediate) and 3 seconds, the server's logs on and off |
| `upgrade` | Are only whole files marked, and is the binary replaced for good? | files of 3 and 1 chunks, a ping after each, the last included, 3 nested transfers, any number of crashes |
| `upgrade_ack` | Violation: a download that failed is acknowledged as done | the same, with a ping after 2 chunks |
| `reader` | Do the bytes become the packets that were sent? | 2 packets, one with 3 digits of length and one without payload, digits of base 2, an int of 5 bits, records with 2 bytes in front, with and without SSL, 1 try (as in `globals.h`) |
| `calls` | Does the nesting of logs, publishes, reads and handlers end, and what does it do to shared buffers and to the heap? | 3 packets and 1 guaranteed message a connection, logs for 2 seconds, a read after 3 publishes, heap of 12 (topic 1, payload 2, header 1), wait of 2 cycles |
| `config` | Do program, storage and server agree on the settings? | 2 settings, 2 values, 2 packets a connection, any number of connections and restarts, failing allocations |
| `session` | Does the device get and keep its identity, its connection and its handlers? | 2 topics, 2 packet ids, 2 slots, 2 packets under way, 2 ping cycles, 1 pass without connection |

Two messages are enough for one to wait while another is sent or stored, and a
log of two for the oldest record to be dropped. Packet ids wrap after 5, more
than can be in flight. Two nested calls are one interruption of a wait, and
with the compulsory reads of plain publishes the interruption can be anywhere.
`MaxCalls` and `MaxToClient` bound the commands the server sends, and nothing
the program does. The constant `MAX_DATA_RECORDS > 1` of `Storage` is assumed
because a log trimmed to nothing leaves no temporary file to rename.

Ten runs pass and two end in a counterexample. In `calls` a heap of 12 is full
within the deepest nesting, so that allocations do fail, and three packets
are enough to switch the logs on, to have one packet handled, and to have a
third read inside it. In `config` two packets are an edit that arrives in the
handling of another packet. Both have a stack that is bounded by the packets of
a connection and, in `calls`, by `RecursionBounded`; no bound cuts it off. In
`reader` a base of 2 makes the length take three digits with four bytes of
payload.

Fairness: the client's thread runs (`WF(Client)`); time passes, so that the
business logic is due again and again (`SF(RunBusinessLogic)`, the interval of
`start()` being finite); a stable server answers. In `Watchdog` only the
watchdog's thread is fair: that the driver may hang is what it is for. In
`Storage` an operation in progress goes on. In `Upgrade` each step of the
start-up is strongly fair, which says that power lasts long enough often enough;
a check of the mark without heap (`CheckForUpgrade` with the mark set) is never
due. In `Session` the thread goes on and the script restarts the process;
rebooting, giving up a socket and re-initialising are strongly fair, because
every pass of the loop comes to them whatever it does before, and a stable
server answers. Nothing is assumed of the network before `stable`. In `PacketReader` the driver
reads again and again, as its main loop does, and what is on the network
arrives: `WF(Reader)` and `WF(Arrive)`; that a connection ends is not assumed.
`Calls` and `Config` state safety only.

## 4. What the checks show

* `KeepsPromise` (refinement of `StoreAndForward`): a message is let go only
  when the server has it, when it is stored, or when the process ends.
* `LossAccounted`: with guaranteed publishes from handlers there is one more
  way: the inner publish takes over the globals of the outer wait
  (`instamsg.c:2842`).
* `WaitOwnsMessage`: the globals describe the innermost guaranteed call, so
  that a time-out never stores NULL or another call's message.
* `SingleCustodian`: a message is never both stored and held.
* `StoredWillBeResent` and `StoredIsDelivered`: the switches of the resending
  never end in a position that forgets stored records.
* `FullWait`, `TimeoutMeansUnacked`: a wait has its full number of cycles, and
  only an unacknowledged message is stored again.
* `AllOrNothing` (refinement of `DurableStore`) and `TrimEnds` for the storage.
  The one exception is stated in `DurableStore` as `SetAlone`: without heap an
  operation on a setting loses the others, never a record. No record is stored
  twice or handed out twice.
* `ResetIsDue`, `ExpiryNoticed`, `HangIsReset` for the watchdog. `HangIsReset`
  holds as long as the server has not asked for logs.
* `DownloadOwnsFile`: transfers may nest, but one that still has its connection
  has its file too, because the inner one closes the socket of the outer.
* `OnlyWholeImages`, `UpgradeSettles`: what is marked is whole and comes to run,
  but for the ways the history variables name.
* `ReadsStream` (refinement of `PacketStream`): however the bytes arrive, what is
  handed over is what was sent, in order, and only the packet under way when the
  connection is given up may be cut off. `EndIsNoticed` and `ArrivedIsRead`: the
  reader does not miss the end of a connection, nor stops short of data, but for
  `fooled` and `lost`.
* `RecursionBounded`: a log that fails to be published is logged again, and only
  the end of the ten minutes stops that: the depth is bounded by the seconds for
  which the server gets logs. `LogsInWindow`: they do end.
* `PayloadIntact`: as long as the server has not asked for logs, a handler finds
  in `readbuf` the packet it was called for. `HeapSound`: blocks are freed in
  reverse order, so that none overlap, but for those of a guaranteed message
  whose PUBACK is read while a handler has allocated more.
* `InSync`: between the calls the server shows what is stored and the program
  uses it, but for a setting whose publish was interrupted by its own log.
* `ChoiceKept`: an edit that was read is stored, or waits in `readbuf` to be
  stored, and then no restart, registration or other edit undoes it. It is
  lost when the log of `handleConfigReceived`, which comes before the saving,
  reads again, when the process ends there, when it arrives in the
  registration of its own setting, and for want of heap.
* `ConnectFirst`, `CertificateKept`, `HandlerForGranted`, `SecretIsConfirmed`,
  `PingEnds`, `ConnectionEnds` for the session. `CertificateKept` excepts a
  failure of power or heap between the steps that save what was issued, and, for
  the secret, another setting saved without heap.

Findings (each has a run that TLC ends with the counterexample):

1. The acknowledgement of a file transfer with QOS1 has no result handler; its
   PUBACK is ignored, the message is stored and sent again after a reboot
   nobody needed (`nullhandler`). With QOS2 a PUBREC attaches a handler in any
   case (`instamsg.c:2503`), and the PUBCOMP ends the wait.
2. The acknowledgement of a download only looks at the status line of the
   response, so a download that broke off is reported as one that succeeded
   (`upgrade_ack`).

Other things met while modelling. No run states them as violations; where a
property holds only with an exception, the exception is one of these.

Delivery and the main loop:

* `rebootPending` is only looked at where the business logic runs
  (`instamsg.c:3222`, `3246`). Three of the example applications have none: for
  them "device will be rebooted" (`instamsg.c:2799`) never comes true.
* `pingRespAttempts` is not reset by a PINGRESP, so misses of different pings
  add up to a reboot.
* When the payload of a message cannot be allocated, its topic is not freed
  (`instamsg.c:2848-2853`) and nothing is stored: `Starve`.
* The acknowledgement of an upload always has status 0, because the code tests a
  local response it never fills (`instamsg.c:1279`, `1319`).

Logs for the server:

* `oneToOneMessageArrived` and `handleConfigReceived` log the payload before they
  look at it (`instamsg.c:408-409`, `505-506`). That log is published, a
  publish may read, and a read clears `readbuf`: while the server gets logs,
  messages and edits can be lost or replaced by the packet that came after.
* A PUBACK read inside a handler frees the blocks of the guaranteed message
  below those of the handler. `DEFAULT_FREE` then moves the end of the used part
  into a live block (`sg_mem.c:131`).
* "so that the device and server remain in sync" (`config.c:85`): the publish
  that tells the server takes its payload by address, logs first, and that log
  may read. The server is then told nothing, or of another packet, until the
  next connection (`untold` in `InSync`).
* A log announced as the last one may be followed by more, when the server asks
  for logs again while the notice is sent.
* The thread of the watchdog publishes before it resets, and that write may
  hang: the device is then not reset at all, where `watchdog.h:70` speaks of an
  immediate restart.

The watchdog: `watchdog = 1` is set before `watchdog_time = n` without a lock
(`device_watchdog.c:97-98`) while the other thread decrements with a load and a
store. A tick in between can make a guard run for less than the "Number of
seconds for which the watchdog must be run" (`watchdog.h:57`); `raced` marks such
guards.

Reading: after the header byte a failed read makes `readPacket()` return
SUCCESS, with `fixedHeader` not filled in (`instamsg.c:703-723`). `errno` is read
after every `recv`, also a successful one, but is only set by a failed one: the
end of a connection is data to a process without an earlier error
(`device_socket.c:286`).

Settings: an edit that arrives in the log of its own setting's registration is
overwritten by the value read before (`config.c:112-178`). An edit is used from
the next connection on. Without heap a setting that exists is taken for one that
does not, and is overwritten by its default (`device_config.c:78`,
`config.c:112`).

Session: on compilers with a signed `char` a refused subscription is never
recognised; a subscription that could not be sent keeps its slot, and with a
full table a granted subscription has no handler; once packet ids wrap, a
refusal can clear the slot of another subscription; a device that loses power
between saving the secret and the certificate works without a certificate until
the server sends a new one; and a setting that is saved without heap takes
the secret with it (`device_config.c:78-85`), after which the device asks to be
provisioned again, as it does when there is no heap to look the secret up
(`instamsg.c:2545`).

## 5. Proofs

Eight modules prove theorems of the specifications the runs check, for every
value of the constants that satisfies the `...Assumption` of the module, and
whatever bounds (`MaxCalls`, `MaxToClient`, `MaxTransfers`, `MaxPackets`, ...)
are chosen. Each theorem rests on an inductive invariant; `THEOREM` statements
are the results, `LEMMA`s lead to them: what every operator that actions share
does, then one lemma for each action or group of actions, then the invariant.

What is assumed of constants says that different things are different (a
message is not `NoMsg`, a missing file is not a sequence of lines, no setting is
registered twice, as in `handleConnOrProvAckGeneric`) and that limits are
positive. Eight theorems have a hypothesis of their own:

| Hypothesis | Theorems | Why |
|---|---|---|
| `MainLoopOnly`: no command makes a handler publish with guarantee | `WaitIsFull`, `TimeoutIsUnacked`, `PromiseIsKept` | With one the statement is false, finding 1 and `LossAccounted`; without one it is the driver whose application publishes from its business logic |
| `MAX_MESSAGE_HANDLERS > 2`, `MAX_PACKET_ID > 2` | `TimeoutIsUnacked`, `PromiseIsKept` | 50 in `device_defines.h:103`, 10000 in `instamsg.h:42` |
| `~HeapMayFail` | `WaitIsOwned`, `LossIsAccounted` | Without heap the wait has no message to own, and the message is gone (`Starve`) |
| `FewerThanIds`: fewer messages than packet ids | `LossIsAccounted` | When ids come round between two calls of `initInstaMsg`, an answer may be taken for that to a later message with the same id; there are 10000 |
| `ShortPackets`: payloads of less than half of `Width` | `PacketsAreAStream` | A longer one does not fit into `rem_len`; the protocol allows 4 digits of 7 bits, an int has 31 |
| `~LengthMayBeMissing` | `ImagesAreWhole` | A response without a length is taken for an empty file |
| `MaxIds <= MAX_MESSAGE_HANDLERS` | `GrantedIsHandled` | As many subscriptions as there are slots, counted from the last `initInstaMsg`: a failed one keeps its slot, and ids that wrap are those of others |

`DeliveryProofs`

* `TypeCorrect`: `TypeOK` is inductive.
* `StoredWillBeResentAlways`: inductive on its own: the only step that adds to
  the log also asks for a reboot, and the only ones that turn `msgSource` to
  `GENERAL` see an empty log or a requested reboot.
* `MessagesAreInOnePlace` (`SingleCustodian`): needs `CustodyInv`, which says of
  every message in the log or held that `publish()` was given it, so that a new
  one is neither, and `CommandsInv`, which says the same of the acknowledgements
  that commands under way will ask for.
* `WaitIsOwned` (`WaitOwnsMessage`): `OwnedInv` says which call of the stack the
  globals belong to, the last with guarantee. What comes back to an outer call
  whose message was taken over finds the wait ended.
* `WaitIsFull` (`FullWait`): when the main loop alone publishes with guarantee,
  such a call is the first of the stack and the only one (`SoleInv`), so the
  global counter is its own (`CycleInv`).
* `TimeoutIsUnacked` (`TimeoutMeansUnacked`): the handler of the PUBACK must be
  in the table all through the wait. `TableInv` bounds what else can be there:
  until the reboot that a time-out asks for, a pass of the loop publishes twice
  at most.
* `PromiseIsKept`: the refinement of `StoreAndForward`; every step is one of its
  steps or a stutter. The abstract driver holds `lastPub` only while a
  guaranteed call is on the stack. That a PUBACK acknowledges the message that is
  held, and not an earlier one with the same id, needs `FlightInv`: which ids can
  be on the network in each part of a pass.
* `LossIsAccounted` (`LossAccounted`): here handlers may publish with guarantee
  at any depth, so that any number of answers can be on their way. A message
  that is held and neither stored nor taken over by another call leaves only
  when its PUBACK is read, so it must be shown that the PUBACK is its own.
  `IdInv` counts: ids that were used since `initInstaMsg` and messages that may
  still be published before the next are together no more than the messages
  there are, because a record that is put back asks for a reboot and is not sent
  again before it. So no id is used twice on a connection. `TrafficInv` says
  that nothing on the network has an id that is still to come, and under the
  last id nothing but the message held and answers to it; `KeepInv` that a
  message is held only while it is waited for. TLC checks the three on the
  bounds of run `nested`.

`SessionProofs`

* `TypeCorrect`, with the type invariant in parts.
* `ConnectIsFirst`: who may write on a connection (`ConnectInv`): after the
  server has accepted it, or with the one-packet permission, which outlives an
  attempt to connect only on a socket that is given up.
* `CertificateIsKept`: a device the server accepts has its secret, or has lost
  it to a setting saved without heap (`SecretKnown`), so a certificate never
  comes without one.
* `GrantedIsHandled`: an id has one slot, and is on its way once, in the
  subscription or in its answer (`IdsInv`), and no refusal under way has the id of
  a granted slot (`SlotsInv`). That SUBACKs may come late, and after a slot was
  cleared, is in it.

`UpgradeProofs`: `UpgradeInv` says who owns the open stream (`Owner`: the
innermost download, whose bytes so far are all that the file has) and what a stack of
transfers looks like when one has been left without its connection.
`TypeCorrect`, `StreamIsOwned` and `ImagesAreWhole` follow; for the last, the
replacement of the binary is described step by step (`CopyInv`).

`StorageProofs`: `StorageInv` says for each `pc` how the temporary file, the
lines not yet read and the file itself make up the old or the new content.
`TypeCorrect` is part of it, and `StorageIsDurable` is the refinement of
`DurableStore`: each step is a stutter but the rename, or the deletion, that
makes an operation happen. So what `Config` assumes of its storage is proved
of the files of the Linux port.

`ConfigProofs`: `FramesInv` describes the stack (one registration, a log at the
top, what a frame has above it). `ChoiceIsKept` adds that a setting on its way
through a registration is not one the server has changed since (`ChoiceInv`),
that an edit which waits in `readbuf` is the choice on record (`WaitingKept`), and
that none waits below a registration, because a connection reads none before it
registers (`EarlyInv`);
`ServerIsInSync` adds what every frame knows of the setting it carries, and that
each setting is in sync, or on its way, or still to be registered (`SyncInv`).

`CallsProofs`: `CallsInv` is one invariant of six parts, as its parts need
each other. `StackOK` is the shape of the stack; `CountInv` says that packets
read, about to be looked at and still to come are no more than were sent.
`HeapInv` says that the live blocks are those of the message that waits,
followed by those of each frame, in the order of the stack: an allocation by the
frame on top goes to the end, and what it frees is there. `PayloadInv` says that
nothing is read above a handler until logs are switched on, and `WindowInv`
that the seconds are counted from that moment, at each place where a log is
written or published. `TypeCorrect`, `PayloadIsIntact`, `HeapIsSound` and
`LogsAreInTime` follow. `RecursionIsBounded` needs more, because the property
counts frames and says nothing of time. `DepthInv` compares the two: the logs on
the stack that have failed are no more than the seconds that have passed since
the server's last wish (`Spent`), plus a full interval for each wish before it
(`Earlier`). A log that fails has cost a second before it is logged again, so
the call at the top is allowed one failure more exactly where that second is
counted already (`MayFail`). A new wish sets the seconds back to 0 and so adds
an interval for everything below it; the logs that wait for a notice to go out
when this happens were begun in the intervals before (`Below`). A handler frees two or three blocks in a row: `FreeAll`
is written as three `FreeNth`, one for each block, so that there is no recursion
in it and a proof can take the blocks one by one.

`WatchdogProofs`: `IInv` is the type invariant with `NotEarly` (no more time was
taken off than has passed) and `NotLate` (until the expiry is on record all of
it was). Neither follows from the properties alone: the invariant must say for
each step of the other thread which copy of the time is valid.
`ResetOnlyWhenDue`, which covers the guard of the log as well, and
`ExpiryIsNoticed` follow.

`PacketReaderProofs`: first what the recursive functions compute. That
`Encoded` and `Text` satisfy their equations, and that `Encoded[n]` is a sequence
of bytes for every `n`, is proved by the least number for which it fails
(`LeastNumber`, `RecursionExists`); `PacketInText` then says at which byte of the
text the header, the digits and the payload of each packet are. `ReaderInv`
is the type invariant with the counts of bytes (`CountInv`: the engine was not
given more than was taken, nor was more taken than has arrived) and the shape of
the read under way (`ReadInv`); `ReaderTypeCorrect` is part of it. `StreamInv`
holds as long as the reader was not fooled and the connection not given up: the
packets handed over are the first ones, the bytes in `buffer` are those of the
text in front of what was read, and `PlaceInv` says where in a packet that is.
Within the length it says that some `q` is left to read: the digits of `q`
are next in the text, and `rem_len + multiplier * q` is the length of the payload.
From this follows that neither `rem_len` nor `multiplier` wraps before the last
digit is read. `PacketsAreAStream` is the refinement of `PacketStream`: the last
digit of an empty packet and the rest of another are `HandOver`, a read that fails
is `GiveUp` or, in a packet, `GiveUpInAPacket` with what the buffer has and zeros,
and everything else is a stutter, `BeFooled` or `Renew`.

Where induction is unavoidable (the recursive functions of `PacketReader`, the
first free slot of the handler table in `SessionProofs`) a proof uses the least
element of a set of numbers, `WFMin` of `WellFoundedInduction`.

Every invariant, action property and refinement that a passing run checks is
stated by a theorem. Liveness
(`RebootHappens`, `StoredIsDelivered`, `TrimEnds`, `HangIsReset`,
`UpgradeSettles`, `PingEnds`, `ConnectionEnds`, `SecretIsConfirmed`,
`EndIsNoticed`, `ArrivedIsRead`) stays with TLC: the prover has no rules for
fairness and ENABLED here. The bounds of the theorems with hypotheses stay with
TLC as well where these do not hold: `base` lets allocations fail, and
`nested` has a handler table of 1.

## 6. Plan

Done, most important first: the delivery core with its abstract specification,
the storage with its own, the watchdog, transfers and upgrade, the session, the
nesting of calls with the heap and the logger, the reading of packets, the
settings; and the proofs of section 5. What is left:

1. `Delivery`: `LossIsAccounted` and `WaitIsOwned` when allocations fail, with
   `starved` in place of the hypothesis, and `LossIsAccounted` when ids come
   round, with a bound on the answers that can be under way.
2. The fields of packets as `MQTTSerialize*` writes them (now records), and
   topic matching.
3. Liveness by proof, when the prover can reason about ENABLED.

## 7. Not modelled

* Media streaming (`media.c`, the media handlers): two flags around a streaming
  library of the device. What is published there is `GLOBAL_BUFFER`, which
  `publish()` clears first (`instamsg.c:858-871`, `1022-1034`), so that the
  answers of a server would be invented.
* AT commands and serial ports, GPS sentences and date arithmetic, JSON and hex
  conversions, logging to files: I/O and formatting without state of their own
  that another part depends on.
* SSL itself, DNS, the handshake, writing byte by byte (a write is one choice of
  outcomes), topic matching and the flags of a CONNECT packet.
* The stub port, whose functions are empty, and the vendored code. Of the
  54,883 lines that count as implementation 38,866 are headers of OpenSSL under
  `include/sg_openssl`, which hold declarations only.
