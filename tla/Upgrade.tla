-------------------------------- MODULE Upgrade --------------------------------
(***************************************************************************)
(* File transfers (handleFileTransfer in instamsg.c, httpclient.c) and the *)
(* upgrade of the binary at the next start (upgrade.c, device_upgrade.c).  *)
(* A download writes the file ~instamsg and then marks it in the settings; *)
(* start-up copies a marked file over the binary.  A transfer pings the    *)
(* server and handles whatever packet comes in, the next command for a     *)
(* transfer included: transfers nest, and share one socket, one response   *)
(* and one open file.  The device may lose power between any two steps.    *)
(***************************************************************************)
EXTENDS Integers, Sequences

CONSTANTS
    Files, Size,        \* what is transferred, and its length in chunks
    Missing,            \* a file that does not exist
    Nothing,            \* the file of a transfer that is no download
    OTA_PING,           \* chunks between two pings, OTA_PING_BUFFER_SIZE
    ExitsOnRelease,     \* release_socket may reset the device: TRUE with SSL
    LengthMayBeMissing, \* a response may come without its Content-Length
    HeapMayFail,        \* sg_malloc may return NULL
    MaxTransfers        \* bound: transfers in progress, one inside the other

ASSUME UpgradeAssumption ==
    /\ Files # {} /\ Size \in [Files -> Nat \ {0}]
    /\ Nothing \notin Files
    /\ Missing \notin [of : Files, n : Nat]
    /\ OTA_PING \in Nat \ {0} /\ MaxTransfers \in Nat \ {0}
    /\ ExitsOnRelease # {} /\ ExitsOnRelease \subseteq BOOLEAN
    /\ LengthMayBeMissing \in BOOLEAN /\ HeapMayFail \in BOOLEAN

VARIABLES
    pc,                 \* where the process is
    binary, temp,       \* instamsg and ~instamsg: a prefix of a file
    marked,             \* NEW_FILE_KEY is in the settings
    transfers,          \* the calls of handleFileTransfer, innermost first
    http,               \* httpSocket is connected, for the innermost call
    fs,                 \* the static FileSystem of device_upgrade.c
    status,             \* httpResponse.status
    \* history: the marked file was deleted or overwritten by another command,
    \* before it was marked or after; power was lost while the binary was
    \* replaced
    spoiled, cut

files == <<binary, temp, marked>>
session == <<transfers, http, fs, status>>
history == <<spoiled, cut>>
vars == <<pc, files, session, history>>

Image(f) == [of |-> f, n |-> Size[f]]

Whole(file) == file # Missing /\ file.n = Size[file.of]

Top == transfers[1]

(* The innermost transfer goes on to the given stage.                      *)
GoTo(stage) ==
    transfers' = <<[Top EXCEPT !.stage = stage]>> \o Tail(transfers)

At(stage) == IF transfers = <<>> THEN stage = "idle" ELSE stage = Top.stage

(* The end of the process: all but the files is lost.                      *)
Down ==
    /\ pc' = "down"
    /\ transfers' = <<>> /\ http' = FALSE /\ fs' = "closed" /\ status' = 0

-----------------------------------------------------------------------------
(* Start-up: initInstaMsg calls check_for_upgrade.                         *)

(* The supervision script starts the binary if there is one.               *)
Start ==
    /\ pc = "down" /\ Whole(binary)
    /\ pc' = "check"
    /\ UNCHANGED <<files, session, history>>

CannotStart ==
    /\ pc = "down" /\ ~Whole(binary)
    /\ UNCHANGED vars

(* No new file arrived, or there is no memory to find out: the old binary. *)
CheckForUpgrade ==
    /\ pc = "check"
    /\ marked => HeapMayFail
    /\ pc' = "running"
    /\ UNCHANGED <<files, session, history>>

RemoveOldExecutableBinary ==
    /\ pc = "check" /\ marked
    /\ pc' = "copy" /\ binary' = Missing
    /\ UNCHANGED <<temp, marked, session, history>>

(* copyFile reads from a NULL stream if there is no file to copy.          *)
CopyOpen ==
    /\ pc = "copy"
    /\ \E f \in Files :
        /\ temp # Missing => temp.of = f
        /\ binary' = [of |-> f, n |-> 0]
    /\ IF temp = Missing
       THEN Down
       ELSE pc' = "copying" /\ UNCHANGED session
    /\ UNCHANGED <<temp, marked, history>>

CopyNext ==
    /\ pc = "copying" /\ binary.n < temp.n
    /\ binary' = [binary EXCEPT !.n = @ + 1]
    /\ UNCHANGED <<pc, temp, marked, session, history>>

CopyDone ==
    /\ pc = "copying" /\ binary.n = temp.n
    /\ pc' = "clear"
    /\ UNCHANGED <<files, session, history>>

(* Mutant: the mark stays. *)
ExitKeepingMark ==
    /\ pc = "clear"
    /\ Down
    /\ UNCHANGED <<files, history>>

(* The mark is deleted, and the process exits to start the new binary.     *)
ClearMark ==
    /\ pc = "clear"
    /\ marked' = FALSE
    /\ Down
    /\ UNCHANGED <<binary, temp, history>>

-----------------------------------------------------------------------------
(* Commands for file transfers.                                            *)

(* Packets are read by the main loop, and at the pings of a transfer.      *)
Reading ==
    /\ pc = "running"
    /\ At("idle") \/ At("ping")

Begin(f, stage) ==
    /\ Reading /\ Len(transfers) < MaxTransfers
    /\ transfers' = <<[of |-> f, got |-> 0, len |-> 0, stage |-> stage]>>
                        \o transfers

(* POST or PUT.  httpResponse is reset and httpSocket is set up anew; if   *)
(* that fails there is no connection, and the call ends at once.           *)
Download(f) ==
    /\ \/ Begin(f, "header") /\ http' = TRUE
       \/ Begin(f, "ack") /\ http' = FALSE
    /\ status' = 0
    /\ UNCHANGED <<pc, files, fs, history>>

(* GET.  Without memory httpSocket is released as it is, or not touched.   *)
Upload ==
    /\ \/ Begin(Nothing, "upload") /\ http' = TRUE /\ status' = 0
       \/ Begin(Nothing, "ack") /\ http' = FALSE /\ status' = 0
       \/ HeapMayFail /\ Begin(Nothing, "release") /\ status' = 0
                      /\ UNCHANGED http
       \/ HeapMayFail /\ Begin(Nothing, "ack") /\ UNCHANGED <<http, status>>
    /\ UNCHANGED <<pc, files, fs, history>>

(* DELETE of the file ~instamsg, which the listing of the files offers.  A *)
(* file that is open loses its name.  The code deletes whatever file the   *)
(* command names; that it names the binary or the settings is left out.    *)
Delete ==
    /\ Reading /\ temp # Missing
    /\ temp' = Missing
    /\ fs' = IF fs = "temp" THEN "unlinked" ELSE fs
    /\ spoiled' = TRUE
    /\ UNCHANGED <<pc, binary, marked, transfers, http, status, cut>>

-----------------------------------------------------------------------------
(* downloadFile                                                            *)

(* The request cannot be sent, the server refuses, or the header breaks    *)
(* off, before or after its status line.                                   *)
HeaderFails ==
    /\ At("header")
    /\ status' \in {0, 200, 404}
    /\ GoTo("release")
    /\ UNCHANGED <<pc, files, http, fs, history>>

(* The empty line after the header ends it.                                *)
HeaderEnds ==
    /\ At("header")
    /\ \E len \in {Size[Top.of]} \cup (IF LengthMayBeMissing THEN {0} ELSE {}) :
        transfers' = <<[Top EXCEPT !.stage = "open", !.len = len]>>
                        \o Tail(transfers)

(* Mutant: what is already there is kept. *)
PrepareKeepingFile ==
    /\ HeaderEnds
    /\ status' = 200
    /\ spoiled' = marked
    /\ UNCHANGED <<pc, files, http, fs, cut>>

(* prepare_for_new_binary_download deletes the file of an earlier download *)
PrepareDelete ==
    /\ HeaderEnds
    /\ status' = 200
    /\ temp' = Missing
    /\ fs' = IF fs = "temp" THEN "unlinked" ELSE fs
    /\ spoiled' = marked
    /\ UNCHANGED <<pc, binary, marked, http, cut>>

(* and then opens a file for appending.                                    *)
PrepareOpen ==
    /\ At("open")
    /\ temp' = IF temp = Missing THEN [of |-> Top.of, n |-> 0] ELSE temp
    /\ fs' = "temp"
    /\ GoTo("body")
    /\ UNCHANGED <<pc, binary, marked, http, status, history>>

(* handleDownloadedBytesBatch writes the bytes, and then perhaps pings.    *)
ReadChunk ==
    /\ At("body") /\ http /\ Top.got < Top.len
    /\ LET got == Top.got + 1 IN
        transfers' = <<[Top EXCEPT !.got = got,
                            !.stage = IF got % OTA_PING = 0 THEN "ping" ELSE @]>>
                        \o Tail(transfers)
    /\ temp' = IF fs = "temp" THEN [temp EXCEPT !.n = @ + 1] ELSE temp
    /\ UNCHANGED <<pc, binary, marked, http, fs, status, history>>

(* Nothing, or nothing more, is there to read at a ping.                   *)
PingDone ==
    /\ At("ping")
    /\ GoTo(IF Top.of = Nothing THEN "upload" ELSE "body")
    /\ UNCHANGED <<pc, files, http, fs, status, history>>

(* tear_down_binary_download.  The stream is not set to NULL, and closing  *)
(* it twice is undefined: the process goes on, or it dies.                 *)
TearDown ==
    /\ fs' = "closed"
    /\ GoTo("release")
    /\ UNCHANGED <<pc, http, status>>

ClosedTwice ==
    /\ At("body") /\ fs = "closed"
    /\ Down
    /\ UNCHANGED <<files, history>>

(* Mutant: the failure is taken for the end of the file. *)
ReadFailsAndMarks ==
    /\ At("body") /\ Top.got < Top.len
    /\ TearDown
    /\ marked' = TRUE
    /\ UNCHANGED <<binary, temp, history>>

(* The network fails, or a transfer inside this one took the socket.       *)
ReadFails ==
    /\ At("body") /\ Top.got < Top.len
    /\ TearDown
    /\ UNCHANGED <<files, history>>

(* What a transfer at the last ping did to the file is not looked at.      *)
DownloadDone ==
    /\ At("body") /\ Top.got = Top.len
    /\ TearDown
    /\ marked' = TRUE
    /\ spoiled' = (fs # "temp")
    /\ UNCHANGED <<binary, temp, cut>>

-----------------------------------------------------------------------------
(* uploadFile, and the end of both                                         *)

UploadPing ==
    /\ At("upload") /\ http
    /\ GoTo("ping")
    /\ UNCHANGED <<pc, files, http, fs, status, history>>

(* The response arrives, or the connection fails.                          *)
UploadEnds ==
    /\ At("upload")
    /\ status' \in {status} \cup (IF http THEN {200, 404} ELSE {})
    /\ GoTo("release")
    /\ UNCHANGED <<pc, files, http, fs, history>>

(* Mutant: the connection stays open for the call around this one. *)
ReleaseNothing ==
    /\ At("release")
    /\ GoTo("ack")
    /\ UNCHANGED <<pc, files, http, fs, status, history>>

ReleaseSocket ==
    /\ At("release")
    /\ \E exits \in ExitsOnRelease :
        IF exits
        THEN Down
        ELSE /\ http' = FALSE /\ GoTo("ack")
             /\ UNCHANGED <<pc, fs, status>>
    /\ UNCHANGED <<files, history>>

(* The status of the acknowledgement: of an upload always 0, since the     *)
(* code looks at a response it never fills.                                *)
AckStatus == IF Top.of # Nothing /\ status = 200 THEN 1 ELSE 0

(* The acknowledgement is published, and the call returns.                 *)
Acknowledge ==
    /\ At("ack")
    /\ transfers' = Tail(transfers)
    /\ UNCHANGED <<pc, files, http, fs, status, history>>

(* A power cut, or an exit for another reason, at any moment.              *)
Crash ==
    /\ pc # "down"
    /\ Down
    /\ cut' = (cut \/ ~Whole(binary))
    /\ UNCHANGED <<files, spoiled>>

-----------------------------------------------------------------------------
Init ==
    /\ pc = "down"
    /\ \E f \in Files : binary = Image(f)
    /\ temp = Missing /\ marked = FALSE
    /\ transfers = <<>> /\ http = FALSE /\ fs = "closed" /\ status = 0
    /\ spoiled = FALSE /\ cut = FALSE

StartUp == CheckForUpgrade \/ RemoveOldExecutableBinary \/ CopyOpen \/ CopyNext
             \/ CopyDone \/ ClearMark

Command == (\E f \in Files : Download(f)) \/ Upload \/ Delete

Transfer ==
    \/ HeaderFails \/ PrepareDelete \/ PrepareOpen
    \/ ReadChunk \/ PingDone \/ ClosedTwice \/ ReadFails \/ DownloadDone
    \/ UploadPing \/ UploadEnds \/ ReleaseSocket \/ Acknowledge

Next == Start \/ CannotStart \/ StartUp \/ Command \/ Transfer \/ Crash

(* The script starts the binary, and power is on for long enough, again    *)
(* and again, to carry out each of the steps of the start-up.  That memory *)
(* runs out is never due.                                                  *)
Spec ==
    /\ Init /\ [][Next]_vars
    /\ WF_vars(Start)
    /\ SF_vars(~marked /\ CheckForUpgrade)
    /\ SF_vars(RemoveOldExecutableBinary)
    /\ SF_vars(CopyOpen) /\ SF_vars(CopyNext) /\ SF_vars(CopyDone)
    /\ SF_vars(ClearMark)

-----------------------------------------------------------------------------
Prefix == {Missing} \cup UNION {[of : {f}, n : 0..Size[f]] : f \in Files}

Stage == {"header", "open", "body", "ping", "upload", "release", "ack"}

(* The types, and that nothing is written beyond the length of a file.     *)
TypeOK ==
    /\ pc \in {"down", "check", "copy", "copying", "clear", "running"}
    /\ binary \in Prefix /\ temp \in Prefix
    /\ marked \in BOOLEAN /\ spoiled \in BOOLEAN /\ cut \in BOOLEAN
    /\ transfers \in Seq([of : Files \cup {Nothing}, got : Nat, len : Nat,
                          stage : Stage])
    /\ http \in BOOLEAN /\ fs \in {"temp", "unlinked", "closed"}
    /\ status \in {0, 200, 404}

(* A download that still has its connection has its file as well: what it  *)
(* wrote, and nothing else, is in it, and its stream is open.  Transfers   *)
(* inside it change that only together with the connection.                *)
DownloadOwnsFile ==
    At("body") /\ http =>
        \/ fs = "temp" /\ temp = [of |-> Top.of, n |-> Top.got]
        \/ fs = "unlinked"

(* "Mark that file was downloaded successfully": what is marked is whole,  *)
(* unless another command deleted it or began to overwrite it, later or at *)
(* the last ping of the download.                                          *)
MarkMeansWhole == marked => Whole(temp) \/ spoiled

(* The binary is whole, or being replaced, or power was lost while it was, *)
(* or the marked file was not what was downloaded.                         *)
BrokenOnlyBy ==
    \/ Whole(binary)
    \/ pc \in {"copy", "copying"}
    \/ cut \/ spoiled

(* Only images that were downloaded whole are marked for, and come to be,  *)
(* the device's program, with the exceptions the two parts name.           *)
OnlyWholeImages == MarkMeansWhole /\ BrokenOnlyBy

(* The server is told a download succeeded only if it did: "IT MEANS THE   *)
(* FILE-TRANSFER COMPLETED, AND THAT TOO PERFECTLY SUCCESSFULLY".          *)
AckMeansDownloaded ==
    At("ack") /\ AckStatus = 1 => Top.got = Size[Top.of]

(* Once the device starts with a marked image that image comes to run, and *)
(* the mark to be gone, unless the binary is destroyed (see BrokenOnlyBy)  *)
(* or there is no memory to look at the mark, which then stays.            *)
UpgradeSettles ==
    \A f \in Files :
        pc = "check" /\ marked /\ temp = Image(f)
            ~> \/ pc = "running" /\ binary = Image(f) /\ ~marked
               \/ pc = "running" /\ marked
               \/ ~Whole(binary) /\ pc = "down"

=============================================================================
