------------------------------- MODULE Storage -------------------------------
(***************************************************************************)
(* The persistent storage of the Linux port: the data log data.txt         *)
(* (device_data_logger.c) and the settings config.txt (device_config.c).   *)
(* Both are rewritten into one file, SYSTEM_WIDE_TEMP_FILE, which is then  *)
(* renamed over the original.  An action is one change of a file, so that  *)
(* the device may crash between any two of them; the temporary file        *)
(* outlives a crash and is removed by initInstaMsg.  rename() is atomic.   *)
(***************************************************************************)
EXTENDS Integers, Sequences, SequencesExt, FiniteSets, FiniteSetsExt

CONSTANTS
    Records,            \* records of the data log
    Keys, Values,       \* settings and their values
    Missing,            \* a file that does not exist, a line without a key
    HeapMayFail,        \* sg_malloc may return NULL
    MAX_DATA_RECORDS    \* records that fit in MAX_DATA_LOGGER_SIZE_BYTES

ASSUME StorageAssumption ==
    /\ Missing \notin Records \cup Keys \cup Values
    /\ Missing \notin Seq([key : Keys \cup {Missing}, val : Records \cup Values])
    /\ HeapMayFail \in BOOLEAN
    \* A log trimmed to one record could not be trimmed again, see TrimSwitch
    /\ MAX_DATA_RECORDS \in Nat /\ MAX_DATA_RECORDS > 1

VARIABLES
    pc,                 \* the operation in progress, and where it is
    arg,                \* its argument, and the record it returns
    unread,             \* the lines not yet read of the file it reads
    temp, data, config, \* the files: sequences of lines, or Missing
    \* history: records returned and not saved again; the operation on the
    \* settings found no heap
    fetched, heapless

vars == <<pc, arg, unread, temp, data, config, fetched, heapless>>

Record(r)     == [key |-> Missing, val |-> r]
Setting(k, v) == [key |-> k, val |-> v]

NoLine == Setting(Missing, Missing)

(* sg_appendLine creates the file if it is not there.                      *)
AppendLine(file, line) ==
    IF file = Missing THEN <<line>> ELSE Append(file, line)

(* make_the_switch: without a temporary file rename() fails, and the error *)
(* is only logged.                                                         *)
RenameOver(file) == IF temp = Missing THEN file ELSE temp

-----------------------------------------------------------------------------
(* save_record_to_persistent_storage                                       *)

SaveRecord(r) ==
    /\ pc = "idle" /\ \A i \in DOMAIN data : data[i] # Record(r)
    /\ pc' = "size" /\ arg' = Record(r)
    /\ UNCHANGED <<unread, temp, data, config, fetched, heapless>>

(* The loop that makes room for the record.                                *)
CheckSize ==
    /\ pc = "size"
    /\ IF Len(data) < MAX_DATA_RECORDS
       THEN pc' = "copy" /\ UNCHANGED unread
       ELSE pc' = "trim" /\ unread' = data
    /\ UNCHANGED <<arg, temp, data, config, fetched, heapless>>

(* Mutant: the first line is copied too. *)
TrimNothing ==
    /\ pc = "trim" /\ unread # <<>>
    /\ unread' = Tail(unread)
    /\ temp' = AppendLine(temp, Head(unread))
    /\ UNCHANGED <<pc, arg, data, config, fetched, heapless>>

(* Every line but the first one is copied.                                 *)
TrimLine ==
    /\ pc = "trim" /\ unread # <<>>
    /\ unread' = Tail(unread)
    /\ temp' = IF unread = data THEN temp ELSE AppendLine(temp, Head(unread))
    /\ UNCHANGED <<pc, arg, data, config, fetched, heapless>>

TrimSwitch ==
    /\ pc = "trim" /\ unread = <<>>
    /\ data' = RenameOver(data) /\ temp' = Missing
    /\ pc' = "size"
    /\ UNCHANGED <<arg, unread, config, fetched, heapless>>

(* copyFile truncates the temporary file, and then fills it.               *)
CopyOpen ==
    /\ pc = "copy"
    /\ temp' = <<>>
    /\ pc' = "copying"
    /\ UNCHANGED <<arg, unread, data, config, fetched, heapless>>

CopyDone ==
    /\ pc = "copying"
    /\ temp' = data
    /\ pc' = "append"
    /\ UNCHANGED <<arg, unread, data, config, fetched, heapless>>

AppendRecord ==
    /\ pc = "append"
    /\ temp' = AppendLine(temp, arg)
    /\ pc' = "switch"
    /\ UNCHANGED <<arg, unread, data, config, fetched, heapless>>

SaveSwitch ==
    /\ pc = "switch"
    /\ data' = RenameOver(data) /\ temp' = Missing
    /\ fetched' = fetched \ {arg}
    /\ pc' = "idle" /\ arg' = NoLine
    /\ UNCHANGED <<unread, config, heapless>>

-----------------------------------------------------------------------------
(* get_next_record_from_persistent_storage                                 *)

(* Mutant: what a crash left in the temporary file stays there. *)
GetWithoutCreate ==
    /\ pc = "idle"
    /\ unread' = data
    /\ pc' = "get"
    /\ UNCHANGED <<arg, temp, data, config, fetched, heapless>>

GetNextRecord ==
    /\ pc = "idle"
    /\ temp' = <<>>
    /\ unread' = data
    /\ pc' = "get"
    /\ UNCHANGED <<arg, data, config, fetched, heapless>>

(* The first line is the record, the others are copied.                    *)
GetLine ==
    /\ pc = "get" /\ unread # <<>>
    /\ unread' = Tail(unread)
    /\ IF unread = data
       THEN arg' = Head(unread) /\ UNCHANGED temp
       ELSE temp' = AppendLine(temp, Head(unread)) /\ UNCHANGED arg
    /\ UNCHANGED <<pc, data, config, fetched, heapless>>

GetSwitch ==
    /\ pc = "get" /\ unread = <<>>
    /\ data' = RenameOver(data) /\ temp' = Missing
    /\ fetched' = IF data = <<>> THEN fetched ELSE fetched \cup {arg}
    /\ pc' = "idle" /\ arg' = NoLine
    /\ UNCHANGED <<unread, config, heapless>>

-----------------------------------------------------------------------------
(* save_config_value_on_persistent_storage, and with v = Missing           *)
(* delete_config_value_from_persistent_storage.  Without a file, or        *)
(* without heap for a key, no line of the old file is copied.              *)

SaveConfig(k, v) ==
    /\ pc = "idle"
    /\ pc' = "config" /\ arg' = Setting(k, v)
    /\ \/ unread' = (IF config = Missing THEN <<>> ELSE config)
             /\ heapless' = FALSE
       \/ HeapMayFail /\ unread' = <<>> /\ heapless' = TRUE
    /\ UNCHANGED <<temp, data, config, fetched>>

ConfigLine ==
    /\ pc = "config" /\ unread # <<>>
    /\ unread' = Tail(unread)
    /\ temp' = IF Head(unread).key = arg.key THEN temp
               ELSE AppendLine(temp, Head(unread))
    /\ UNCHANGED <<pc, arg, data, config, fetched, heapless>>

AppendConfig ==
    /\ pc = "config" /\ unread = <<>> /\ arg.val # Missing
    /\ temp' = AppendLine(temp, arg)
    /\ pc' = "configSwitch"
    /\ UNCHANGED <<arg, unread, data, config, fetched, heapless>>

ConfigSwitch ==
    /\ \/ pc = "configSwitch"
       \/ pc = "config" /\ unread = <<>> /\ arg.val = Missing
    /\ config' = RenameOver(config) /\ temp' = Missing
    /\ pc' = "idle" /\ arg' = NoLine /\ heapless' = FALSE
    /\ UNCHANGED <<unread, data, fetched>>

-----------------------------------------------------------------------------
(* The files are all that survives a crash.                                *)
Crash ==
    /\ pc # "down"
    /\ pc' = "down" /\ arg' = NoLine /\ unread' = <<>>
    /\ heapless' = FALSE
    /\ UNCHANGED <<temp, data, config, fetched>>

(* Mutant: the temporary file is left alone. *)
RestartKeepingTemp ==
    /\ pc = "down"
    /\ pc' = "idle"
    /\ UNCHANGED <<arg, unread, temp, data, config, fetched, heapless>>

(* initInstaMsg deletes the temporary file before anything else is stored. *)
Restart ==
    /\ pc = "down"
    /\ pc' = "idle"
    /\ temp' = Missing
    /\ UNCHANGED <<arg, unread, data, config, fetched, heapless>>

(* setup.sh has created an empty data log; there is no config.txt yet.     *)
Init ==
    /\ pc = "down" /\ arg = NoLine /\ unread = <<>>
    /\ temp = Missing /\ data = <<>> /\ config = Missing
    /\ fetched = {} /\ heapless = FALSE

Continue ==
    \/ CheckSize \/ TrimLine \/ TrimSwitch
    \/ CopyOpen \/ CopyDone \/ AppendRecord \/ SaveSwitch
    \/ GetLine \/ GetSwitch
    \/ ConfigLine \/ AppendConfig \/ ConfigSwitch

Next ==
    \/ \E r \in Records : SaveRecord(r)
    \/ GetNextRecord
    \/ \E k \in Keys, v \in Values \cup {Missing} : SaveConfig(k, v)
    \/ Continue
    \/ Crash
    \/ Restart

(* The one thread goes on with the operation it is in.                     *)
Spec == Init /\ [][Next]_vars /\ WF_vars(Continue)

-----------------------------------------------------------------------------
(* Properties                                                              *)

RecordLines  == {Record(r) : r \in Records}
SettingLines == {Setting(k, v) : k \in Keys, v \in Values}
Lines        == RecordLines \cup SettingLines

(* The types; the files never hold lines of each other's kind.             *)
TypeOK ==
    /\ pc \in {"down", "idle", "size", "trim", "copy", "copying", "append",
               "switch", "get", "config", "configSwitch"}
    /\ arg \in Lines \cup {Setting(k, Missing) : k \in Keys \cup {Missing}}
    /\ unread \in Seq(Lines)
    /\ temp = Missing \/ temp \in Seq(Lines)
    /\ data \in Seq(RecordLines)
    /\ config = Missing \/ config \in Seq(SettingLines)
    /\ fetched \subseteq RecordLines
    /\ heapless \in BOOLEAN

(* get_config_value...: the last line with the key counts.                 *)
ValueOf(k) ==
    LET found == IF config = Missing THEN {}
                 ELSE {i \in DOMAIN config : config[i].key = k}
    IN  IF found = {} THEN Missing ELSE config[Max(found)].val

(* Every operation is all or nothing, whatever operations crashed before:  *)
(* a crash never mixes the two files, loses a stored record or another     *)
(* setting, nor brings a record back.  Only for want of heap does an       *)
(* operation on the settings lose the others, and never a record.          *)
Promised == INSTANCE DurableStore
                WITH Records <- RecordLines, Settings <- Keys, Unset <- Missing,
                     Capacity <- MAX_DATA_RECORDS, log <- data,
                     taken <- fetched,
                     settings <- [k \in Keys |-> ValueOf(k)]

AllOrNothing == Promised!Promise

(* Making room for a record comes to an end.                               *)
TrimEnds == pc = "size" ~> pc \in {"copy", "down"}

=============================================================================
