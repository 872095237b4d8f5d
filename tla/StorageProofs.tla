---------------------------- MODULE StorageProofs ----------------------------
(***************************************************************************)
(* Theorems about Storage, for every set of records, settings and values   *)
(* and every size of the log: the types, and that it implements what       *)
(* DurableStore promises, step by step.                                    *)
(***************************************************************************)
EXTENDS Storage, SequenceTheorems, TLAPS

(* The data log: a record on its way in is new and has room when it is     *)
(* copied; what is rewritten is the log without its first record.          *)
SaveInv ==
    /\ Len(data) <= MAX_DATA_RECORDS
    /\ pc \in {"idle", "size", "copy"} => temp = Missing
    /\ pc \in {"size", "trim", "copy", "copying", "append", "switch"} =>
          arg \in RecordLines /\ \A i \in DOMAIN data : data[i] # arg
    /\ pc \in {"copy", "copying", "append", "switch"} =>
          Len(data) < MAX_DATA_RECORDS
    /\ pc = "append" => temp = data
    /\ pc = "switch" => temp = Append(data, arg)

TrimInv ==
    pc = "trim" =>
        /\ Len(data) = MAX_DATA_RECORDS
        /\ \/ unread = data /\ temp = Missing
           \/ unread = Tail(data) /\ temp = Missing
           \/ temp # Missing /\ Tail(data) = temp \o unread

GetInv ==
    pc = "get" =>
        /\ temp # Missing
        /\ \/ unread = data /\ temp = <<>>
           \/ data # <<>> /\ arg = Head(data) /\ Tail(data) = temp \o unread

(* The settings: a key has one line at most, and what is rewritten is the  *)
(* file without the key of the operation.                                  *)
LinesOf(file) == IF file = Missing THEN {} ELSE {file[i] : i \in DOMAIN file}

OneEach(file) ==
    file # Missing =>
        \A i, j \in DOMAIN file : file[i].key = file[j].key => i = j

Apart(file, other) ==
    \A l \in LinesOf(file), m \in LinesOf(other) : l.key # m.key

Others(S, k) == {l \in S : l.key # k}

ConfigInv ==
    /\ OneEach(config)
    /\ pc \in {"config", "configSwitch"} =>
          arg \in [key : Keys, val : Values \cup {Missing}] /\ OneEach(temp)
    /\ pc = "config" =>
          /\ OneEach(unread) /\ Apart(temp, unread)
          /\ heapless => unread = <<>> /\ temp = Missing
          /\ ~heapless => LinesOf(temp) \cup Others(LinesOf(unread), arg.key)
                             = Others(LinesOf(config), arg.key)
          /\ \A l \in LinesOf(temp) : l.key # arg.key
    /\ pc = "configSwitch" =>
          /\ temp # Missing /\ arg.val # Missing
          /\ LinesOf(temp) = {arg} \cup (IF heapless THEN {}
                                         ELSE Others(LinesOf(config), arg.key))

StorageInv == TypeOK /\ SaveInv /\ TrimInv /\ GetInv /\ ConfigInv

-----------------------------------------------------------------------------
LEMMA Constants ==
    /\ Missing \notin Records /\ Missing \notin Keys /\ Missing \notin Values
    /\ Missing \notin Seq([key : Keys \cup {Missing}, val : Records \cup Values])
    /\ MAX_DATA_RECORDS \in Nat /\ MAX_DATA_RECORDS > 1
BY StorageAssumption DEF StorageAssumption

(* The lines of the two files, and what is no file.                        *)
LEMMA LineTypes ==
    /\ RecordLines \subseteq Lines /\ SettingLines \subseteq Lines
    /\ \A l \in RecordLines : l.key = Missing
    /\ \A l \in SettingLines : l.key \in Keys /\ l.val \in Values
                               /\ l = Setting(l.key, l.val)
    /\ \A r \in Records : Record(r) \in RecordLines
    /\ \A k \in Keys, v \in Values : Setting(k, v) \in SettingLines
BY DEF RecordLines, SettingLines, Lines, Record, Setting

LEMMA SeqSub ==
    ASSUME NEW S, NEW T, S \subseteq T, NEW q \in Seq(S)
    PROVE  q \in Seq(T)
OBVIOUS

LEMMA MissingIsNoFile == Missing \notin Seq(Lines)
<1>1. Lines \subseteq [key : Keys \cup {Missing}, val : Records \cup Values]
  BY DEF Lines, RecordLines, SettingLines, Record, Setting
<1>2. \A q \in Seq(Lines) :
         q \in Seq([key : Keys \cup {Missing}, val : Records \cup Values])
  BY <1>1, SeqSub
<1> QED
  BY <1>2, Constants

LEMMA AppendLineType ==
    ASSUME NEW S \in SUBSET Lines, NEW file, file = Missing \/ file \in Seq(S),
           NEW line \in S
    PROVE  /\ AppendLine(file, line) \in Seq(S)
           /\ AppendLine(file, line) # Missing
<1>1. AppendLine(file, line) \in Seq(S)
  BY DEF AppendLine
<1> QED
  BY <1>1, MissingIsNoFile, SeqSub

LEMMA HeadTail ==
    ASSUME NEW S, NEW q \in Seq(S), q # <<>>
    PROVE  Head(q) \in S /\ Tail(q) \in Seq(S)
OBVIOUS

(* The types in parts; an argument that is saved is a line.                *)
FileType ==
    /\ unread \in Seq(Lines)
    /\ temp = Missing \/ temp \in Seq(Lines)
    /\ data \in Seq(RecordLines)
    /\ config = Missing \/ config \in Seq(SettingLines)

OtherType ==
    /\ pc \in {"down", "idle", "size", "trim", "copy", "copying", "append",
               "switch", "get", "config", "configSwitch"}
    /\ arg \in Lines \cup {Setting(k, Missing) : k \in Keys \cup {Missing}}
    /\ fetched \subseteq RecordLines

LEMMA TypeParts == TypeOK <=> FileType /\ OtherType /\ heapless \in BOOLEAN
BY Zenon DEF TypeOK, FileType, OtherType

LEMMA NoLineType == NoLine \in {Setting(k, Missing) : k \in Keys \cup {Missing}}
BY DEF NoLine

LEMMA NextHeapless == heapless \in BOOLEAN /\ [Next]_vars => heapless' \in BOOLEAN
<1> SUFFICES ASSUME heapless \in BOOLEAN, [Next]_vars PROVE heapless' \in BOOLEAN
  OBVIOUS
<1>1. ASSUME NEW k \in Keys, NEW v \in Values \cup {Missing}, SaveConfig(k, v)
      PROVE  heapless' \in BOOLEAN
  BY <1>1, Zenon DEF SaveConfig
<1>2. CASE ConfigSwitch \/ Crash
  BY <1>2, Zenon DEF ConfigSwitch, Crash
<1>3. CASE UNCHANGED heapless
  BY <1>3, Zenon
<1> QED
  BY <1>1, <1>2, <1>3, Zenon
     DEF Next, Continue, SaveRecord, CheckSize, TrimLine, TrimSwitch, CopyOpen,
         CopyDone, AppendRecord, SaveSwitch, GetNextRecord, GetLine, GetSwitch,
         ConfigLine, AppendConfig, Restart, vars

LEMMA NextOther ==
    FileType /\ OtherType /\ GetInv /\ [Next]_vars => OtherType'
<1> SUFFICES ASSUME FileType, OtherType, GetInv, [Next]_vars PROVE OtherType'
  OBVIOUS
<1> USE NoLineType
<1>1. ASSUME NEW r \in Records, SaveRecord(r) PROVE OtherType'
  BY <1>1, LineTypes DEF SaveRecord, OtherType
<1>2. CASE CheckSize \/ TrimLine \/ TrimSwitch \/ CopyOpen \/ CopyDone
           \/ AppendRecord
  BY <1>2
     DEF CheckSize, TrimLine, TrimSwitch, CopyOpen, CopyDone, AppendRecord,
         OtherType
<1>3. CASE SaveSwitch
  BY <1>3 DEF SaveSwitch, OtherType
<1>4. CASE GetNextRecord
  BY <1>4 DEF GetNextRecord, OtherType
<1>5. CASE GetLine
  <2>1. unread # <<>> /\ arg' \in {arg, Head(unread)} /\ pc' = pc /\ fetched' = fetched
    BY <1>5, Zenon DEF GetLine
  <2>2. Head(unread) \in Lines
    BY <2>1, HeadTail DEF FileType
  <2> QED
    BY <2>1, <2>2 DEF OtherType
<1>6. ASSUME NEW k \in Keys, NEW v \in Values \cup {Missing}, SaveConfig(k, v)
      PROVE  OtherType'
  <2>1. pc' = "config" /\ arg' = Setting(k, v) /\ fetched' = fetched
    BY <1>6, Zenon DEF SaveConfig
  <2>2. Setting(k, v) \in Lines \cup {Setting(l, Missing) : l \in Keys \cup {Missing}}
    BY LineTypes
  <2> QED
    BY <2>1, <2>2 DEF OtherType
<1>7. CASE ConfigLine \/ AppendConfig \/ ConfigSwitch
  BY <1>7 DEF ConfigLine, AppendConfig, ConfigSwitch, OtherType
<1>8. CASE Crash \/ Restart \/ UNCHANGED vars
  BY <1>8 DEF Crash, Restart, vars, OtherType
<1>9. CASE GetSwitch
  <2>1. /\ pc = "get" /\ unread = <<>> /\ pc' = "idle" /\ arg' = NoLine
        /\ fetched' = IF data = <<>> THEN fetched ELSE fetched \cup {arg}
    BY <1>9, Zenon DEF GetSwitch
  <2>2. data # <<>> => arg = Head(data)
    BY <2>1 DEF GetInv
  <2>3. data # <<>> => arg \in RecordLines
    BY <2>2, HeadTail DEF FileType
  <2> QED
    BY <2>1, <2>3 DEF OtherType
<1> QED
  BY <1>1, <1>2, <1>3, <1>4, <1>5, <1>6, <1>7, <1>8, <1>9 DEF Next, Continue

-----------------------------------------------------------------------------
(* A line that moves from the front of one sequence to the end of another. *)
LEMMA MoveLine ==
    ASSUME NEW S, NEW q \in Seq(S), NEW r \in Seq(S), r # <<>>
    PROVE  /\ Append(q, Head(r)) \o Tail(r) = q \o r
           /\ <<Head(r)>> \o Tail(r) = r
           /\ Len(Tail(r)) = Len(r) - 1 /\ Len(r) \in Nat \ {0}
OBVIOUS

LEMMA DataLines == FileType => data \in Seq(Lines) /\ (config # Missing => config \in Seq(Lines))
BY LineTypes, SeqSub DEF FileType

(* One line of the log is read.                                            *)
LEMMA TrimStep ==
    ASSUME FileType, SaveInv, TrimInv, TrimLine
    PROVE  /\ TrimInv' /\ unread' \in Seq(Lines)
           /\ temp' = Missing \/ temp' \in Seq(Lines)
<1>1. /\ pc = "trim" /\ unread # <<>> /\ unread' = Tail(unread) /\ data' = data
      /\ pc' = pc
      /\ temp' = IF unread = data THEN temp ELSE AppendLine(temp, Head(unread))
  BY Zenon DEF TrimLine
<1>2. /\ data \in Seq(Lines) /\ unread \in Seq(Lines)
      /\ temp = Missing \/ temp \in Seq(Lines)
  BY DataLines DEF FileType
<1>3. Head(unread) \in Lines /\ Tail(unread) \in Seq(Lines)
  BY <1>1, <1>2, HeadTail
<1>4. CASE unread = data /\ temp = Missing
  BY <1>1, <1>2, <1>3, <1>4 DEF TrimInv
<1>5. CASE unread = Tail(data) /\ temp = Missing
  <2>1. unread # data
    BY <1>1, <1>2, <1>5, MoveLine
  <2>2. temp' = <<Head(unread)>>
    BY <1>1, <1>5, <2>1 DEF AppendLine
  <2>3. Tail(data) = temp' \o unread'
    BY <1>1, <1>2, <1>5, <2>2, MoveLine
  <2>4. temp' \in Seq(Lines) /\ temp' # Missing
    <3>1. <<Head(unread)>> \in Seq(Lines)
      BY <1>3
    <3> QED
      BY <2>2, <3>1, MissingIsNoFile
  <2> QED
    BY <1>1, <1>3, <2>3, <2>4 DEF TrimInv
<1>6. CASE temp # Missing /\ Tail(data) = temp \o unread
  <2>1. temp \in Seq(Lines) /\ data # <<>>
    BY <1>1, <1>2, <1>6, Constants DEF TrimInv
  <2>2. Len(Tail(data)) = Len(data) - 1 /\ Len(data) \in Nat
    BY <1>2, <2>1, MoveLine
  <2>3. Len(Tail(data)) = Len(temp) + Len(unread)
    BY <1>2, <1>6, <2>1
  <2>4. unread # data
    BY <1>2, <2>1, <2>2, <2>3
  <2>5. temp' = Append(temp, Head(unread))
    BY <1>1, <1>6, <2>4 DEF AppendLine
  <2>6. Tail(data) = temp' \o unread'
    <3>1. Append(temp, Head(unread)) \o Tail(unread) = temp \o unread
      BY <1>1, <1>2, <2>1, MoveLine
    <3> QED
      BY <1>1, <1>6, <2>5, <3>1, Zenon
  <2>7. temp' \in Seq(Lines) /\ temp' # Missing
    BY <1>3, <2>1, <2>5, MissingIsNoFile
  <2> QED
    BY <1>1, <1>3, <2>6, <2>7 DEF TrimInv
<1> QED
  BY <1>1, <1>4, <1>5, <1>6 DEF TrimInv

LEMMA GetStep ==
    ASSUME FileType, SaveInv, GetInv, GetLine
    PROVE  /\ GetInv' /\ unread' \in Seq(Lines)
           /\ temp' = Missing \/ temp' \in Seq(Lines)
<1>1. /\ pc = "get" /\ unread # <<>> /\ unread' = Tail(unread) /\ data' = data
      /\ pc' = pc
      /\ IF unread = data THEN arg' = Head(unread) /\ UNCHANGED temp
         ELSE temp' = AppendLine(temp, Head(unread)) /\ UNCHANGED arg
  BY Zenon DEF GetLine
<1>2. /\ data \in Seq(Lines) /\ unread \in Seq(Lines) /\ temp # Missing
      /\ temp \in Seq(Lines)
  BY <1>1, DataLines DEF FileType, GetInv
<1>3. Head(unread) \in Lines /\ Tail(unread) \in Seq(Lines)
  BY <1>1, <1>2, HeadTail
<1>4. CASE unread = data /\ temp = <<>>
  <2>1. data # <<>> /\ arg' = Head(data) /\ temp' = <<>> /\ unread' = Tail(data)
    BY <1>1, <1>4
  <2>2. Tail(data) = temp' \o unread'
    BY <1>3, <1>4, <2>1
  <2> QED
    BY <1>1, <1>2, <1>3, <2>1, <2>2, MissingIsNoFile DEF GetInv
<1>5. CASE data # <<>> /\ arg = Head(data) /\ Tail(data) = temp \o unread
  <2>1. Len(Tail(data)) = Len(data) - 1 /\ Len(data) \in Nat
    BY <1>2, <1>5, MoveLine
  <2>2. Len(Tail(data)) = Len(temp) + Len(unread)
    BY <1>2, <1>5
  <2>3. unread # data
    BY <1>2, <2>1, <2>2
  <2>4. temp' = Append(temp, Head(unread)) /\ arg' = arg
    BY <1>1, <1>2, <2>3 DEF AppendLine
  <2>5. Tail(data) = temp' \o unread'
    <3>1. Append(temp, Head(unread)) \o Tail(unread) = temp \o unread
      BY <1>1, <1>2, MoveLine
    <3> QED
      BY <1>1, <1>5, <2>4, <3>1, Zenon
  <2>6. temp' \in Seq(Lines) /\ temp' # Missing
    <3>1. Append(temp, Head(unread)) \in Seq(Lines)
      BY <1>2, <1>3
    <3> QED
      BY <2>4, <3>1, MissingIsNoFile
  <2> QED
    BY <1>1, <1>3, <1>5, <2>4, <2>5, <2>6 DEF GetInv
<1> QED
  BY <1>1, <1>4, <1>5 DEF GetInv

(* What the renames make of the log.                                       *)
LEMMA TrimmedLog ==
    ASSUME FileType, TrimInv, TrimSwitch
    PROVE  /\ data # <<>> /\ data' = Tail(data) /\ Len(data) = MAX_DATA_RECORDS
           /\ data' \in Seq(RecordLines)
<1>1. /\ pc = "trim" /\ unread = <<>> /\ data' = IF temp = Missing THEN data ELSE temp
  BY DEF TrimSwitch, RenameOver
<1>2. Len(data) = MAX_DATA_RECORDS /\ data # <<>> /\ data \in Seq(RecordLines)
  BY <1>1, Constants DEF TrimInv, FileType
<1>3. Len(Tail(data)) > 0
  BY <1>2, Constants, MoveLine
<1>4. temp # Missing /\ Tail(data) = temp \o <<>>
  BY <1>1, <1>2, <1>3 DEF TrimInv
<1>5. temp = Tail(data)
  BY <1>4 DEF FileType
<1> QED
  BY <1>1, <1>2, <1>4, <1>5, HeadTail

LEMMA SavedLog ==
    ASSUME FileType, SaveInv, SaveSwitch
    PROVE  /\ data' = Append(data, arg) /\ arg \in RecordLines
           /\ Len(data) < MAX_DATA_RECORDS
           /\ \A i \in DOMAIN data : data[i] # arg
           /\ data' \in Seq(RecordLines)
<1>1. /\ pc = "switch" /\ data' = IF temp = Missing THEN data ELSE temp
  BY DEF SaveSwitch, RenameOver
<1>2. /\ arg \in RecordLines /\ Len(data) < MAX_DATA_RECORDS
      /\ temp = Append(data, arg) /\ \A i \in DOMAIN data : data[i] # arg
  BY <1>1 DEF SaveInv
<1>3. temp \in Seq(RecordLines)
  BY <1>2 DEF FileType
<1>4. temp \in Seq(Lines)
  BY <1>3, LineTypes, SeqSub
<1> QED
  BY <1>1, <1>2, <1>3, <1>4, MissingIsNoFile

LEMMA FetchedLog ==
    ASSUME FileType, GetInv, GetSwitch
    PROVE  /\ data = <<>> => data' = <<>> /\ fetched' = fetched
           /\ data # <<>> => data' = Tail(data) /\ fetched' = fetched \cup {Head(data)}
           /\ data' \in Seq(RecordLines)
<1>1. /\ pc = "get" /\ unread = <<>> /\ data' = IF temp = Missing THEN data ELSE temp
      /\ fetched' = IF data = <<>> THEN fetched ELSE fetched \cup {arg}
  BY DEF GetSwitch, RenameOver
<1>2. data \in Seq(RecordLines) /\ temp # Missing /\ temp \in Seq(Lines)
  BY <1>1 DEF GetInv, FileType
<1>3. CASE data = <<>>
  BY <1>1, <1>2, <1>3 DEF GetInv
<1>4. CASE data # <<>>
  <2>1. arg = Head(data) /\ Tail(data) = temp \o <<>>
    BY <1>1, <1>4 DEF GetInv
  <2>2. temp = Tail(data)
    BY <1>2, <2>1
  <2> QED
    BY <1>1, <1>2, <1>4, <2>1, <2>2, HeadTail
<1> QED
  BY <1>3, <1>4

-----------------------------------------------------------------------------
(* Lines that are appended to a file, and read from it.                    *)
LEMMA LinesAppended ==
    ASSUME NEW file, file = Missing \/ file \in Seq(Lines), NEW line \in Lines
    PROVE  /\ LinesOf(AppendLine(file, line)) = LinesOf(file) \cup {line}
           /\ OneEach(file) /\ (\A l \in LinesOf(file) : l.key # line.key) =>
                OneEach(AppendLine(file, line))
<1> DEFINE new == AppendLine(file, line)
<1>1. new \in Seq(Lines) /\ new # Missing
  BY AppendLineType
<1>2. CASE file = Missing
  <2>1. new = <<line>>
    BY <1>2 DEF AppendLine
  <2>2. DOMAIN new = {1} /\ new[1] = line
    BY <2>1
  <2> HIDE DEF new
  <2>3. LinesOf(new) = {line} /\ LinesOf(file) = {}
    BY <1>1, <1>2, <2>2 DEF LinesOf
  <2>4. OneEach(new)
    BY <1>1, <2>2 DEF OneEach
  <2> QED
    BY <2>3, <2>4 DEF new
<1>3. CASE file # Missing /\ file \in Seq(Lines)
  <2>1. new = Append(file, line)
    BY <1>3 DEF AppendLine
  <2>2. /\ Len(file) \in Nat /\ DOMAIN file = 1..Len(file)
        /\ DOMAIN new = 1..(Len(file) + 1) /\ new[Len(file) + 1] = line
        /\ \A i \in 1..Len(file) : new[i] = file[i]
    BY <1>3, <2>1
  <2> HIDE DEF new
  <2>3. LinesOf(new) = {new[i] : i \in DOMAIN new}
    BY <1>1 DEF LinesOf
  <2>4. LinesOf(file) = {file[i] : i \in DOMAIN file}
    BY <1>3 DEF LinesOf
  <2>5. \A i \in DOMAIN new : i \in DOMAIN file \/ i = Len(file) + 1
    BY <2>2
  <2>6. DOMAIN file \subseteq DOMAIN new /\ Len(file) + 1 \in DOMAIN new
    BY <2>2
  <2>7. LinesOf(new) = LinesOf(file) \cup {line}
    BY <2>2, <2>3, <2>4, <2>5, <2>6
  <2>8. ASSUME OneEach(file), \A l \in LinesOf(file) : l.key # line.key
        PROVE  OneEach(new)
    <3>1. \A i \in DOMAIN file : new[i] = file[i] /\ file[i].key # line.key
      BY <2>2, <2>4, <2>8
    <3> QED
      BY <1>3, <2>2, <2>5, <2>8, <3>1 DEF OneEach
  <2> QED
    BY <2>7, <2>8 DEF new
<1> QED
  BY <1>2, <1>3

LEMMA LinesRead ==
    ASSUME NEW q \in Seq(Lines), q # <<>>
    PROVE  /\ LinesOf(q) = {Head(q)} \cup LinesOf(Tail(q))
           /\ OneEach(q) => /\ OneEach(Tail(q))
                            /\ \A l \in LinesOf(Tail(q)) : l.key # Head(q).key
<1> DEFINE r == Tail(q)
<1>1. q # Missing /\ r \in Seq(Lines) /\ r # Missing
  BY MissingIsNoFile, HeadTail
<1>2. /\ Len(q) \in Nat \ {0} /\ DOMAIN q = 1..Len(q) /\ Head(q) = q[1]
      /\ DOMAIN r = 1..(Len(q) - 1)
      /\ \A i \in 1..(Len(q) - 1) : r[i] = q[i + 1]
  OBVIOUS
<1> HIDE DEF r
<1>3. LinesOf(q) = {q[i] : i \in DOMAIN q} /\ LinesOf(r) = {r[i] : i \in DOMAIN r}
  BY <1>1 DEF LinesOf
<1>4. \A i \in DOMAIN r : i \in Nat /\ i + 1 \in DOMAIN q /\ r[i] = q[i + 1] /\ i + 1 # 1
  BY <1>2
<1>5. \A i \in DOMAIN q : i = 1 \/ (i - 1 \in DOMAIN r /\ q[i] = r[i - 1])
  BY <1>2
<1>6. 1 \in DOMAIN q
  BY <1>2
<1>7. LinesOf(q) = {Head(q)} \cup LinesOf(r)
  BY <1>2, <1>3, <1>4, <1>5, <1>6
<1>8. ASSUME OneEach(q)
      PROVE  OneEach(r) /\ \A l \in LinesOf(r) : l.key # Head(q).key
  <2>1. \A i \in DOMAIN r : r[i].key # q[1].key
    BY <1>1, <1>4, <1>6, <1>8 DEF OneEach
  <2>2. ASSUME NEW i \in DOMAIN r, NEW j \in DOMAIN r, r[i].key = r[j].key
        PROVE  i = j
    <3>1. i + 1 = j + 1
      BY <1>1, <1>4, <1>8, <2>2 DEF OneEach
    <3> QED
      BY <1>4, <3>1
  <2> QED
    BY <1>2, <1>3, <2>1, <2>2 DEF OneEach
<1> QED
  BY <1>7, <1>8 DEF r

(* The value of a setting is that of its one line.                         *)
ValueIn(file, k) ==
    LET found == IF file = Missing THEN {}
                 ELSE {i \in DOMAIN file : file[i].key = k}
    IN  IF found = {} THEN Missing ELSE file[Max(found)].val

LEMMA ValueOfLine ==
    ASSUME NEW file, file = Missing \/ file \in Seq(Lines), OneEach(file), NEW k
    PROVE  /\ \A l \in LinesOf(file) : l.key = k => ValueIn(file, k) = l.val
           /\ (\A l \in LinesOf(file) : l.key # k) => ValueIn(file, k) = Missing
<1> DEFINE found == IF file = Missing THEN {}
                    ELSE {i \in DOMAIN file : file[i].key = k}
<1>1. ValueIn(file, k) = IF found = {} THEN Missing ELSE file[Max(found)].val
  BY DEF ValueIn
<1>2. ASSUME NEW l \in LinesOf(file), l.key = k PROVE ValueIn(file, k) = l.val
  <2>1. PICK i \in DOMAIN file : file # Missing /\ file[i] = l
    BY <1>2 DEF LinesOf
  <2>2. found = {i} /\ i \in Nat
    BY <1>2, <2>1 DEF OneEach
  <2> HIDE DEF found
  <2>3. Max(found) = i
    BY <2>2 DEF Max
  <2> QED
    BY <1>1, <2>1, <2>2, <2>3
<1>3. ASSUME \A l \in LinesOf(file) : l.key # k PROVE ValueIn(file, k) = Missing
  <2>1. found = {}
    BY <1>3 DEF LinesOf
  <2> HIDE DEF found
  <2> QED
    BY <1>1, <2>1
<1> QED
  BY <1>2, <1>3

(* One line of the settings is copied, or left out.                        *)
LEMMA ConfigLineStep ==
    ASSUME FileType, ConfigInv, ConfigLine
    PROVE  /\ ConfigInv' /\ unread' \in Seq(Lines)
           /\ temp' = Missing \/ temp' \in Seq(Lines)
<1> DEFINE line == Head(unread)
<1>1. /\ pc = "config" /\ unread # <<>> /\ unread' = Tail(unread)
      /\ temp' = IF line.key = arg.key THEN temp ELSE AppendLine(temp, line)
      /\ UNCHANGED <<pc, arg, config, heapless>>
  BY Zenon DEF ConfigLine
<1>2. /\ line \in Lines /\ unread' \in Seq(Lines) /\ unread \in Seq(Lines)
      /\ temp = Missing \/ temp \in Seq(Lines)
  BY <1>1, HeadTail DEF FileType
<1>3. /\ OneEach(config) /\ OneEach(temp) /\ OneEach(unread) /\ Apart(temp, unread)
      /\ arg \in [key : Keys, val : Values \cup {Missing}] /\ ~heapless
      /\ LinesOf(temp) \cup Others(LinesOf(unread), arg.key)
            = Others(LinesOf(config), arg.key)
      /\ \A l \in LinesOf(temp) : l.key # arg.key
  BY <1>1 DEF ConfigInv
<1>4. /\ LinesOf(unread) = {line} \cup LinesOf(unread')
      /\ OneEach(unread') /\ \A l \in LinesOf(unread') : l.key # line.key
  BY <1>1, <1>2, <1>3, LinesRead
<1>5. \A l \in LinesOf(temp) : l.key # line.key
  BY <1>3, <1>4 DEF Apart
<1>6. CASE line.key = arg.key
  <2>1. temp' = temp
    BY <1>1, <1>6
  <2>2. Others(LinesOf(unread), arg.key) = Others(LinesOf(unread'), arg.key)
    BY <1>4, <1>6 DEF Others
  <2>3. Apart(temp', unread')
    BY <1>3, <1>4, <2>1 DEF Apart
  <2> QED
    BY <1>1, <1>2, <1>3, <1>4, <2>1, <2>2, <2>3 DEF ConfigInv
<1>7. CASE line.key # arg.key
  <2>1. temp' = AppendLine(temp, line)
    BY <1>1, <1>7
  <2>2. /\ temp' \in Seq(Lines) /\ LinesOf(temp') = LinesOf(temp) \cup {line}
        /\ OneEach(temp')
    BY <1>2, <1>3, <1>5, <2>1, AppendLineType, LinesAppended
  <2>3. LinesOf(temp') \cup Others(LinesOf(unread'), arg.key)
           = LinesOf(temp) \cup Others(LinesOf(unread), arg.key)
    BY <1>4, <1>7, <2>2 DEF Others
  <2>4. Apart(temp', unread') /\ \A l \in LinesOf(temp') : l.key # arg.key
    BY <1>3, <1>4, <1>7, <2>2 DEF Apart
  <2> QED
    BY <1>1, <1>2, <1>3, <1>4, <2>2, <2>3, <2>4 DEF ConfigInv
<1> QED
  BY <1>6, <1>7

LEMMA NoLinesOf == LinesOf(<<>>) = {} /\ LinesOf(Missing) = {}
                   /\ OneEach(<<>>) /\ OneEach(Missing)
BY DEF LinesOf, OneEach

LEMMA AppendConfigStep ==
    ASSUME FileType, ConfigInv, AppendConfig
    PROVE  ConfigInv' /\ temp' \in Seq(Lines)
<1>1. /\ pc = "config" /\ unread = <<>> /\ arg.val # Missing /\ pc' = "configSwitch"
      /\ temp' = AppendLine(temp, arg)
      /\ UNCHANGED <<arg, unread, config, heapless>>
  BY Zenon DEF AppendConfig
<1>2. /\ temp = Missing \/ temp \in Seq(Lines)
      /\ OneEach(config) /\ OneEach(temp)
      /\ arg \in [key : Keys, val : Values \cup {Missing}]
      /\ \A l \in LinesOf(temp) : l.key # arg.key
      /\ heapless => temp = Missing
      /\ ~heapless => LinesOf(temp) \cup Others(LinesOf(unread), arg.key)
                             = Others(LinesOf(config), arg.key)
  BY <1>1 DEF ConfigInv, FileType
<1>3. arg \in Lines
  <2>1. arg = Setting(arg.key, arg.val) /\ arg.key \in Keys /\ arg.val \in Values
    BY <1>1, <1>2 DEF Setting
  <2> QED
    BY <2>1, LineTypes
<1>4. /\ temp' \in Seq(Lines) /\ temp' # Missing /\ OneEach(temp')
      /\ LinesOf(temp') = LinesOf(temp) \cup {arg}
  BY <1>1, <1>2, <1>3, AppendLineType, LinesAppended
<1>5. Others(LinesOf(unread), arg.key) = {}
  BY <1>1, NoLinesOf DEF Others
<1>6. LinesOf(temp) = IF heapless THEN {} ELSE Others(LinesOf(config), arg.key)
  BY <1>2, <1>5, NoLinesOf
<1> QED
  BY <1>1, <1>2, <1>4, <1>6 DEF ConfigInv

(* What the rename makes of the settings.                                  *)
LEMMA SwitchedConfig ==
    ASSUME FileType, ConfigInv, ConfigSwitch
    PROVE  /\ arg \in [key : Keys, val : Values \cup {Missing}]
           /\ config' = Missing \/ config' \in Seq(SettingLines)
           /\ OneEach(config')
           /\ \/ config' = config
              \/ LinesOf(config') =
                   {l \in {arg} : l.val # Missing}
                     \cup (IF heapless THEN {} ELSE Others(LinesOf(config), arg.key))
<1>1. /\ config' = IF temp = Missing THEN config ELSE temp
      /\ \/ pc = "configSwitch"
         \/ pc = "config" /\ unread = <<>> /\ arg.val = Missing
  BY DEF ConfigSwitch, RenameOver
<1>2. /\ arg \in [key : Keys, val : Values \cup {Missing}]
      /\ OneEach(temp) /\ OneEach(config)
  BY <1>1 DEF ConfigInv
<1>3. CASE temp = Missing
  BY <1>1, <1>2, <1>3 DEF FileType
<1>4. CASE temp # Missing
  <2>1. config' = temp /\ temp \in Seq(Lines)
    BY <1>1, <1>4 DEF FileType
  <2>2. LinesOf(temp) = {l \in {arg} : l.val # Missing}
                     \cup (IF heapless THEN {} ELSE Others(LinesOf(config), arg.key))
    <3>1. CASE pc = "configSwitch"
      BY <3>1 DEF ConfigInv
    <3>2. CASE pc = "config" /\ unread = <<>> /\ arg.val = Missing
      <4>1. ~heapless /\ Others(LinesOf(unread), arg.key) = {}
        BY <1>4, <3>2, NoLinesOf DEF ConfigInv, Others
      <4> QED
        BY <3>2, <4>1 DEF ConfigInv
    <3> QED
      BY <1>1, <3>1, <3>2
  <2>3. \A l \in LinesOf(config) : l \in SettingLines
    BY DEF FileType, LinesOf
  <2>4. arg.val # Missing => arg \in SettingLines
    <3>1. arg = Setting(arg.key, arg.val) /\ arg.key \in Keys
          /\ arg.val \in Values \cup {Missing}
      BY <1>2 DEF Setting
    <3> QED
      BY <3>1, LineTypes
  <2>5. \A l \in LinesOf(temp) : l \in SettingLines
    BY <2>2, <2>3, <2>4 DEF Others
  <2>6. temp \in Seq(SettingLines)
    <3>1. \A i \in 1..Len(temp) : temp[i] \in SettingLines
      BY <1>4, <2>1, <2>5 DEF LinesOf
    <3> QED
      BY <2>1, <3>1
  <2> QED
    BY <1>2, <2>1, <2>2, <2>6
<1> QED
  BY <1>3, <1>4

-----------------------------------------------------------------------------
(* The files, and what is known of them.                                   *)
FilesInv == FileType /\ SaveInv /\ TrimInv /\ GetInv /\ ConfigInv

LEMMA SaveSteps ==
    ASSUME FilesInv, OtherType,
           \/ \E r \in Records : SaveRecord(r)
           \/ CheckSize \/ TrimLine \/ TrimSwitch
    PROVE  FilesInv'
<1>0. /\ FileType /\ SaveInv /\ TrimInv /\ GetInv /\ ConfigInv
      /\ OneEach(config) /\ data \in Seq(Lines) /\ Len(data) \in Nat
  BY DataLines DEF FilesInv, ConfigInv, FileType
<1>1. ASSUME NEW r \in Records, SaveRecord(r) PROVE FilesInv'
  <2>1. /\ pc = "idle" /\ pc' = "size" /\ arg' = Record(r)
        /\ \A i \in DOMAIN data : data[i] # Record(r)
        /\ UNCHANGED <<unread, temp, data, config, heapless>>
    BY <1>1, Zenon DEF SaveRecord
  <2>2. arg' \in RecordLines
    BY <2>1, LineTypes
  <2>3. SaveInv'
    BY <1>0, <2>1, <2>2 DEF SaveInv
  <2>4. FileType' /\ TrimInv' /\ GetInv' /\ ConfigInv'
    BY <1>0, <2>1 DEF FileType, TrimInv, GetInv, ConfigInv
  <2> QED
    BY <2>3, <2>4 DEF FilesInv
<1>2. CASE CheckSize
  <2>1. /\ pc = "size" /\ UNCHANGED <<arg, temp, data, config, heapless>>
        /\ \/ Len(data) < MAX_DATA_RECORDS /\ pc' = "copy" /\ unread' = unread
           \/ ~(Len(data) < MAX_DATA_RECORDS) /\ pc' = "trim" /\ unread' = data
    BY <1>2, Zenon DEF CheckSize
  <2>2. temp = Missing /\ Len(data) <= MAX_DATA_RECORDS
    BY <1>0, <2>1 DEF SaveInv
  <2>3. SaveInv'
    BY <1>0, <2>1, <2>2 DEF SaveInv
  <2>4. TrimInv'
    BY <1>0, <2>1, <2>2, Constants DEF TrimInv
  <2>5. FileType' /\ GetInv' /\ ConfigInv'
    BY <1>0, <2>1 DEF FileType, GetInv, ConfigInv
  <2> QED
    BY <2>3, <2>4, <2>5 DEF FilesInv
<1>3. CASE TrimLine
  <2>1. pc = "trim" /\ UNCHANGED <<pc, arg, data, config, heapless>>
    BY <1>3, Zenon DEF TrimLine
  <2>2. TrimInv' /\ unread' \in Seq(Lines) /\ (temp' = Missing \/ temp' \in Seq(Lines))
    BY <1>0, <1>3, TrimStep
  <2>3. SaveInv' /\ FileType' /\ GetInv' /\ ConfigInv'
    BY <1>0, <2>1, <2>2 DEF SaveInv, FileType, GetInv, ConfigInv
  <2> QED
    BY <2>2, <2>3 DEF FilesInv
<1>4. CASE TrimSwitch
  <2>1. /\ pc = "trim" /\ pc' = "size" /\ temp' = Missing
        /\ UNCHANGED <<arg, unread, config, heapless>>
    BY <1>4, Zenon DEF TrimSwitch
  <2>2. /\ data # <<>> /\ data' = Tail(data) /\ Len(data) = MAX_DATA_RECORDS
        /\ data' \in Seq(RecordLines)
    BY <1>0, <1>4, TrimmedLog
  <2>3. /\ Len(data') = Len(data) - 1
        /\ \A i \in DOMAIN data' : \E j \in DOMAIN data : data'[i] = data[j]
    <3>1. \A i \in DOMAIN Tail(data) : i + 1 \in DOMAIN data
                                       /\ Tail(data)[i] = data[i + 1]
      BY <1>0, <2>2
    <3> QED
      BY <1>0, <2>2, <3>1, MoveLine
  <2>4. arg \in RecordLines /\ \A i \in DOMAIN data : data[i] # arg
    BY <1>0, <2>1 DEF SaveInv
  <2>5. SaveInv'
    BY <1>0, <2>1, <2>2, <2>3, <2>4, Constants DEF SaveInv
  <2>6. FileType' /\ TrimInv' /\ GetInv' /\ ConfigInv'
    BY <1>0, <2>1, <2>2 DEF FileType, TrimInv, GetInv, ConfigInv
  <2> QED
    BY <2>5, <2>6 DEF FilesInv
<1> QED
  BY <1>1, <1>2, <1>3, <1>4

LEMMA CopySteps ==
    ASSUME FilesInv, CopyOpen \/ CopyDone \/ AppendRecord \/ SaveSwitch
    PROVE  FilesInv'
<1>0. /\ FileType /\ SaveInv /\ TrimInv /\ GetInv /\ ConfigInv
      /\ OneEach(config) /\ data \in Seq(Lines) /\ Len(data) \in Nat
  BY DataLines DEF FilesInv, ConfigInv, FileType
<1>1. CASE CopyOpen
  BY <1>0, <1>1
     DEF CopyOpen, FilesInv, FileType, SaveInv, TrimInv, GetInv, ConfigInv
<1>2. CASE CopyDone
  BY <1>0, <1>2
     DEF CopyDone, FilesInv, FileType, SaveInv, TrimInv, GetInv, ConfigInv
<1>3. CASE AppendRecord
  <2>1. /\ pc = "append" /\ pc' = "switch" /\ temp' = AppendLine(temp, arg)
        /\ UNCHANGED <<arg, unread, data, config, heapless>>
    BY <1>3, Zenon DEF AppendRecord
  <2>2. temp = data /\ temp # Missing /\ arg \in RecordLines
    BY <1>0, <2>1, MissingIsNoFile DEF SaveInv
  <2>3. temp' = Append(data, arg)
    BY <2>1, <2>2 DEF AppendLine
  <2>4. temp' \in Seq(Lines)
    BY <1>0, <2>2, <2>3, LineTypes
  <2>5. SaveInv'
    BY <1>0, <2>1, <2>3 DEF SaveInv
  <2>6. FileType' /\ TrimInv' /\ GetInv' /\ ConfigInv'
    BY <1>0, <2>1, <2>4 DEF FileType, TrimInv, GetInv, ConfigInv
  <2> QED
    BY <2>5, <2>6 DEF FilesInv
<1>4. CASE SaveSwitch
  <2>1. /\ pc' = "idle" /\ temp' = Missing
        /\ UNCHANGED <<unread, config, heapless>>
    BY <1>4, Zenon DEF SaveSwitch
  <2>2. /\ data' = Append(data, arg) /\ Len(data) < MAX_DATA_RECORDS
        /\ data' \in Seq(RecordLines)
    BY <1>0, <1>4, SavedLog
  <2>3. Len(data') = Len(data) + 1
    BY <1>0, <2>2
  <2>4. SaveInv'
    BY <1>0, <2>1, <2>2, <2>3, Constants DEF SaveInv
  <2>5. FileType' /\ TrimInv' /\ GetInv' /\ ConfigInv'
    BY <1>0, <2>1, <2>2 DEF FileType, TrimInv, GetInv, ConfigInv
  <2> QED
    BY <2>4, <2>5 DEF FilesInv
<1> QED
  BY <1>1, <1>2, <1>3, <1>4

LEMMA GetSteps ==
    ASSUME FilesInv, GetNextRecord \/ GetLine \/ GetSwitch
    PROVE  FilesInv'
<1>0. /\ FileType /\ SaveInv /\ TrimInv /\ GetInv /\ ConfigInv
      /\ OneEach(config) /\ data \in Seq(Lines) /\ Len(data) \in Nat
      /\ Len(data) <= MAX_DATA_RECORDS
  BY DataLines DEF FilesInv, ConfigInv, SaveInv, FileType
<1>1. CASE GetNextRecord
  <2>1. /\ pc' = "get" /\ temp' = <<>> /\ unread' = data
        /\ UNCHANGED <<arg, data, config, heapless>>
    BY <1>1, Zenon DEF GetNextRecord
  <2>2. temp' \in Seq(Lines) /\ temp' # Missing
    <3>1. <<>> \in Seq(Lines)
      OBVIOUS
    <3> QED
      BY <2>1, <3>1, MissingIsNoFile
  <2> QED
    BY <1>0, <2>1, <2>2
       DEF FilesInv, FileType, SaveInv, TrimInv, GetInv, ConfigInv
<1>2. CASE GetLine
  <2>1. pc = "get" /\ UNCHANGED <<pc, data, config, heapless>>
    BY <1>2, Zenon DEF GetLine
  <2>2. GetInv' /\ unread' \in Seq(Lines) /\ (temp' = Missing \/ temp' \in Seq(Lines))
    BY <1>0, <1>2, GetStep
  <2> QED
    BY <1>0, <2>1, <2>2
       DEF FilesInv, FileType, SaveInv, TrimInv, ConfigInv
<1>3. CASE GetSwitch
  <2>1. pc' = "idle" /\ temp' = Missing /\ UNCHANGED <<unread, config, heapless>>
    BY <1>3, Zenon DEF GetSwitch
  <2>2. data' \in Seq(RecordLines) /\ (data' = data \/ (data # <<>> /\ data' = Tail(data)))
    BY <1>0, <1>3, FetchedLog
  <2>3. Len(data') <= MAX_DATA_RECORDS
    BY <1>0, <2>2, Constants, MoveLine
  <2> QED
    BY <1>0, <2>1, <2>2, <2>3
       DEF FilesInv, FileType, SaveInv, TrimInv, GetInv, ConfigInv
<1> QED
  BY <1>1, <1>2, <1>3

LEMMA ConfigSteps ==
    ASSUME FilesInv,
           \/ \E k \in Keys, v \in Values \cup {Missing} : SaveConfig(k, v)
           \/ ConfigLine \/ AppendConfig \/ ConfigSwitch
    PROVE  FilesInv'
<1>0. /\ FileType /\ SaveInv /\ TrimInv /\ GetInv /\ ConfigInv
      /\ OneEach(config) /\ Len(data) <= MAX_DATA_RECORDS
  BY DEF FilesInv, ConfigInv, SaveInv
<1>1. ASSUME NEW k \in Keys, NEW v \in Values \cup {Missing}, SaveConfig(k, v)
      PROVE  FilesInv'
  <2>1. /\ pc = "idle" /\ pc' = "config" /\ arg' = Setting(k, v)
        /\ UNCHANGED <<temp, data, config>>
        /\ \/ unread' = (IF config = Missing THEN <<>> ELSE config)
              /\ heapless' = FALSE
           \/ unread' = <<>> /\ heapless' = TRUE
    BY <1>1, Zenon DEF SaveConfig
  <2>2. /\ temp' = Missing /\ arg' \in [key : Keys, val : Values \cup {Missing}]
    BY <1>0, <2>1 DEF SaveInv, Setting
  <2>3. /\ OneEach(temp') /\ LinesOf(temp') = {}
        /\ OneEach(unread') /\ unread' \in Seq(Lines)
    <3>1. unread' = <<>> \/ (unread' = config /\ config # Missing)
      BY <2>1
    <3>2. <<>> \in Seq(Lines) /\ (config # Missing => config \in Seq(Lines))
      BY <1>0, DataLines
    <3> QED
      BY <1>0, <2>2, <3>1, <3>2, NoLinesOf
  <2>4. Apart(temp', unread')
    BY <2>3 DEF Apart
  <2>5. ~heapless' => LinesOf(unread') = LinesOf(config)
    BY <2>1, NoLinesOf
  <2>6. ~heapless' => LinesOf(temp') \cup Others(LinesOf(unread'), arg'.key)
                         = Others(LinesOf(config'), arg'.key)
    BY <2>1, <2>3, <2>5 DEF Others
  <2>7. heapless' => unread' = <<>>
    BY <2>1, Zenon
  <2>8. ConfigInv'
    BY <1>0, <2>1, <2>2, <2>3, <2>4, <2>6, <2>7 DEF ConfigInv
  <2> QED
    BY <1>0, <2>1, <2>2, <2>3, <2>8 DEF FilesInv, FileType, SaveInv, TrimInv, GetInv
<1>2. CASE ConfigLine
  <2>1. pc = "config" /\ UNCHANGED <<pc, arg, data, config>>
    BY <1>2, Zenon DEF ConfigLine
  <2>2. ConfigInv' /\ unread' \in Seq(Lines) /\ (temp' = Missing \/ temp' \in Seq(Lines))
    BY <1>0, <1>2, ConfigLineStep
  <2> QED
    BY <1>0, <2>1, <2>2 DEF FilesInv, FileType, SaveInv, TrimInv, GetInv
<1>3. CASE AppendConfig
  <2>1. pc' = "configSwitch" /\ UNCHANGED <<arg, unread, data, config>>
    BY <1>3, Zenon DEF AppendConfig
  <2>2. ConfigInv' /\ temp' \in Seq(Lines)
    BY <1>0, <1>3, AppendConfigStep
  <2> QED
    BY <1>0, <2>1, <2>2 DEF FilesInv, FileType, SaveInv, TrimInv, GetInv
<1>4. CASE ConfigSwitch
  <2>1. pc' = "idle" /\ temp' = Missing /\ UNCHANGED <<unread, data>>
    BY <1>4, Zenon DEF ConfigSwitch
  <2>2. OneEach(config') /\ (config' = Missing \/ config' \in Seq(SettingLines))
    BY <1>0, <1>4, SwitchedConfig
  <2> QED
    BY <1>0, <2>1, <2>2
       DEF FilesInv, FileType, SaveInv, TrimInv, GetInv, ConfigInv
<1> QED
  BY <1>1, <1>2, <1>3, <1>4

LEMMA OtherSteps ==
    ASSUME FilesInv, Crash \/ Restart \/ UNCHANGED vars
    PROVE  FilesInv'
<1>0. /\ FileType /\ SaveInv /\ TrimInv /\ GetInv /\ ConfigInv
      /\ OneEach(config) /\ Len(data) <= MAX_DATA_RECORDS
  BY DEF FilesInv, ConfigInv, SaveInv
<1>1. CASE Crash
  <2>1. pc' = "down" /\ unread' = <<>> /\ UNCHANGED <<temp, data, config>>
    BY <1>1, Zenon DEF Crash
  <2> QED
    BY <1>0, <2>1
       DEF FilesInv, FileType, SaveInv, TrimInv, GetInv, ConfigInv
<1>2. CASE Restart
  <2>1. pc' = "idle" /\ temp' = Missing /\ UNCHANGED <<unread, data, config>>
    BY <1>2, Zenon DEF Restart
  <2> QED
    BY <1>0, <2>1
       DEF FilesInv, FileType, SaveInv, TrimInv, GetInv, ConfigInv
<1>3. CASE UNCHANGED vars
  BY <1>0, <1>3
     DEF vars, FilesInv, FileType, SaveInv, TrimInv, GetInv, ConfigInv
<1> QED
  BY <1>1, <1>2, <1>3

LEMMA InvParts == StorageInv <=> FilesInv /\ OtherType /\ heapless \in BOOLEAN
BY TypeParts, Zenon DEF StorageInv, FilesInv

LEMMA InitStorage == Init => StorageInv
<1> SUFFICES ASSUME Init PROVE StorageInv
  OBVIOUS
<1>1. FileType /\ OtherType
  BY NoLineType DEF Init, FileType, OtherType
<1>2. SaveInv /\ TrimInv /\ GetInv /\ ConfigInv
  BY Constants, NoLinesOf DEF Init, SaveInv, TrimInv, GetInv, ConfigInv
<1>3. heapless \in BOOLEAN
  BY Zenon DEF Init
<1> QED
  BY <1>1, <1>2, <1>3, InvParts, Zenon DEF FilesInv

LEMMA NextStorage == StorageInv /\ [Next]_vars => StorageInv'
<1> SUFFICES ASSUME FilesInv, OtherType, heapless \in BOOLEAN, [Next]_vars
             PROVE  FilesInv' /\ OtherType' /\ heapless' \in BOOLEAN
  BY InvParts, Zenon DEF StorageInv, FilesInv, TypeOK, FileType, OtherType
<1>1. OtherType' /\ heapless' \in BOOLEAN
  BY NextOther, NextHeapless, Zenon DEF FilesInv
<1>2. FilesInv'
  BY SaveSteps, CopySteps, GetSteps, ConfigSteps, OtherSteps, Zenon
     DEF Next, Continue
<1> QED
  BY <1>1, <1>2

LEMMA AlwaysStorage == Spec => []StorageInv
BY InitStorage, NextStorage, PTL DEF Spec

(* Every variable keeps its type: no line of one file ever gets into the   *)
(* other, though both are rewritten through the same temporary file and    *)
(* that file outlives a crash.                                             *)
THEOREM TypeCorrect == Spec => []TypeOK
<1>1. StorageInv => TypeOK
  BY DEF StorageInv
<1> QED
  BY <1>1, AlwaysStorage, PTL

-----------------------------------------------------------------------------
(* The steps of the storage are steps of DurableStore, or change nothing   *)
(* that it sees: only a rename does.                                       *)
Settings == [k \in Keys |-> ValueOf(k)]

LEMMA StoreUnchanged ==
    ASSUME UNCHANGED <<data, fetched, config>>
    PROVE  UNCHANGED Promised!storeVars
BY DEF Promised!storeVars, ValueOf

LEMMA LogSteps ==
    ASSUME StorageInv, SaveSwitch \/ TrimSwitch \/ GetSwitch
    PROVE  [Promised!StoreNext]_(Promised!storeVars)
<1>0. FileType /\ SaveInv /\ TrimInv /\ GetInv /\ data \in Seq(RecordLines)
  BY TypeParts DEF StorageInv, FileType
<1>1. UNCHANGED config => UNCHANGED Settings
  BY DEF Settings, ValueOf
<1>2. CASE SaveSwitch
  <2>1. fetched' = fetched \ {arg} /\ UNCHANGED config
    BY <1>2, Zenon DEF SaveSwitch
  <2>2. /\ data' = Append(data, arg) /\ arg \in RecordLines
        /\ Len(data) < MAX_DATA_RECORDS
        /\ \A i \in DOMAIN data : data[i] # arg
    BY <1>0, <1>2, SavedLog
  <2>3. Promised!Push(arg)
    BY <1>1, <2>1, <2>2 DEF Promised!Push, Settings
  <2> QED
    BY <2>2, <2>3 DEF Promised!StoreNext
<1>3. CASE TrimSwitch
  <2>1. UNCHANGED <<fetched, config>>
    BY <1>3, Zenon DEF TrimSwitch
  <2>2. data' = Tail(data) /\ Len(data) = MAX_DATA_RECORDS
    BY <1>0, <1>3, TrimmedLog
  <2>3. Promised!DropOldest
    BY <1>1, <2>1, <2>2 DEF Promised!DropOldest, Settings
  <2> QED
    BY <2>3 DEF Promised!StoreNext
<1>4. CASE GetSwitch
  <2>1. UNCHANGED config
    BY <1>4, Zenon DEF GetSwitch
  <2>2. /\ data = <<>> => data' = <<>> /\ fetched' = fetched
        /\ data # <<>> => data' = Tail(data) /\ fetched' = fetched \cup {Head(data)}
    BY <1>0, <1>4, FetchedLog
  <2>3. CASE data = <<>>
    BY <2>1, <2>2, <2>3, StoreUnchanged
  <2>4. CASE data # <<>>
    <3>1. Promised!Take
      BY <1>1, <2>1, <2>2, <2>4 DEF Promised!Take, Settings
    <3> QED
      BY <3>1 DEF Promised!StoreNext
  <2> QED
    BY <2>3, <2>4
<1> QED
  BY <1>2, <1>3, <1>4

(* The settings that a rename brings.                                      *)
LEMMA SettingsSwitched ==
    ASSUME StorageInv, ConfigSwitch, config' # config
    PROVE  /\ arg.key \in Keys /\ arg.val \in Values \cup {Missing}
           /\ \A k \in Keys : ValueIn(config', k) =
                 CASE k = arg.key -> arg.val
                   [] k # arg.key /\ heapless -> Missing
                   [] OTHER -> ValueIn(config, k)
<1>0. FileType /\ ConfigInv /\ OneEach(config)
  BY TypeParts DEF StorageInv, ConfigInv
<1> DEFINE kept == IF heapless THEN {} ELSE Others(LinesOf(config), arg.key)
           rest == {l \in {arg} : l.val # Missing}
<1>1. /\ arg \in [key : Keys, val : Values \cup {Missing}]
      /\ config' = Missing \/ config' \in Seq(SettingLines)
      /\ OneEach(config')
      /\ LinesOf(config') = rest \cup kept
  BY <1>0, SwitchedConfig
<1>2. arg.key \in Keys /\ arg.val \in Values \cup {Missing}
  BY <1>1
<1>3. /\ config = Missing \/ config \in Seq(Lines)
      /\ config' = Missing \/ config' \in Seq(Lines)
  BY <1>0, <1>1, LineTypes, SeqSub DEF FileType
<1>4. ASSUME NEW k
      PROVE  /\ \A l \in LinesOf(config) : l.key = k => ValueIn(config, k) = l.val
             /\ (\A l \in LinesOf(config) : l.key # k) => ValueIn(config, k) = Missing
             /\ \A l \in LinesOf(config') : l.key = k => ValueIn(config', k) = l.val
             /\ (\A l \in LinesOf(config') : l.key # k) => ValueIn(config', k) = Missing
  BY <1>0, <1>1, <1>3, ValueOfLine
<1>5. \A l \in kept : l.key # arg.key
  BY DEF Others
<1>6. \A l \in rest : l = arg /\ l.val # Missing
  OBVIOUS
<1>7. ValueIn(config', arg.key) = arg.val
  <2>1. CASE arg.val = Missing
    <3>1. \A l \in LinesOf(config') : l.key # arg.key
      BY <1>1, <1>5, <1>6, <2>1
    <3> QED
      BY <1>4, <2>1, <3>1
  <2>2. CASE arg.val # Missing
    <3>1. arg \in LinesOf(config')
      BY <1>1, <2>2
    <3> QED
      BY <1>4, <3>1
  <2> QED
    BY <2>1, <2>2
<1>8. ASSUME NEW k \in Keys, k # arg.key
      PROVE  ValueIn(config', k) = IF heapless THEN Missing ELSE ValueIn(config, k)
  <2>1. \A l \in LinesOf(config') : l.key = k => l \in kept
    BY <1>1, <1>6, <1>8
  <2>2. CASE heapless
    BY <1>4, <2>1, <2>2
  <2>3. CASE ~heapless
    <3>1. \A l \in LinesOf(config') : l.key = k => l \in LinesOf(config)
      BY <2>1, <2>3 DEF Others
    <3>2. \A l \in LinesOf(config) : l.key = k => l \in LinesOf(config')
      BY <1>1, <1>8, <2>3 DEF Others
    <3> QED
      BY <1>4, <2>3, <3>1, <3>2
  <2> QED
    BY <2>2, <2>3
<1> QED
  BY <1>2, <1>7, <1>8

LEMMA SettingSteps ==
    ASSUME StorageInv, ConfigSwitch
    PROVE  [Promised!StoreNext]_(Promised!storeVars)
<1>1. UNCHANGED <<data, fetched>>
  BY Zenon DEF ConfigSwitch
<1>2. CASE config' = config
  BY <1>1, <1>2, StoreUnchanged
<1>3. CASE config' # config
  <2>1. /\ arg.key \in Keys /\ arg.val \in Values \cup {Missing}
        /\ \A k \in Keys : ValueIn(config', k) =
                 CASE k = arg.key -> arg.val
                   [] k # arg.key /\ heapless -> Missing
                   [] OTHER -> ValueIn(config, k)
    BY <1>3, SettingsSwitched
  <2>2. /\ Settings = [k \in Keys |-> ValueIn(config, k)]
        /\ Settings' = [k \in Keys |-> ValueIn(config', k)]
    BY DEF Settings, ValueOf, ValueIn
  <2>3. CASE heapless
    <3>1. Settings' = [s \in Keys |-> IF s = arg.key THEN arg.val ELSE Missing]
      BY <2>1, <2>2, <2>3
    <3>2. Promised!SetAlone(arg.key, arg.val)
      BY <1>1, <2>3, <3>1 DEF Promised!SetAlone, Settings
    <3> QED
      BY <2>1, <3>2 DEF Promised!StoreNext
  <2>4. CASE ~heapless
    <3>1. Settings' = [Settings EXCEPT ![arg.key] = arg.val]
      BY <2>1, <2>2, <2>4
    <3>2. Promised!Set(arg.key, arg.val)
      BY <1>1, <3>1 DEF Promised!Set, Settings
    <3> QED
      BY <2>1, <3>2 DEF Promised!StoreNext
  <2> QED
    BY <2>3, <2>4
<1> QED
  BY <1>2, <1>3

LEMMA OtherStepsQuiet ==
    ASSUME [Next]_vars, ~(SaveSwitch \/ TrimSwitch \/ GetSwitch \/ ConfigSwitch)
    PROVE  UNCHANGED <<data, fetched, config>>
<1>1. ASSUME NEW k \in Keys, NEW v \in Values \cup {Missing}, SaveConfig(k, v)
      PROVE  UNCHANGED <<data, fetched, config>>
  BY <1>1, Zenon DEF SaveConfig
<1> QED
  BY <1>1, Zenon
     DEF Next, Continue, SaveRecord, CheckSize, TrimLine, CopyOpen, CopyDone,
         AppendRecord, GetNextRecord, GetLine, ConfigLine, AppendConfig, Crash,
         Restart, vars

LEMMA InitPromised == Init => Promised!StoreInit
BY DEF Init, Promised!StoreInit, ValueOf

LEMMA NextPromised ==
    StorageInv /\ [Next]_vars => [Promised!StoreNext]_(Promised!storeVars)
BY LogSteps, SettingSteps, OtherStepsQuiet, StoreUnchanged, Zenon

(* Whatever crashes, and whenever: the rolling log and the settings change *)
(* by whole operations of DurableStore only.                               *)
THEOREM StorageIsDurable == Spec => AllOrNothing
BY InitPromised, NextPromised, AlwaysStorage, PTL
   DEF Spec, AllOrNothing, Promised!Promise

=============================================================================
