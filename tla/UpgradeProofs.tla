---------------------------- MODULE UpgradeProofs ----------------------------
(***************************************************************************)
(* Theorems about Upgrade, for every set of files, every length, every     *)
(* distance between pings and every depth of nesting.                      *)
(***************************************************************************)
EXTENDS Upgrade, SequenceTheorems, TLAPS

CallType == [of : Files \cup {Nothing}, got : Nat, len : Nat, stage : Stage]

(* One call of handleFileTransfer, as the code has set it up.              *)
CallOK(t) ==
    /\ t.stage \in {"header", "open", "body"} => t.of \in Files
    /\ t.stage = "upload" => t.of = Nothing
    /\ t.stage \in {"header", "open"} => t.got = 0
    /\ t.of \in Files /\ t.stage \in {"open", "body", "ping"} =>
         /\ t.len \in {0, Size[t.of]} /\ t.got <= t.len
         /\ ~LengthMayBeMissing => t.len = Size[t.of]

(* The stack of calls: all but the innermost are at a ping.                *)
StackOK(q) ==
    \A i \in DOMAIN q : CallOK(q[i]) /\ (i > 1 => q[i].stage = "ping")

(* An open stream belongs to the innermost download, and the file has what *)
(* that download wrote.  A download that has the connection, or gets it    *)
(* back untouched, has its stream as well.                                 *)
Downloads(t) == t.of \in Files /\ t.stage \in {"body", "ping"}

Owner(q, file, i) ==
    /\ Downloads(q[i])
    /\ \A j \in DOMAIN q : j < i => ~Downloads(q[j])
    /\ file = [of |-> q[i].of, n |-> q[i].got]

StreamOK(q, stream, file, connection) ==
    /\ stream = "temp" => \E i \in DOMAIN q : Owner(q, file, i)
    /\ q # <<>> /\ q[1].stage = "open" => file = Missing
    /\ connection => \A i \in DOMAIN q :
          Downloads(q[i]) /\ (\A j \in DOMAIN q : j < i => q[j].stage = "ack")
              => stream # "closed"

(* A process that does not run has no transfer, and no open stream.        *)
ProcessInv == pc # "running" => transfers = <<>> /\ fs = "closed"

StackInv == StackOK(transfers)

StreamInv == StreamOK(transfers, fs, temp, http)

(* The binary while it is replaced.                                        *)
CopyInv ==
    /\ pc \in {"check", "running"} => Whole(binary)
    /\ pc \in {"copy", "copying", "clear"} => marked
    /\ pc = "copying" => /\ temp # Missing /\ binary # Missing
                         /\ binary.of = temp.of /\ binary.n <= temp.n
    /\ pc = "clear" => temp # Missing /\ binary = temp

-----------------------------------------------------------------------------
LEMMA Constants ==
    /\ Files # {} /\ Nothing \notin Files
    /\ Size \in [Files -> Nat \ {0}]
    /\ Missing \notin [of : Files, n : Nat]
    /\ OTA_PING \in Nat \ {0}
BY UpgradeAssumption DEF UpgradeAssumption

USE Constants

(* What a file can be: missing, or so many chunks of one that is known.    *)
LEMMA PrefixIs ==
    \A x : x \in Prefix <=> \/ x = Missing
                            \/ x \in [of : Files, n : Nat] /\ x.n <= Size[x.of]
<1>1. ASSUME NEW x, x \in Prefix
      PROVE  \/ x = Missing
             \/ x \in [of : Files, n : Nat] /\ x.n <= Size[x.of]
  BY <1>1 DEF Prefix
<1>2. ASSUME NEW x, x \in [of : Files, n : Nat], x.n <= Size[x.of]
      PROVE  x \in Prefix
  <2>1. x.of \in Files /\ x.n \in 0..Size[x.of] /\ x = [of |-> x.of, n |-> x.n]
    BY <1>2
  <2>2. x \in [of : {x.of}, n : 0..Size[x.of]]
    BY <2>1
  <2> QED
    BY <2>1, <2>2 DEF Prefix
<1>3. Missing \in Prefix
  BY DEF Prefix
<1> QED
  BY <1>1, <1>2, <1>3

(* The three ways in which the stack of calls changes.                     *)
LEMMA ReplaceTop ==
    ASSUME NEW S, NEW q \in Seq(S), q # <<>>, NEW x \in S
    PROVE  /\ <<x>> \o Tail(q) \in Seq(S)
           /\ <<x>> \o Tail(q) # <<>>
           /\ DOMAIN (<<x>> \o Tail(q)) = DOMAIN q /\ 1 \in DOMAIN q
           /\ (<<x>> \o Tail(q))[1] = x
           /\ \A i \in DOMAIN q : i # 1 => (<<x>> \o Tail(q))[i] = q[i]
           /\ \A i \in DOMAIN q : i \in Nat /\ i >= 1
OBVIOUS

LEMMA PushTop ==
    ASSUME NEW S, NEW q \in Seq(S), NEW x \in S
    PROVE  /\ <<x>> \o q \in Seq(S)
           /\ <<x>> \o q # <<>>
           /\ 1 \in DOMAIN (<<x>> \o q) /\ (<<x>> \o q)[1] = x
           /\ \A i \in DOMAIN q :
                 i \in Nat /\ i >= 1 /\ i + 1 \in DOMAIN (<<x>> \o q)
           /\ \A i \in DOMAIN (<<x>> \o q) :
                 /\ i \in Nat /\ i >= 1
                 /\ i # 1 => i - 1 \in DOMAIN q /\ (<<x>> \o q)[i] = q[i - 1]
OBVIOUS

LEMMA PopTop ==
    ASSUME NEW S, NEW q \in Seq(S), q # <<>>
    PROVE  /\ Tail(q) \in Seq(S) /\ 1 \in DOMAIN q
           /\ \A i \in DOMAIN Tail(q) :
                 i \in Nat /\ i >= 1 /\ i + 1 \in DOMAIN q /\ Tail(q)[i] = q[i + 1]
           /\ \A i \in DOMAIN q :
                 i \in Nat /\ i >= 1 /\ (i # 1 => i - 1 \in DOMAIN Tail(q))
OBVIOUS

LEMMA StackReplace ==
    ASSUME NEW q \in Seq(CallType), q # <<>>, StackOK(q),
           NEW t \in CallType, CallOK(t)
    PROVE  StackOK(<<t>> \o Tail(q))
BY ReplaceTop DEF StackOK

LEMMA StackPush ==
    ASSUME NEW q \in Seq(CallType), StackOK(q), NEW t \in CallType, CallOK(t),
           q # <<>> => q[1].stage = "ping"
    PROVE  StackOK(<<t>> \o q)
<1> DEFINE r == <<t>> \o q
<1>1. /\ 1 \in DOMAIN r /\ r[1] = t
      /\ \A i \in DOMAIN r : /\ i \in Nat /\ i >= 1
                             /\ i # 1 => i - 1 \in DOMAIN q /\ r[i] = q[i - 1]
  BY PushTop
<1>2. \A i \in DOMAIN q : i \in Nat /\ i >= 1 /\ q[i].stage = "ping"
  BY DEF StackOK
<1> HIDE DEF r
<1>3. StackOK(r)
  BY <1>1, <1>2 DEF StackOK
<1> QED
  BY <1>3 DEF r

LEMMA StackPop ==
    ASSUME NEW q \in Seq(CallType), q # <<>>, StackOK(q)
    PROVE  StackOK(Tail(q))
BY PopTop DEF StackOK

-----------------------------------------------------------------------------
(* What the steps do to the stream.  A call that stays what it is:         *)
LEMMA StreamReplace ==
    ASSUME NEW q \in Seq(CallType), q # <<>>, NEW t \in CallType,
           NEW stream, NEW file, NEW connection \in BOOLEAN,
           StreamOK(q, stream, file, connection),
           t.of = q[1].of, t.got = q[1].got,
           Downloads(t) <=> Downloads(q[1]),
           t.stage # "open", t.stage = "ack" => ~connection
    PROVE  StreamOK(<<t>> \o Tail(q), stream, file, connection)
<1> DEFINE r == <<t>> \o Tail(q)
<1>1. /\ DOMAIN r = DOMAIN q /\ 1 \in DOMAIN q /\ r[1] = t
      /\ \A i \in DOMAIN q : i \in Nat /\ i >= 1 /\ (i # 1 => r[i] = q[i])
  BY ReplaceTop
<1> HIDE DEF r
<1>2. \A i \in DOMAIN q : /\ Downloads(r[i]) <=> Downloads(q[i])
                          /\ r[i].of = q[i].of /\ r[i].got = q[i].got
  BY <1>1
<1>3. \A i \in DOMAIN q : Owner(q, file, i) => Owner(r, file, i)
  BY <1>1, <1>2 DEF Owner
<1>4. stream = "temp" => \E i \in DOMAIN r : Owner(r, file, i)
  BY <1>1, <1>3 DEF StreamOK
<1>5. ASSUME connection, NEW i \in DOMAIN r, Downloads(r[i]),
             \A j \in DOMAIN r : j < i => r[j].stage = "ack"
      PROVE  stream # "closed"
  <2>1. i = 1
    BY <1>1, <1>5
  <2>2. Downloads(q[1]) /\ ~(\E j \in DOMAIN q : j < 1)
    BY <1>1, <1>2, <1>5, <2>1
  <2> QED
    BY <1>1, <1>5, <2>2 DEF StreamOK
<1>6. StreamOK(r, stream, file, connection)
  BY <1>1, <1>4, <1>5 DEF StreamOK
<1> QED
  BY <1>6 DEF r

(* a call that begins, at a ping or in the main loop:                      *)
LEMMA StreamPush ==
    ASSUME NEW q \in Seq(CallType), NEW t \in CallType,
           NEW stream, NEW file, NEW was \in BOOLEAN, NEW is \in BOOLEAN,
           StreamOK(q, stream, file, was), ~Downloads(t), t.stage # "open",
           t.stage = "ack" => is \in {was, FALSE}
    PROVE  StreamOK(<<t>> \o q, stream, file, is)
<1> DEFINE r == <<t>> \o q
<1>1. /\ 1 \in DOMAIN r /\ r[1] = t
      /\ \A i \in DOMAIN q : i \in Nat /\ i >= 1 /\ i + 1 \in DOMAIN r
      /\ \A i \in DOMAIN r : /\ i \in Nat /\ i >= 1
                             /\ i # 1 => i - 1 \in DOMAIN q /\ r[i] = q[i - 1]
  BY PushTop
<1>2. \A i \in DOMAIN q : r[i + 1] = q[i]
  BY <1>1
<1> HIDE DEF r
<1>3. ASSUME NEW i \in DOMAIN q, Owner(q, file, i) PROVE Owner(r, file, i + 1)
  <2>1. \A j \in DOMAIN r : j < i + 1 => ~Downloads(r[j])
    <3> SUFFICES ASSUME NEW j \in DOMAIN r, j < i + 1, j # 1
                 PROVE  ~Downloads(r[j])
      BY <1>1
    <3>1. j - 1 \in DOMAIN q /\ j - 1 < i /\ r[j] = q[j - 1]
      BY <1>1
    <3> QED
      BY <1>3, <3>1 DEF Owner
  <2> QED
    BY <1>2, <1>3, <2>1 DEF Owner
<1>4. stream = "temp" => \E i \in DOMAIN r : Owner(r, file, i)
  BY <1>1, <1>3 DEF StreamOK
<1>5. ASSUME is, NEW i \in DOMAIN r, Downloads(r[i]),
             \A j \in DOMAIN r : j < i => r[j].stage = "ack"
      PROVE  stream # "closed"
  <2>1. i # 1 /\ i - 1 \in DOMAIN q /\ Downloads(q[i - 1])
    BY <1>1, <1>5
  <2>2. t.stage = "ack"
    BY <1>1, <1>5, <2>1
  <2>3. was
    BY <1>5, <2>2
  <2>4. \A j \in DOMAIN q : j < i - 1 => q[j].stage = "ack"
    <3> SUFFICES ASSUME NEW j \in DOMAIN q, j < i - 1 PROVE q[j].stage = "ack"
      OBVIOUS
    <3>1. j + 1 \in DOMAIN r /\ j + 1 < i /\ r[j + 1] = q[j]
      BY <1>1, <1>2
    <3> QED
      BY <1>5, <3>1
  <2> QED
    BY <2>1, <2>3, <2>4 DEF StreamOK
<1>6. StreamOK(r, stream, file, is)
  BY <1>1, <1>4, <1>5 DEF StreamOK
<1> QED
  BY <1>6 DEF r

(* and a call that returns.                                                *)
LEMMA StreamPop ==
    ASSUME NEW q \in Seq(CallType), q # <<>>, NEW stream, NEW file,
           NEW connection \in BOOLEAN, StreamOK(q, stream, file, connection),
           StackOK(q), q[1].stage = "ack"
    PROVE  StreamOK(Tail(q), stream, file, connection)
<1> DEFINE r == Tail(q)
<1>1. /\ 1 \in DOMAIN q
      /\ \A i \in DOMAIN r :
            i \in Nat /\ i >= 1 /\ i + 1 \in DOMAIN q /\ r[i] = q[i + 1]
      /\ \A i \in DOMAIN q :
            i \in Nat /\ i >= 1 /\ (i # 1 => i - 1 \in DOMAIN r)
  BY PopTop
<1>0. r # <<>> => 1 \in DOMAIN r
  OBVIOUS
<1> HIDE DEF r
<1>2. \A i \in DOMAIN q : i # 1 => q[i] = r[i - 1]
  BY <1>1
<1>3. ASSUME NEW i \in DOMAIN q, Owner(q, file, i)
      PROVE  i - 1 \in DOMAIN r /\ Owner(r, file, i - 1)
  <2>1. i # 1
    BY <1>3 DEF Owner, Downloads
  <2>2. \A j \in DOMAIN r : j < i - 1 => ~Downloads(r[j])
    <3> SUFFICES ASSUME NEW j \in DOMAIN r, j < i - 1 PROVE ~Downloads(r[j])
      OBVIOUS
    <3>1. j + 1 \in DOMAIN q /\ j + 1 < i /\ r[j] = q[j + 1]
      BY <1>1
    <3> QED
      BY <1>3, <3>1 DEF Owner
  <2> QED
    BY <1>1, <1>2, <1>3, <2>1, <2>2 DEF Owner
<1>4. stream = "temp" => \E i \in DOMAIN r : Owner(r, file, i)
  BY <1>3 DEF StreamOK
<1>5. ASSUME connection, NEW i \in DOMAIN r, Downloads(r[i]),
             \A j \in DOMAIN r : j < i => r[j].stage = "ack"
      PROVE  stream # "closed"
  <2>1. i + 1 \in DOMAIN q /\ Downloads(q[i + 1])
    BY <1>1, <1>5
  <2>2. \A j \in DOMAIN q : j < i + 1 => q[j].stage = "ack"
    <3> SUFFICES ASSUME NEW j \in DOMAIN q, j < i + 1, j # 1
                 PROVE  q[j].stage = "ack"
      OBVIOUS
    <3>1. j - 1 \in DOMAIN r /\ q[j] = r[j - 1]
      BY <1>1, <1>2
    <3>2. i \in Nat /\ j \in Nat
      BY <1>1
    <3>3. j - 1 < i
      BY <3>2
    <3> QED
      BY <1>5, <3>1, <3>3
  <2> QED
    BY <1>5, <2>1, <2>2 DEF StreamOK
<1>6. r # <<>> => r[1].stage # "open"
  BY <1>0, <1>1 DEF StackOK
<1>7. StreamOK(r, stream, file, connection)
  BY <1>4, <1>5, <1>6 DEF StreamOK
<1> QED
  BY <1>7 DEF r

-----------------------------------------------------------------------------
(* The types, in parts.                                                    *)
FileType ==
    /\ pc \in {"down", "check", "copy", "copying", "clear", "running"}
    /\ binary \in Prefix /\ temp \in Prefix
    /\ marked \in BOOLEAN /\ spoiled \in BOOLEAN /\ cut \in BOOLEAN
    /\ http \in BOOLEAN /\ fs \in {"temp", "unlinked", "closed"}
    /\ status \in {0, 200, 404}

StackType == transfers \in Seq(CallType)

LEMMA TypeParts == TypeOK <=> FileType /\ StackType
BY Zenon DEF TypeOK, FileType, StackType, CallType

(* A call at a stage is the innermost, of a process that runs.             *)
LEMMA AtStage ==
    ASSUME StackType, StackInv, ProcessInv, NEW stage \in Stage, At(stage)
    PROVE  /\ transfers # <<>> /\ Top.stage = stage /\ pc = "running"
           /\ Top \in CallType /\ CallOK(Top)
<1>1. transfers # <<>> /\ Top.stage = stage
  BY DEF At, Stage
<1>2. 1 \in DOMAIN transfers /\ Top \in CallType
  BY <1>1 DEF StackType, Top
<1>3. CallOK(Top)
  BY <1>2 DEF StackInv, StackOK, Top
<1>4. pc = "running"
  BY <1>1 DEF ProcessInv
<1> QED
  BY <1>1, <1>2, <1>3, <1>4

(* What GoTo does, when the new stage asks no more than the old one.       *)
LEMMA GoToStage ==
    ASSUME StackType, StackInv, ProcessInv, NEW old \in Stage, At(old),
           NEW new \in Stage, GoTo(new),
           \/ new \in {"release", "ack"}
           \/ new = "ping" /\ Top.of = Nothing
           \/ new = "upload" /\ Top.of = Nothing
           \/ new = "body" /\ Top.of \in Files /\ old \in {"open", "ping"}
    PROVE  \E t \in CallType :
              /\ transfers' = <<t>> \o Tail(transfers) /\ CallOK(t)
              /\ t.of = Top.of /\ t.got = Top.got /\ t.stage = new
<1> DEFINE t == [Top EXCEPT !.stage = new]
<1>1. Top \in CallType /\ CallOK(Top) /\ Top.stage = old
  BY AtStage
<1>2. t \in CallType /\ t.of = Top.of /\ t.got = Top.got /\ t.stage = new
      /\ t.len = Top.len
  BY <1>1 DEF CallType
<1>3. transfers' = <<t>> \o Tail(transfers)
  BY DEF GoTo
<1> HIDE DEF t
<1>4. CallOK(t)
  BY <1>1, <1>2 DEF CallOK
<1> QED
  BY <1>2, <1>3, <1>4

(* Every step leaves the stack alone, or changes it in one of these ways.  *)
Replaced(t) == transfers # <<>> /\ transfers' = <<t>> \o Tail(transfers)

Pushed(t) ==
    /\ transfers # <<>> => Top.stage = "ping"
    /\ transfers' = <<t>> \o transfers

Popped == transfers # <<>> /\ Top.stage = "ack" /\ transfers' = Tail(transfers)

LEMMA StackSteps ==
    ASSUME StackType, StackInv,
           \/ UNCHANGED transfers \/ transfers' = <<>> \/ Popped
           \/ \E t \in CallType : CallOK(t) /\ (Replaced(t) \/ Pushed(t))
    PROVE  StackType' /\ StackInv'
<1>1. CASE UNCHANGED transfers
  BY <1>1 DEF StackType, StackInv
<1>2. CASE transfers' = <<>>
  BY <1>2 DEF StackType, StackInv, StackOK
<1>3. CASE Popped
  BY <1>3, PopTop, StackPop DEF Popped, StackType, StackInv
<1>4. ASSUME NEW t \in CallType, CallOK(t), Replaced(t)
      PROVE  StackType' /\ StackInv'
  <2>1. transfers' \in Seq(CallType)
    BY <1>4, ReplaceTop DEF Replaced, StackType
  <2> QED
    BY <1>4, <2>1, StackReplace DEF Replaced, StackType, StackInv
<1>5. ASSUME NEW t \in CallType, CallOK(t), Pushed(t)
      PROVE  StackType' /\ StackInv'
  <2>1. transfers' \in Seq(CallType)
    BY <1>5, PushTop DEF Pushed, StackType
  <2>2. StackOK(<<t>> \o transfers)
    BY <1>5, StackPush DEF Pushed, StackType, StackInv, Top
  <2> QED
    BY <1>5, <2>1, <2>2 DEF Pushed, StackType, StackInv
<1> QED
  BY <1>1, <1>2, <1>3, <1>4, <1>5

(* A command begins a call.                                                *)
LEMMA BeginPushes ==
    ASSUME StackType, NEW f \in Files \cup {Nothing}, NEW stage, Begin(f, stage),
           \/ stage = "header" /\ f \in Files
           \/ stage = "upload" /\ f = Nothing
           \/ stage \in {"release", "ack"}
    PROVE  /\ pc = "running"
           /\ \E t \in CallType : CallOK(t) /\ t.stage = stage /\ Pushed(t)
<1> DEFINE t == [of |-> f, got |-> 0, len |-> 0, stage |-> stage]
<1>1. t \in CallType /\ CallOK(t) /\ t.stage = stage
  BY DEF CallType, CallOK, Stage
<1>2. pc = "running" /\ (transfers # <<>> => Top.stage = "ping")
  <2>1. pc = "running" /\ (At("idle") \/ At("ping"))
    BY Zenon DEF Begin, Reading
  <2>2. transfers # <<>> => Top \in CallType
    BY DEF StackType, Top
  <2>3. transfers # <<>> => Top.stage # "idle"
    BY <2>2 DEF CallType, Stage
  <2> QED
    BY <2>1, <2>3, Zenon DEF At
<1>3. Pushed(t)
  BY <1>2 DEF Pushed, Begin
<1> QED
  BY <1>1, <1>2, <1>3

(* The stages that the actions of a call leave.                            *)
LEMMA PrepareCalls ==
    ASSUME StackType, StackInv, ProcessInv, HeaderEnds
    PROVE  \E t \in CallType : CallOK(t) /\ t.stage = "open" /\ Replaced(t)
<1>1. Top \in CallType /\ CallOK(Top) /\ Top.stage = "header" /\ transfers # <<>>
  BY AtStage DEF HeaderEnds, Stage
<1>2. PICK len \in {Size[Top.of]} \cup (IF LengthMayBeMissing THEN {0} ELSE {}) :
        transfers' = <<[Top EXCEPT !.stage = "open", !.len = len]>>
                        \o Tail(transfers)
  BY DEF HeaderEnds
<1> DEFINE t == [Top EXCEPT !.stage = "open", !.len = len]
<1>3. Top.of \in Files
  BY <1>1 DEF CallOK
<1>4. len \in {0, Size[Top.of]} /\ len \in Nat /\ (~LengthMayBeMissing => len = Size[Top.of])
  BY <1>2, <1>3
<1>5. /\ t \in CallType /\ t.of = Top.of /\ t.got = Top.got /\ t.stage = "open"
      /\ t.len = len
  BY <1>1, <1>4 DEF CallType, Stage
<1>6. Replaced(t)
  BY <1>1, <1>2 DEF Replaced
<1> HIDE DEF t
<1>7. CallOK(t)
  BY <1>1, <1>3, <1>4, <1>5 DEF CallOK, CallType
<1> QED
  BY <1>5, <1>6, <1>7

LEMMA NoCallNoStream == ASSUME NEW file, NEW c PROVE StreamOK(<<>>, "closed", file, c)
BY DEF StreamOK

CallsInv == StackType /\ StackInv /\ ProcessInv /\ StreamInv

LEMMA InitCalls == Init => CallsInv
<1> SUFFICES ASSUME Init PROVE CallsInv
  OBVIOUS
<1>1. transfers = <<>> /\ fs = "closed"
  BY DEF Init
<1> QED
  BY <1>1, NoCallNoStream
     DEF CallsInv, StackType, StackInv, StackOK, ProcessInv, StreamInv

LEMMA DownEnds == Down => CallsInv'
<1> SUFFICES ASSUME Down PROVE CallsInv'
  OBVIOUS
<1>1. transfers' = <<>> /\ fs' = "closed"
  BY DEF Down
<1> QED
  BY <1>1, NoCallNoStream
     DEF CallsInv, StackType, StackInv, StackOK, ProcessInv, StreamInv

(* Steps outside the calls.                                                *)
LEMMA StartUpCalls ==
    ASSUME CallsInv, Start \/ CannotStart \/ StartUp \/ Crash \/ UNCHANGED vars
    PROVE  CallsInv'
<1> USE DEF files, session, history
<1>1. ASSUME pc # "running", UNCHANGED session PROVE CallsInv'
  <2>1. transfers' = <<>> /\ fs' = "closed"
    BY <1>1 DEF CallsInv, ProcessInv
  <2> QED
    BY <2>1, NoCallNoStream
       DEF CallsInv, StackType, StackInv, StackOK, ProcessInv, StreamInv
<1>2. CASE Start \/ CheckForUpgrade \/ RemoveOldExecutableBinary
  BY <1>1, <1>2, Zenon DEF Start, CheckForUpgrade, RemoveOldExecutableBinary
<1>3. CASE CopyOpen
  BY <1>1, <1>3, DownEnds, Zenon DEF CopyOpen
<1>4. CASE CopyNext \/ CopyDone
  BY <1>1, <1>4, Zenon DEF CopyNext, CopyDone
<1>5. CASE ClearMark \/ Crash
  BY <1>5, DownEnds, Zenon DEF ClearMark, Crash
<1>6. CASE CannotStart \/ UNCHANGED vars
  BY <1>6
     DEF CannotStart, vars, CallsInv, StackType, StackInv, ProcessInv, StreamInv
<1> QED
  BY <1>2, <1>3, <1>4, <1>5, <1>6 DEF StartUp

(* A deleted file has no download, and what is deleted no mark.            *)
LEMMA StreamDelete ==
    ASSUME NEW q, NEW stream, NEW file, NEW c,
           StreamOK(q, stream, file, c)
    PROVE  StreamOK(q, IF stream = "temp" THEN "unlinked" ELSE stream, Missing, c)
BY DEF StreamOK

LEMMA CommandCalls ==
    ASSUME CallsInv, http \in BOOLEAN, Command
    PROVE  CallsInv'
<1>1. StackType /\ StackInv /\ StreamInv
  BY DEF CallsInv
<1>2. ASSUME pc' = pc, pc = "running" PROVE ProcessInv'
  BY <1>2 DEF ProcessInv
<1>3. ASSUME NEW t \in CallType, CallOK(t), Pushed(t), ~Downloads(t),
             t.stage # "open", http' \in BOOLEAN,
             t.stage = "ack" => http' \in {http, FALSE},
             UNCHANGED <<fs, temp, pc>>, pc = "running"
      PROVE  CallsInv'
  <2>1. StreamOK(<<t>> \o transfers, fs, temp, http')
    <3>1. transfers \in Seq(CallType) /\ StreamOK(transfers, fs, temp, http)
      BY <1>1, Zenon DEF StackType, StreamInv
    <3>2. /\ t \in CallType /\ http' \in BOOLEAN /\ ~Downloads(t)
          /\ t.stage # "open" /\ (t.stage = "ack" => http' \in {http, FALSE})
      BY <1>3, Zenon
    <3> QED
      BY ONLY <3>1, <3>2, http \in BOOLEAN, StreamPush, Zenon
  <2>2. StreamInv'
    BY <1>3, <2>1 DEF StreamInv, Pushed
  <2> QED
    BY <1>1, <1>2, <1>3, <2>2, StackSteps DEF CallsInv
<1>4. ASSUME NEW f \in Files, Download(f) PROVE CallsInv'
  <2>1. UNCHANGED <<fs, temp, pc>>
    BY <1>4 DEF Download, files
  <2>2. CASE Begin(f, "header") /\ http' = TRUE
    <3>1. PICK t \in CallType : CallOK(t) /\ t.stage = "header" /\ Pushed(t)
      BY <1>1, <2>2, BeginPushes
    <3>2. pc = "running"
      BY <1>1, <2>2, BeginPushes
    <3> QED
      BY <1>3, <2>1, <2>2, <3>1, <3>2 DEF Downloads
  <2>3. CASE Begin(f, "ack") /\ http' = FALSE
    <3>1. PICK t \in CallType : CallOK(t) /\ t.stage = "ack" /\ Pushed(t)
      BY <1>1, <2>3, BeginPushes
    <3>2. pc = "running"
      BY <1>1, <2>3, BeginPushes
    <3> QED
      BY <1>3, <2>1, <2>3, <3>1, <3>2 DEF Downloads
  <2> QED
    BY <1>4, <2>2, <2>3, Zenon DEF Download
<1>5. CASE Upload
  <2>1. UNCHANGED <<fs, temp, pc>>
    BY <1>5 DEF Upload, files
  <2>2. CASE Begin(Nothing, "upload") /\ http' = TRUE
    <3>1. PICK t \in CallType : CallOK(t) /\ t.stage = "upload" /\ Pushed(t)
      BY <1>1, <2>2, BeginPushes
    <3>2. pc = "running"
      BY <1>1, <2>2, BeginPushes
    <3> QED
      BY <1>3, <2>1, <2>2, <3>1, <3>2 DEF Downloads
  <2>3. CASE Begin(Nothing, "ack") /\ http' \in {http, FALSE}
    <3>1. PICK t \in CallType : CallOK(t) /\ t.stage = "ack" /\ Pushed(t)
      BY <1>1, <2>3, BeginPushes
    <3>2. pc = "running" /\ http' \in BOOLEAN
      BY <1>1, <2>3, BeginPushes
    <3> QED
      BY <1>3, <2>1, <2>3, <3>1, <3>2 DEF Downloads
  <2>4. CASE Begin(Nothing, "release") /\ http' = http
    <3>1. PICK t \in CallType : CallOK(t) /\ t.stage = "release" /\ Pushed(t)
      BY <1>1, <2>4, BeginPushes
    <3>2. pc = "running"
      BY <1>1, <2>4, BeginPushes
    <3> QED
      BY <1>3, <2>1, <2>4, <3>1, <3>2 DEF Downloads
  <2> QED
    BY <1>5, <2>2, <2>3, <2>4, Zenon DEF Upload
<1>6. CASE Delete
  <2>1. /\ UNCHANGED <<transfers, pc, http>> /\ pc = "running" /\ temp' = Missing
        /\ fs' = IF fs = "temp" THEN "unlinked" ELSE fs
    BY <1>6, Zenon DEF Delete, Reading
  <2>2. StreamInv'
    BY <1>1, <2>1, StreamDelete DEF StreamInv
  <2> QED
    BY <1>1, <1>2, <2>1, <2>2, StackSteps DEF CallsInv
<1> QED
  BY <1>4, <1>5, <1>6 DEF Command

(* A stage of a call that changes nothing but the stage.                   *)
LEMMA StageCalls ==
    ASSUME CallsInv, http \in BOOLEAN,
           NEW old \in Stage, NEW new \in Stage, At(old), GoTo(new),
           UNCHANGED <<temp, fs, pc, http>>,
           \/ new = "release" /\ old \in {"header", "upload"}
           \/ new = "ping" /\ old = "upload"
           \/ new = "upload" /\ old = "ping" /\ Top.of = Nothing
           \/ new = "body" /\ old = "ping" /\ Top.of # Nothing
    PROVE  CallsInv'
<1>1. StackType /\ StackInv /\ StreamInv /\ ProcessInv
  BY DEF CallsInv
<1>2. /\ transfers # <<>> /\ Top \in CallType /\ CallOK(Top) /\ Top.stage = old
      /\ pc = "running"
  BY <1>1, AtStage
<1>3. /\ new = "ping" => Top.of = Nothing
      /\ Top.of # Nothing => Top.of \in Files
  BY <1>2 DEF CallOK, CallType
<1>4. PICK t \in CallType :
         /\ transfers' = <<t>> \o Tail(transfers) /\ CallOK(t)
         /\ t.of = Top.of /\ t.got = Top.got /\ t.stage = new
  BY <1>1, <1>2, <1>3, GoToStage
<1>5. Downloads(t) <=> Downloads(Top)
  BY <1>2, <1>3, <1>4 DEF Downloads
<1>6. StreamOK(<<t>> \o Tail(transfers), fs, temp, http)
  BY <1>1, <1>2, <1>4, <1>5, StreamReplace DEF StackType, StreamInv, Top
<1>7. StreamInv'
  BY <1>4, <1>6 DEF StreamInv
<1>8. StackType' /\ StackInv'
  BY <1>1, <1>2, <1>4, StackSteps DEF Replaced
<1> QED
  BY <1>2, <1>7, <1>8 DEF CallsInv, ProcessInv

(* The stream is closed, or nobody's.                                      *)
LEMMA ClosedStream ==
    ASSUME NEW q \in Seq(CallType), q # <<>>, NEW t \in CallType,
           NEW stream \in {"unlinked", "closed"}, NEW file, NEW c,
           ~Downloads(t), t.stage # "ack",
           t.stage = "open" => file = Missing
    PROVE  StreamOK(<<t>> \o Tail(q), stream, file, c)
<1> DEFINE r == <<t>> \o Tail(q)
<1>1. /\ 1 \in DOMAIN r /\ r[1] = t
      /\ \A i \in DOMAIN r : i \in Nat /\ i >= 1
  BY ReplaceTop
<1> HIDE DEF r
<1>2. \A i \in DOMAIN r : Downloads(r[i]) => 1 < i /\ r[1].stage # "ack"
  BY <1>1
<1>3. StreamOK(r, stream, file, c)
  BY <1>1, <1>2 DEF StreamOK
<1> QED
  BY <1>3 DEF r

LEMMA TearDownCalls ==
    ASSUME CallsInv, At("body"), TearDown
    PROVE  CallsInv'
<1>1. StackType /\ StackInv /\ StreamInv /\ ProcessInv
  BY DEF CallsInv
<1>2. transfers # <<>> /\ pc = "running" /\ "body" \in Stage /\ "release" \in Stage
  BY <1>1, AtStage DEF Stage
<1>3. GoTo("release") /\ fs' = "closed" /\ UNCHANGED <<pc, http>>
  BY DEF TearDown
<1>4. PICK t \in CallType :
         transfers' = <<t>> \o Tail(transfers) /\ CallOK(t) /\ t.stage = "release"
  BY <1>1, <1>2, <1>3, GoToStage
<1>5. StreamOK(<<t>> \o Tail(transfers), "closed", temp', http')
  BY <1>1, <1>2, <1>4, ClosedStream DEF StackType, Downloads
<1>6. StreamInv'
  BY <1>3, <1>4, <1>5 DEF StreamInv
<1>7. StackType' /\ StackInv'
  BY <1>1, <1>2, <1>4, StackSteps DEF Replaced
<1> QED
  BY <1>2, <1>3, <1>6, <1>7 DEF CallsInv, ProcessInv

(* The stream is the innermost download's.                                 *)
LEMMA OwnedStream ==
    ASSUME NEW q \in Seq(CallType), q # <<>>, NEW t \in CallType, Downloads(t),
           NEW stream \in {"temp", "unlinked"}, NEW file, NEW c,
           stream = "temp" => file = [of |-> t.of, n |-> t.got]
    PROVE  StreamOK(<<t>> \o Tail(q), stream, file, c)
<1> DEFINE r == <<t>> \o Tail(q)
<1>1. /\ 1 \in DOMAIN r /\ r[1] = t
      /\ \A i \in DOMAIN r : i \in Nat /\ i >= 1
  BY ReplaceTop
<1> HIDE DEF r
<1>2. \A j \in DOMAIN r : ~(j < 1)
  BY <1>1
<1>3. stream = "temp" => Owner(r, file, 1)
  BY <1>1, <1>2 DEF Owner
<1>4. t.stage # "open"
  BY DEF Downloads
<1>5. StreamOK(r, stream, file, c)
  BY <1>1, <1>3, <1>4 DEF StreamOK
<1> QED
  BY <1>5 DEF r

(* A download that has the connection has a stream as well.                *)
LEMMA OwnsStream ==
    ASSUME StackType, StackInv, StreamInv, transfers # <<>>, Downloads(Top)
    PROVE  /\ fs = "temp" => temp = [of |-> Top.of, n |-> Top.got]
           /\ http => fs # "closed"
<1>1. /\ 1 \in DOMAIN transfers
      /\ \A i \in DOMAIN transfers : i \in Nat /\ i >= 1
  BY DEF StackType
<1>2. ASSUME fs = "temp" PROVE temp = [of |-> Top.of, n |-> Top.got]
  <2>1. PICK i \in DOMAIN transfers : Owner(transfers, temp, i)
    BY <1>2 DEF StreamInv, StreamOK
  <2>2. i = 1
    BY <1>1, <2>1 DEF Owner, Top
  <2> QED
    BY <2>1, <2>2 DEF Owner, Top
<1>3. http => fs # "closed"
  BY <1>1 DEF StreamInv, StreamOK, Top
<1> QED
  BY <1>2, <1>3

(* A chunk is written to the file that the download owns.                  *)
LEMMA ChunkCalls ==
    ASSUME CallsInv, FileType, ReadChunk
    PROVE  /\ CallsInv'
           /\ temp' # temp =>
                 /\ temp = [of |-> Top.of, n |-> Top.got] /\ Top.of \in Files
                 /\ temp' = [of |-> Top.of, n |-> Top.got + 1]
                 /\ Top.got \in Nat /\ Top.got + 1 <= Size[Top.of]
<1>1. StackType /\ StackInv /\ StreamInv /\ ProcessInv
  BY DEF CallsInv
<1>2. /\ transfers # <<>> /\ Top \in CallType /\ CallOK(Top) /\ Top.stage = "body"
      /\ pc = "running"
  BY <1>1, AtStage DEF ReadChunk, Stage
<1>3. Top.of \in Files /\ Downloads(Top)
  BY <1>2 DEF CallOK, Downloads
<1> DEFINE got == Top.got + 1
           t == [Top EXCEPT !.got = got,
                            !.stage = IF got % OTA_PING = 0 THEN "ping" ELSE @]
<1>4. /\ http /\ Top.got < Top.len /\ transfers' = <<t>> \o Tail(transfers)
      /\ temp' = IF fs = "temp" THEN [temp EXCEPT !.n = @ + 1] ELSE temp
      /\ UNCHANGED <<pc, http, fs>>
  BY DEF ReadChunk
<1>5. /\ t \in CallType /\ t.of = Top.of /\ t.got = got /\ t.len = Top.len
      /\ t.stage \in {"body", "ping"}
  <2>1. got \in Nat
    BY <1>2 DEF CallType
  <2>2. Top \in [of : Files \cup {Nothing}, got : Nat, len : Nat, stage : Stage]
        /\ Top.stage = "body" /\ {"body", "ping"} \subseteq Stage
    BY <1>2 DEF CallType, Stage
  <2> HIDE DEF got
  <2> QED
    BY <2>1, <2>2 DEF CallType
<1>6. Top.got \in Nat /\ Top.len \in Nat /\ got \in Nat /\ got <= Top.len
  BY <1>2, <1>4 DEF CallType
<1>7. Top.len \in {0, Size[Top.of]} /\ (~LengthMayBeMissing => Top.len = Size[Top.of])
  BY <1>2, <1>3 DEF CallOK
<1>8. got = Top.got + 1
  OBVIOUS
<1> HIDE DEF t, got
<1>9. CallOK(t) /\ Downloads(t)
  BY <1>3, <1>5, <1>6, <1>7 DEF CallOK, Downloads
<1>10. /\ fs = "temp" => temp = [of |-> Top.of, n |-> Top.got]
       /\ fs \in {"temp", "unlinked"}
  BY <1>1, <1>2, <1>3, <1>4, OwnsStream DEF FileType
<1>11. fs = "temp" => temp' = [of |-> t.of, n |-> t.got]
  BY <1>4, <1>5, <1>8, <1>10
<1>12. StreamOK(<<t>> \o Tail(transfers), fs, temp', http)
  BY <1>1, <1>2, <1>5, <1>9, <1>10, <1>11, OwnedStream DEF StackType
<1>13. StreamInv'
  BY <1>4, <1>12 DEF StreamInv
<1>14. StackType' /\ StackInv'
  BY <1>1, <1>2, <1>4, <1>5, <1>9, StackSteps DEF Replaced
<1>15. CallsInv'
  BY <1>2, <1>4, <1>13, <1>14 DEF CallsInv, ProcessInv
<1>16. got <= Size[Top.of]
  BY <1>3, <1>6, <1>7
<1> QED
  BY <1>3, <1>4, <1>5, <1>6, <1>8, <1>10, <1>11, <1>15, <1>16

LEMMA TransferCalls ==
    ASSUME CallsInv, FileType, Transfer
    PROVE  CallsInv'
<1> USE DEF files, history
<1>1. StackType /\ StackInv /\ StreamInv /\ ProcessInv /\ http \in BOOLEAN
  BY DEF CallsInv, FileType
<1>2. {"header", "open", "body", "ping", "upload", "release", "ack"} \subseteq Stage
  BY DEF Stage
<1>3. CASE HeaderFails
  BY <1>1, <1>2, <1>3, StageCalls DEF HeaderFails
<1>4. CASE PrepareDelete
  <2>1. /\ HeaderEnds /\ temp' = Missing /\ UNCHANGED <<pc, http>>
        /\ fs' = IF fs = "temp" THEN "unlinked" ELSE fs
    BY <1>4, Zenon DEF PrepareDelete
  <2>2. PICK t \in CallType : CallOK(t) /\ t.stage = "open" /\ Replaced(t)
    BY <1>1, <2>1, PrepareCalls
  <2>3. pc = "running"
    BY <1>1, <2>2 DEF Replaced, ProcessInv
  <2>4. StreamOK(<<t>> \o Tail(transfers), fs', temp', http')
    BY <1>1, <2>1, <2>2, ClosedStream
       DEF Replaced, StackType, Downloads, FileType
  <2>5. StreamInv'
    BY <2>2, <2>4 DEF StreamInv, Replaced
  <2> QED
    BY <1>1, <2>1, <2>2, <2>3, <2>5, StackSteps DEF CallsInv, ProcessInv
<1>5. CASE PrepareOpen
  <2>1. /\ At("open") /\ fs' = "temp" /\ GoTo("body") /\ UNCHANGED <<pc, http>>
        /\ temp' = IF temp = Missing THEN [of |-> Top.of, n |-> 0] ELSE temp
    BY <1>5, Zenon DEF PrepareOpen
  <2>2. /\ transfers # <<>> /\ Top.stage = "open" /\ pc = "running" /\ CallOK(Top)
        /\ Top \in CallType
    BY <1>1, <1>2, <2>1, AtStage
  <2>3. Top.of \in Files /\ Top.got = 0
    BY <2>2 DEF CallOK
  <2>4. temp = Missing
    BY <1>1, <2>2 DEF StreamInv, StreamOK, Top
  <2>5. PICK t \in CallType :
           /\ transfers' = <<t>> \o Tail(transfers) /\ CallOK(t)
           /\ t.of = Top.of /\ t.got = Top.got /\ t.stage = "body"
    BY <1>1, <1>2, <2>1, <2>3, GoToStage
  <2>6. Downloads(t) /\ temp' = [of |-> t.of, n |-> t.got]
    BY <2>1, <2>3, <2>4, <2>5 DEF Downloads
  <2>7. StreamOK(<<t>> \o Tail(transfers), "temp", temp', http)
    BY <1>1, <2>2, <2>5, <2>6, OwnedStream DEF StackType
  <2>8. StreamInv'
    BY <2>1, <2>5, <2>7 DEF StreamInv
  <2>9. StackType' /\ StackInv'
    BY <1>1, <2>2, <2>5, StackSteps DEF Replaced
  <2> QED
    BY <2>1, <2>2, <2>8, <2>9 DEF CallsInv, ProcessInv
<1>6. CASE ReadChunk
  BY <1>6, ChunkCalls
<1>7. CASE PingDone
  <2>1. /\ At("ping") /\ UNCHANGED <<temp, fs, pc, http>>
        /\ \/ Top.of = Nothing /\ GoTo("upload")
           \/ Top.of # Nothing /\ GoTo("body")
    BY <1>7 DEF PingDone
  <2> QED
    BY <1>1, <1>2, <2>1, StageCalls
<1>8. CASE ClosedTwice
  BY <1>8, DownEnds DEF ClosedTwice
<1>9. CASE ReadFails \/ DownloadDone
  BY <1>9, TearDownCalls DEF ReadFails, DownloadDone
<1>10. CASE UploadPing
  BY <1>1, <1>2, <1>10, StageCalls DEF UploadPing
<1>11. CASE UploadEnds
  BY <1>1, <1>2, <1>11, StageCalls DEF UploadEnds
<1>12. CASE ReleaseSocket
  <2>1. CASE Down
    BY <2>1, DownEnds
  <2>2. CASE http' = FALSE /\ GoTo("ack") /\ UNCHANGED <<pc, fs, status>>
    <3>1. At("release") /\ temp' = temp
      BY <1>12 DEF ReleaseSocket
    <3>2. transfers # <<>> /\ Top.stage = "release" /\ pc = "running"
      BY <1>1, <1>2, <3>1, AtStage
    <3>3. PICK t \in CallType :
             /\ transfers' = <<t>> \o Tail(transfers) /\ CallOK(t)
             /\ t.of = Top.of /\ t.got = Top.got /\ t.stage = "ack"
      BY <1>1, <1>2, <2>2, <3>1, GoToStage
    <3>4. ~Downloads(t) /\ ~Downloads(Top)
      BY <3>2, <3>3 DEF Downloads
    <3>5. StreamOK(transfers, fs, temp, FALSE)
      BY <1>1 DEF StreamInv, StreamOK
    <3>6. StreamOK(<<t>> \o Tail(transfers), fs, temp, FALSE)
      BY <1>1, <3>2, <3>3, <3>4, <3>5, StreamReplace DEF StackType, Top
    <3>7. StreamInv'
      BY <2>2, <3>1, <3>3, <3>6 DEF StreamInv
    <3>8. StackType' /\ StackInv'
      BY <1>1, <3>2, <3>3, StackSteps DEF Replaced
    <3> QED
      BY <2>2, <3>2, <3>7, <3>8 DEF CallsInv, ProcessInv
  <2> QED
    BY <1>12, <2>1, <2>2, Zenon DEF ReleaseSocket
<1>13. CASE Acknowledge
  <2>1. /\ At("ack") /\ transfers' = Tail(transfers)
        /\ UNCHANGED <<pc, temp, fs, http>>
    BY <1>13 DEF Acknowledge
  <2>2. transfers # <<>> /\ Top.stage = "ack" /\ pc = "running"
    BY <1>1, <1>2, <2>1, AtStage
  <2>3. StreamOK(Tail(transfers), fs, temp, http)
    BY <1>1, <2>2, StreamPop DEF StackType, StackInv, StreamInv, Top
  <2>4. StreamInv'
    BY <2>1, <2>3 DEF StreamInv
  <2>5. StackType' /\ StackInv'
    BY <1>1, <2>1, <2>2, StackSteps DEF Popped
  <2> QED
    BY <2>1, <2>2, <2>4, <2>5 DEF CallsInv, ProcessInv
<1> QED
  BY <1>3, <1>4, <1>5, <1>6, <1>7, <1>8, <1>9, <1>10, <1>11, <1>12, <1>13
     DEF Transfer

LEMMA NextCalls == CallsInv /\ FileType /\ [Next]_vars => CallsInv'
<1> SUFFICES ASSUME CallsInv, FileType, [Next]_vars PROVE CallsInv'
  OBVIOUS
<1>1. http \in BOOLEAN
  BY DEF FileType
<1> QED
  BY <1>1, StartUpCalls, CommandCalls, TransferCalls DEF Next

-----------------------------------------------------------------------------
(* The other variables: what is no file, and the files.                    *)
SettingType ==
    /\ marked \in BOOLEAN /\ spoiled \in BOOLEAN /\ cut \in BOOLEAN
    /\ http \in BOOLEAN /\ fs \in {"temp", "unlinked", "closed"}
    /\ status \in {0, 200, 404}

ImageType ==
    /\ pc \in {"down", "check", "copy", "copying", "clear", "running"}
    /\ binary \in Prefix /\ temp \in Prefix

(* What is not part of the process, and the connection of the process.     *)
Kept == UNCHANGED <<marked, spoiled, cut>>

LEMMA SettingsAre ==
    ASSUME marked' \in BOOLEAN, spoiled' \in BOOLEAN, cut' \in BOOLEAN,
           http' \in BOOLEAN, fs' \in {"temp", "unlinked", "closed"},
           status' \in {0, 200, 404}
    PROVE  SettingType'
BY Zenon DEF SettingType

LEMMA KeptSettings ==
    ASSUME SettingType, Kept
    PROVE  /\ UNCHANGED <<http, fs, status>> \/ Down => SettingType'
           /\ /\ http' \in BOOLEAN /\ fs' \in {"temp", "unlinked", "closed"}
              /\ status' \in {0, 200, 404}
              => SettingType'
<1>1. marked' \in BOOLEAN /\ spoiled' \in BOOLEAN /\ cut' \in BOOLEAN
  BY Zenon DEF Kept, SettingType
<1>2. CASE UNCHANGED <<http, fs, status>>
  BY <1>1, <1>2, Zenon DEF SettingType
<1>3. CASE Down
  <2>1. http' \in BOOLEAN /\ fs' = "closed" /\ status' = 0
    BY <1>3, Zenon DEF Down
  <2> QED
    BY <1>1, <2>1, Zenon DEF SettingType
<1>4. ASSUME http' \in BOOLEAN, fs' \in {"temp", "unlinked", "closed"},
             status' \in {0, 200, 404}
      PROVE  SettingType'
  BY <1>1, <1>4, Zenon DEF SettingType
<1> QED
  BY <1>2, <1>3, <1>4, Zenon

LEMMA StartUpSettings ==
    SettingType /\ (Start \/ CannotStart \/ StartUp) => SettingType'
<1> SUFFICES ASSUME SettingType, Start \/ CannotStart \/ StartUp PROVE SettingType'
  OBVIOUS
<1> USE DEF files, session, history, Kept
<1>1. CASE Start \/ CannotStart \/ CheckForUpgrade
  <2>1. Kept /\ UNCHANGED <<http, fs, status>>
    BY <1>1 DEF Start, CannotStart, CheckForUpgrade, vars
  <2> QED
    BY <2>1, KeptSettings, Zenon
<1>2. CASE RemoveOldExecutableBinary \/ CopyNext \/ CopyDone
  <2>1. Kept /\ UNCHANGED <<http, fs, status>>
    BY <1>2 DEF RemoveOldExecutableBinary, CopyNext, CopyDone
  <2> QED
    BY <2>1, KeptSettings, Zenon
<1>3. CASE CopyOpen
  <2>1. Kept /\ (UNCHANGED <<http, fs, status>> \/ Down)
    BY <1>3 DEF CopyOpen
  <2> QED
    BY <2>1, KeptSettings, Zenon
<1>4. CASE ClearMark
  <2>1. marked' = FALSE /\ spoiled' = spoiled /\ cut' = cut
        /\ http' = FALSE /\ fs' = "closed" /\ status' = 0
    BY <1>4 DEF ClearMark, Down
  <2> QED
    BY <2>1, Zenon DEF SettingType
<1> QED
  BY <1>1, <1>2, <1>3, <1>4 DEF StartUp

LEMMA CommandSettings == SettingType /\ Command => SettingType'
<1> SUFFICES ASSUME SettingType, Command PROVE SettingType'
  OBVIOUS
<1> USE DEF files, history
<1>1. ASSUME NEW f \in Files, Download(f) PROVE SettingType'
  <2>1. Kept /\ (http' = TRUE \/ http' = FALSE) /\ fs' = fs /\ status' = 0
    BY <1>1, Zenon DEF Download, Kept
  <2>2. Kept /\ http' \in BOOLEAN /\ fs' \in {"temp", "unlinked", "closed"}
        /\ status' \in {0, 200, 404}
    BY <2>1, Zenon DEF SettingType
  <2> QED
    BY <2>2, KeptSettings, Zenon
<1>2. CASE Upload
  <2>1. Kept /\ (http' = TRUE \/ http' = FALSE \/ http' = http) /\ fs' = fs
        /\ (status' = 0 \/ status' = status)
    BY <1>2, Zenon DEF Upload, Kept
  <2>2. http' \in BOOLEAN
    BY <2>1, Zenon DEF SettingType
  <2>3. fs' \in {"temp", "unlinked", "closed"} /\ status' \in {0, 200, 404}
    BY <2>1 DEF SettingType
  <2> QED
    BY <2>1, <2>2, <2>3, KeptSettings, Zenon
<1>3. CASE Delete
  BY <1>3 DEF Delete, SettingType
<1> QED
  BY <1>1, <1>2, <1>3 DEF Command

LEMMA TransferSettings == SettingType /\ Transfer => SettingType'
<1> SUFFICES ASSUME SettingType, Transfer PROVE SettingType'
  OBVIOUS
<1> USE DEF files, history
<1>1. CASE HeaderFails
  BY <1>1 DEF HeaderFails, SettingType
<1>2. CASE PrepareDelete
  BY <1>2 DEF PrepareDelete, SettingType
<1>3. CASE PrepareOpen
  BY <1>3 DEF PrepareOpen, SettingType
<1>4. CASE ReadChunk
  BY <1>4 DEF ReadChunk, SettingType
<1>5. CASE PingDone \/ UploadPing \/ Acknowledge
  <2>1. Kept /\ UNCHANGED <<http, fs, status>>
    BY <1>5 DEF PingDone, UploadPing, Acknowledge, Kept
  <2> QED
    BY <2>1, KeptSettings, Zenon
<1>6. CASE ClosedTwice \/ ReleaseSocket
  <2>1. CASE ClosedTwice
    <3>1. Kept /\ Down
      BY <2>1 DEF ClosedTwice, Kept
    <3> QED
      BY <3>1, KeptSettings, Zenon
  <2>2. CASE ReleaseSocket
    <3>1. Kept /\ (Down \/ (http' = FALSE /\ fs' = fs /\ status' = status))
      BY <2>2 DEF ReleaseSocket, Kept
    <3>2. CASE Down
      BY <3>1, <3>2, KeptSettings, Zenon
    <3>3. CASE http' = FALSE /\ fs' = fs /\ status' = status
      <4>1. http' \in BOOLEAN /\ fs' \in {"temp", "unlinked", "closed"}
            /\ status' \in {0, 200, 404}
        BY <3>3, Zenon DEF SettingType
      <4> QED
        BY <3>1, <4>1, KeptSettings, Zenon
    <3> QED
      BY <3>1, <3>2, <3>3
  <2> QED
    BY <1>6, <2>1, <2>2
<1>7. CASE ReadFails
  <2>1. Kept /\ http' = http /\ fs' = "closed" /\ status' = status
    BY <1>7 DEF ReadFails, TearDown, Kept
  <2>2. http' \in BOOLEAN /\ fs' \in {"temp", "unlinked", "closed"}
        /\ status' \in {0, 200, 404}
    BY <2>1, Zenon DEF SettingType
  <2> QED
    BY <2>1, <2>2, KeptSettings, Zenon
<1>8. CASE DownloadDone
  <2>1. /\ marked' = TRUE /\ spoiled' = (fs # "temp") /\ fs' = "closed"
        /\ UNCHANGED <<cut, http, status>>
    BY <1>8, Zenon DEF DownloadDone, TearDown
  <2>2. spoiled' \in BOOLEAN
    BY <2>1, Zenon
  <2>3. marked' \in BOOLEAN /\ fs' \in {"temp", "unlinked", "closed"}
    BY <2>1, Zenon
  <2>4. cut \in BOOLEAN /\ http \in BOOLEAN /\ status \in {0, 200, 404}
    BY Zenon DEF SettingType
  <2>5. cut' \in BOOLEAN /\ http' \in BOOLEAN /\ status' \in {0, 200, 404}
    BY <2>1, <2>4, Zenon
  <2> QED
    BY <2>2, <2>3, <2>5, SettingsAre
<1>9. CASE UploadEnds
  BY <1>9 DEF UploadEnds, SettingType
<1> QED
  BY <1>1, <1>2, <1>3, <1>4, <1>5, <1>6, <1>7, <1>8, <1>9 DEF Transfer

LEMMA NextSettings == SettingType /\ [Next]_vars => SettingType'
<1> SUFFICES ASSUME SettingType, [Next]_vars PROVE SettingType'
  OBVIOUS
<1>1. CASE Crash
  <2>1. /\ UNCHANGED <<marked, spoiled>> /\ cut' = (cut \/ ~Whole(binary))
        /\ http' = FALSE /\ fs' = "closed" /\ status' = 0
    BY <1>1, Zenon DEF Crash, Down, files
  <2> QED
    BY <2>1, Zenon DEF SettingType
<1>2. CASE UNCHANGED vars
  <2>1. Kept /\ UNCHANGED <<http, fs, status>>
    BY <1>2 DEF vars, files, session, history, Kept
  <2> QED
    BY <2>1, KeptSettings, Zenon
<1> QED
  BY <1>1, <1>2, StartUpSettings, CommandSettings, TransferSettings, Zenon DEF Next

LEMMA FileParts == FileType <=> SettingType /\ ImageType
BY Zenon DEF FileType, SettingType, ImageType

LEMMA NextImages ==
    CallsInv /\ FileType /\ CopyInv /\ [Next]_vars => ImageType' /\ CopyInv'
<1> SUFFICES ASSUME CallsInv, FileType, CopyInv, [Next]_vars
             PROVE  ImageType' /\ CopyInv'
  OBVIOUS
<1> USE DEF files, session, history
<1>0. ImageType
  BY FileParts
<1>1. CASE Start \/ CannotStart \/ CheckForUpgrade
  BY <1>0, <1>1
     DEF Start, CannotStart, CheckForUpgrade, vars, ImageType, CopyInv
<1>2. CASE RemoveOldExecutableBinary
  BY <1>0, <1>2, PrefixIs DEF RemoveOldExecutableBinary, ImageType, CopyInv
<1>3. CASE CopyOpen
  <2>1. PICK f \in Files : (temp # Missing => temp.of = f)
                           /\ binary' = [of |-> f, n |-> 0]
    BY <1>3, Zenon DEF CopyOpen
  <2>2. /\ binary' \in [of : Files, n : Nat] /\ binary'.n = 0 /\ binary'.of = f
        /\ binary' # Missing
    BY <2>1
  <2>3. binary' \in Prefix
    BY <2>2, PrefixIs
  <2>4. /\ UNCHANGED <<temp, marked>> /\ marked
        /\ IF temp = Missing THEN pc' = "down" ELSE pc' = "copying"
    BY <1>3, Zenon DEF CopyOpen, Down, CopyInv
  <2>5. temp # Missing => temp.n \in Nat
    BY <1>0, PrefixIs DEF ImageType
  <2> QED
    BY <1>0, <2>1, <2>2, <2>3, <2>4, <2>5 DEF ImageType, CopyInv
<1>4. CASE CopyNext
  <2>1. /\ pc = "copying" /\ binary.n < temp.n
        /\ binary' = [binary EXCEPT !.n = @ + 1]
        /\ UNCHANGED <<pc, temp, marked>> /\ marked
        /\ temp # Missing /\ binary # Missing /\ binary.of = temp.of
    BY <1>4 DEF CopyNext, CopyInv
  <2>2. /\ binary \in [of : Files, n : Nat] /\ temp \in [of : Files, n : Nat]
        /\ temp.n <= Size[temp.of]
    BY <1>0, <2>1, PrefixIs DEF ImageType
  <2>3. /\ binary' \in [of : Files, n : Nat] /\ binary'.of = binary.of
        /\ binary'.n = binary.n + 1
    BY <2>1, <2>2
  <2>4. binary'.n <= temp.n /\ binary'.n <= Size[binary'.of] /\ binary' # Missing
    BY <2>1, <2>2, <2>3
  <2> QED
    BY <1>0, <2>1, <2>3, <2>4, PrefixIs DEF ImageType, CopyInv
<1>5. CASE CopyDone
  <2>1. /\ pc = "copying" /\ binary.n = temp.n /\ pc' = "clear"
        /\ UNCHANGED <<binary, temp, marked>> /\ marked
        /\ temp # Missing /\ binary # Missing /\ binary.of = temp.of
    BY <1>5 DEF CopyDone, CopyInv
  <2>2. binary \in [of : Files, n : Nat] /\ temp \in [of : Files, n : Nat]
    BY <1>0, <2>1, PrefixIs DEF ImageType
  <2>3. binary = temp
    BY <2>1, <2>2
  <2> QED
    BY <1>0, <2>1, <2>3 DEF ImageType, CopyInv
<1>6. ASSUME Down, UNCHANGED <<binary, temp>> PROVE ImageType' /\ CopyInv'
  BY <1>0, <1>6 DEF Down, ImageType, CopyInv
<1>7. CASE ClearMark \/ ClosedTwice \/ Crash
  BY <1>6, <1>7, Zenon DEF ClearMark, ClosedTwice, Crash
<1>8. ASSUME pc = "running", UNCHANGED <<pc, binary>>, temp' \in Prefix
      PROVE  ImageType' /\ CopyInv'
  BY <1>0, <1>8 DEF ImageType, CopyInv, Whole
<1>9. temp \in Prefix /\ Missing \in Prefix
  BY <1>0, PrefixIs DEF ImageType
<1>10. ASSUME NEW f \in Files, Download(f) PROVE ImageType' /\ CopyInv'
  BY <1>8, <1>9, <1>10, Zenon DEF Download, Begin, Reading
<1>11. CASE Upload
  BY <1>8, <1>9, <1>11, Zenon DEF Upload, Begin, Reading
<1>12. CASE Delete
  BY <1>8, <1>9, <1>12, Zenon DEF Delete, Reading
<1>13. ASSUME NEW stage \in Stage, At(stage) PROVE pc = "running"
  BY <1>13, AtStage DEF CallsInv
<1>14. {"header", "open", "body", "ping", "upload", "release", "ack"} \subseteq Stage
  BY DEF Stage
<1>15. CASE HeaderFails \/ PingDone \/ UploadPing \/ UploadEnds \/ Acknowledge
  BY <1>8, <1>9, <1>13, <1>14, <1>15
     DEF HeaderFails, PingDone, UploadPing, UploadEnds, Acknowledge
<1>16. CASE PrepareDelete
  BY <1>8, <1>9, <1>13, <1>14, <1>16 DEF PrepareDelete, HeaderEnds
<1>17. CASE PrepareOpen
  <2>1. /\ At("open") /\ UNCHANGED <<pc, binary>>
        /\ temp' = IF temp = Missing THEN [of |-> Top.of, n |-> 0] ELSE temp
    BY <1>17, Zenon DEF PrepareOpen
  <2>2. Top \in CallType /\ Top.stage = "open" /\ CallOK(Top) /\ pc = "running"
    BY <1>14, <2>1, AtStage DEF CallsInv
  <2>3. Top.of \in Files
    BY <2>2 DEF CallOK
  <2>4. [of |-> Top.of, n |-> 0] \in Prefix
    BY <2>3, PrefixIs
  <2> QED
    BY <1>8, <1>9, <2>1, <2>2, <2>4
<1>18. CASE ReadChunk
  <2>1. At("body") /\ UNCHANGED <<pc, binary>>
    BY <1>18 DEF ReadChunk
  <2>2. temp' # temp =>
           /\ Top.of \in Files /\ Top.got \in Nat /\ Top.got + 1 <= Size[Top.of]
           /\ temp' = [of |-> Top.of, n |-> Top.got + 1]
    BY <1>18, ChunkCalls
  <2>3. temp' \in Prefix
    BY <1>9, <2>2, PrefixIs
  <2> QED
    BY <1>8, <1>13, <1>14, <2>1, <2>3
<1>19. CASE ReadFails \/ DownloadDone
  BY <1>8, <1>9, <1>13, <1>14, <1>19 DEF ReadFails, DownloadDone, TearDown
<1>20. CASE ReleaseSocket
  <2>1. At("release") /\ UNCHANGED <<binary, temp>> /\ (Down \/ pc' = pc)
    BY <1>20, Zenon DEF ReleaseSocket
  <2> QED
    BY <1>6, <1>8, <1>9, <1>13, <1>14, <2>1
<1>21. CASE UNCHANGED vars
  BY <1>0, <1>21 DEF vars, ImageType, CopyInv
<1> QED
  BY <1>1, <1>2, <1>3, <1>4, <1>5, <1>7, <1>10, <1>11, <1>12, <1>15, <1>16,
     <1>17, <1>18, <1>19, <1>20, <1>21
     DEF Next, StartUp, Command, Transfer

-----------------------------------------------------------------------------
UpgradeInv == CallsInv /\ FileType /\ CopyInv

LEMMA InitUpgrade == Init => UpgradeInv
<1> SUFFICES ASSUME Init PROVE UpgradeInv
  OBVIOUS
<1>1. PICK f \in Files : binary = Image(f)
  BY DEF Init
<1>2. /\ binary \in [of : Files, n : Nat] /\ binary.of = f /\ binary.n = Size[f]
      /\ binary # Missing
  BY <1>1 DEF Image
<1>3. binary \in Prefix /\ Missing \in Prefix
  BY <1>2, PrefixIs
<1>4. FileType
  BY <1>3 DEF Init, FileType
<1>5. CopyInv
  BY DEF Init, CopyInv
<1> QED
  BY <1>4, <1>5, InitCalls DEF UpgradeInv

LEMMA NextUpgrade == UpgradeInv /\ [Next]_vars => UpgradeInv'
<1> SUFFICES ASSUME UpgradeInv, [Next]_vars PROVE UpgradeInv'
  OBVIOUS
<1>1. CallsInv /\ FileType /\ CopyInv /\ SettingType
  BY FileParts, Zenon DEF UpgradeInv
<1>2. CallsInv' /\ SettingType' /\ ImageType' /\ CopyInv'
  BY <1>1, NextCalls, NextSettings, NextImages, Zenon
<1>3. FileType'
  BY <1>2, FileParts, PTL
<1> QED
  BY <1>2, <1>3, Zenon DEF UpgradeInv

LEMMA AlwaysUpgrade == Spec => []UpgradeInv
BY InitUpgrade, NextUpgrade, PTL DEF Spec

(* Every variable keeps its type: whatever transfers do to each other,     *)
(* nothing is written beyond the length of a file.                         *)
THEOREM TypeCorrect == Spec => []TypeOK
<1>1. UpgradeInv => TypeOK
  BY TypeParts DEF UpgradeInv, CallsInv
<1> QED
  BY <1>1, AlwaysUpgrade, PTL

(* A download that still has its connection writes to its own file: the    *)
(* stream of device_upgrade.c is open, and the file has what the download  *)
(* wrote and nothing else, however transfers were nested at its pings.     *)
THEOREM StreamIsOwned == Spec => []DownloadOwnsFile
<1>1. UpgradeInv => DownloadOwnsFile
  <2> SUFFICES ASSUME UpgradeInv, At("body"), http
               PROVE  \/ fs = "temp" /\ temp = [of |-> Top.of, n |-> Top.got]
                      \/ fs = "unlinked"
    BY DEF DownloadOwnsFile
  <2>1. "body" \in Stage
    BY DEF Stage
  <2>2. /\ transfers # <<>> /\ Top.stage = "body" /\ CallOK(Top)
    BY <2>1, AtStage DEF UpgradeInv, CallsInv
  <2>3. Downloads(Top)
    BY <2>2 DEF CallOK, Downloads
  <2> QED
    BY <2>2, <2>3, OwnsStream DEF UpgradeInv, CallsInv, FileType
<1> QED
  BY <1>1, AlwaysUpgrade, PTL

-----------------------------------------------------------------------------
LEMMA InitWhole == Init => OnlyWholeImages
BY DEF Init, OnlyWholeImages, MarkMeansWhole, BrokenOnlyBy, Whole, Image

(* The mark, when every response has its Content-Length.                   *)
LEMMA NextMark ==
    ASSUME ~LengthMayBeMissing, UpgradeInv, MarkMeansWhole, [Next]_vars
    PROVE  MarkMeansWhole'
<1> USE DEF files, session, history
<1>0. StackType /\ StackInv /\ StreamInv /\ ProcessInv /\ FileType
  BY DEF UpgradeInv, CallsInv
<1>1. ASSUME UNCHANGED <<temp, marked, spoiled>> PROVE MarkMeansWhole'
  BY <1>1 DEF MarkMeansWhole
<1>2. CASE Start \/ CannotStart \/ CheckForUpgrade \/ RemoveOldExecutableBinary
  BY <1>1, <1>2, Zenon
     DEF Start, CannotStart, CheckForUpgrade, RemoveOldExecutableBinary, vars
<1>3. CASE CopyOpen \/ CopyNext \/ CopyDone \/ Crash
  BY <1>1, <1>3, Zenon DEF CopyOpen, CopyNext, CopyDone, Crash
<1>4. CASE ClearMark
  BY <1>4 DEF ClearMark, MarkMeansWhole
<1>5. CASE Command
  <2>1. CASE Delete
    BY <2>1 DEF Delete, MarkMeansWhole
  <2> QED
    BY <1>1, <1>5, <2>1, Zenon DEF Command, Download, Upload
<1>6. CASE HeaderFails \/ PingDone \/ UploadPing \/ UploadEnds \/ Acknowledge
  BY <1>1, <1>6, Zenon
     DEF HeaderFails, PingDone, UploadPing, UploadEnds, Acknowledge
<1>7. CASE ClosedTwice \/ ReadFails \/ ReleaseSocket
  BY <1>1, <1>7, Zenon DEF ClosedTwice, ReadFails, ReleaseSocket
<1>8. CASE PrepareDelete
  <2>1. spoiled' = marked /\ marked' = marked
    BY <1>8, Zenon DEF PrepareDelete
  <2> QED
    BY <2>1, Zenon DEF MarkMeansWhole
<1>9. CASE PrepareOpen
  <2>1. At("open") /\ UNCHANGED <<marked, spoiled>> /\ "open" \in Stage
    BY <1>9 DEF PrepareOpen, Stage
  <2>2. transfers # <<>> /\ Top.stage = "open"
    BY <1>0, <2>1, AtStage
  <2>3. temp = Missing
    BY <1>0, <2>2 DEF StreamInv, StreamOK, Top
  <2> QED
    BY <2>1, <2>3, Zenon DEF MarkMeansWhole, Whole
<1>10. CASE ReadChunk
  <2>1. UNCHANGED <<marked, spoiled>>
    BY <1>10 DEF ReadChunk
  <2>2. temp' # temp => /\ temp = [of |-> Top.of, n |-> Top.got]
                        /\ Top.got \in Nat /\ Top.of \in Files
                        /\ Top.got + 1 <= Size[Top.of]
    BY <1>0, <1>10, ChunkCalls DEF UpgradeInv
  <2>3. temp' # temp => ~Whole(temp)
    BY <2>2 DEF Whole
  <2> QED
    BY <2>1, <2>3, Zenon DEF MarkMeansWhole, Whole
<1>11. CASE DownloadDone
  <2>1. /\ At("body") /\ Top.got = Top.len /\ temp' = temp
        /\ spoiled' = (fs # "temp") /\ "body" \in Stage
    BY <1>11 DEF DownloadDone, Stage
  <2>2. transfers # <<>> /\ Top.stage = "body" /\ CallOK(Top)
    BY <1>0, <2>1, AtStage
  <2>3. Downloads(Top) /\ Top.len = Size[Top.of]
    BY <2>2 DEF CallOK, Downloads
  <2>4. fs = "temp" => temp = [of |-> Top.of, n |-> Top.got]
    BY <1>0, <2>2, <2>3, OwnsStream
  <2>5. fs = "temp" => Whole(temp)
    BY <2>1, <2>3, <2>4 DEF Whole, Downloads
  <2> QED
    BY <2>1, <2>5, Zenon DEF MarkMeansWhole, Whole
<1>12. CASE UNCHANGED vars
  BY <1>1, <1>12 DEF vars
<1> QED
  BY <1>2, <1>3, <1>4, <1>5, <1>6, <1>7, <1>8, <1>9, <1>10, <1>11, <1>12
     DEF Next, StartUp, Transfer

(* The binary.                                                             *)
LEMMA NextBinary ==
    ASSUME UpgradeInv, OnlyWholeImages, [Next]_vars PROVE BrokenOnlyBy'
<1> USE DEF files, session, history
<1>0. StackType /\ StackInv /\ StreamInv /\ ProcessInv /\ CopyInv
  BY DEF UpgradeInv, CallsInv
<1>1. ASSUME Whole(binary), binary' = binary PROVE BrokenOnlyBy'
  BY <1>1 DEF BrokenOnlyBy, Whole
<1>2. CASE Start \/ CheckForUpgrade
  BY <1>0, <1>1, <1>2, Zenon DEF Start, CheckForUpgrade, CopyInv
<1>3. CASE RemoveOldExecutableBinary
  BY <1>3 DEF RemoveOldExecutableBinary, BrokenOnlyBy
<1>4. CASE CopyOpen
  <2>1. temp = Missing => spoiled
    BY <1>0, <1>4 DEF CopyOpen, CopyInv, OnlyWholeImages, MarkMeansWhole, Whole
  <2>2. spoiled' = spoiled /\ (temp # Missing => pc' = "copying")
    BY <1>4, Zenon DEF CopyOpen
  <2> QED
    BY <2>1, <2>2 DEF BrokenOnlyBy
<1>5. CASE CopyNext
  BY <1>5 DEF CopyNext, BrokenOnlyBy
<1>6. CASE CopyDone
  <2>1. pc' = "clear" /\ UNCHANGED <<binary, temp, marked, spoiled>> /\ marked
    BY <1>0, <1>6 DEF CopyDone, CopyInv
  <2>2. CopyInv'
    BY NextImages DEF UpgradeInv
  <2>3. binary = temp
    BY <2>1, <2>2 DEF CopyInv
  <2> QED
    BY <2>1, <2>3, Zenon DEF OnlyWholeImages, MarkMeansWhole, BrokenOnlyBy, Whole
<1>7. CASE ClearMark
  <2>1. pc = "clear" /\ UNCHANGED <<binary, spoiled, cut>>
    BY <1>7 DEF ClearMark
  <2> QED
    BY <2>1 DEF OnlyWholeImages, BrokenOnlyBy, Whole
<1>8. CASE Crash
  <2>1. cut' = (cut \/ ~Whole(binary)) /\ binary' = binary
    BY <1>8, Zenon DEF Crash
  <2> QED
    BY <2>1, Zenon DEF BrokenOnlyBy, Whole
<1>9. ASSUME pc = "running", binary' = binary PROVE BrokenOnlyBy'
  BY <1>0, <1>1, <1>9 DEF CopyInv
<1>10. CASE Command
  BY <1>9, <1>10, Zenon
     DEF Command, Download, Upload, Delete, Begin, Reading
<1>11. CASE Transfer
  <2>1. \A stage \in Stage : At(stage) => pc = "running"
    BY <1>0, AtStage
  <2>2. {"header", "open", "body", "ping", "upload", "release", "ack"} \subseteq Stage
    BY DEF Stage
  <2>3. pc = "running"
    BY <1>11, <2>1, <2>2
       DEF Transfer, HeaderFails, PrepareDelete, HeaderEnds, PrepareOpen,
           ReadChunk, PingDone, ClosedTwice, ReadFails, DownloadDone, UploadPing,
           UploadEnds, ReleaseSocket, Acknowledge
  <2>4. binary' = binary
    BY <1>11, Zenon
       DEF Transfer, HeaderFails, PrepareDelete, PrepareOpen,
           ReadChunk, PingDone, ClosedTwice, ReadFails, DownloadDone, UploadPing,
           UploadEnds, ReleaseSocket, Acknowledge
  <2> QED
    BY <1>9, <2>3, <2>4
<1>12. CASE CannotStart \/ UNCHANGED vars
  BY <1>12 DEF CannotStart, vars, OnlyWholeImages, BrokenOnlyBy, Whole
<1> QED
  BY <1>2, <1>3, <1>4, <1>5, <1>6, <1>7, <1>8, <1>10, <1>11, <1>12
     DEF Next, StartUp

(* When every response has its Content-Length, what is marked for the      *)
(* next start is whole or was deleted or overwritten by another command,   *)
(* and the binary is whole, being replaced, or lost to a power cut or to   *)
(* such a file.  Without the length downloadFile marks an empty file.      *)
THEOREM ImagesAreWhole ==
    ~LengthMayBeMissing => (Spec => []OnlyWholeImages)
<1> SUFFICES ASSUME ~LengthMayBeMissing PROVE Spec => []OnlyWholeImages
  OBVIOUS
<1>1. UpgradeInv /\ OnlyWholeImages /\ [Next]_vars => OnlyWholeImages'
  BY NextMark, NextBinary DEF OnlyWholeImages
<1> QED
  BY <1>1, InitWhole, AlwaysUpgrade, PTL DEF Spec

=============================================================================
