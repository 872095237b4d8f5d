----------------------------- MODULE ConfigProofs -----------------------------
(***************************************************************************)
(* Theorems about Config, for every set of settings and values and every   *)
(* number of packets: the types, that what the server chose stays stored,  *)
(* and that the server, the storage and the program agree between calls.   *)
(***************************************************************************)
EXTENDS Config, TLAPS

(* The frames.  A log, and the call that passes a new setting on, are at   *)
(* the top: they begin nothing that they wait for.                         *)
Steps == {"register", "use", "form", "process", "save alone", "send", "log",
          "read", "switch", "reply"}

Frames == [at : Steps, key : Keys \cup {Unset}, val : Values \cup {Unset} \cup Nat,
           in : {"nowhere", "readbuf", "messageBuffer"}]

FrameOK(f) ==
    /\ f.at = "register" => f.val \in Nat \ {0}
    /\ f.at \in {"use", "form"} => f.key \in Keys /\ f.val \in Values
    /\ f.at \in {"process", "save alone"} => f.in # "nowhere"
    /\ f.at \notin {"process", "save alone", "send"} => f.in = "nowhere"

AtTop(f) == f.at = "log" \/ (f.at = "process" /\ f.in = "messageBuffer")

(* What a registration does with one setting, next to it on the stack.     *)
OfOne(f) == f.at \in {"use", "form"} \/ f.in = "messageBuffer"

StackOK(q) ==
    /\ \A i \in DOMAIN q : FrameOK(q[i])
    /\ \A i \in DOMAIN q : AtTop(q[i]) => i = Len(q)
    /\ \A i \in DOMAIN q : q[i].at = "send" /\ i # Len(q) =>
                              q[i + 1].at \in {"log", "read"}
    /\ \A i \in DOMAIN q : OfOne(q[i]) => i # 1 /\ q[i - 1].at = "register"
    /\ \A i, j \in DOMAIN q : q[i].at = "register" /\ q[j].at = "register" => i = j

(* A connection registers once.                                            *)
Inbound == Packets \cup {Message("connack")}

LineInv ==
    /\ inbox \in Seq(Inbound) /\ Len(inbox) <= packets + 1
    /\ \A i \in DOMAIN inbox : inbox[i].kind = "connack" =>
          /\ i = 1 /\ ~registered
          /\ \A j \in DOMAIN stack : stack[j].at # "register"
    /\ link = "down" => stack = <<>> /\ inbox = <<>> /\ ~registered

FramesInv == stack \in Seq(Frames) /\ StackOK(stack) /\ LineInv

OneOf(f) == f.at \in {"use", "form"}

Passes(f) == f.at = "process" /\ f.in = "messageBuffer"

Waits(f) == f.at = "process" /\ f.in = "readbuf"

(* An edit that waits is the last one of its setting.                      *)
WaitingKept == \A k \in Keys : EditWaits(k) => chosen[k] \in {Unset, readbuf.val}

(* A connection reads no edit before it registers: below a registration,   *)
(* none waits.                                                             *)
Accepted == \E i \in DOMAIN inbox : inbox[i].kind = "connack"

EarlyInv ==
    /\ Accepted => \A i \in DOMAIN stack : ~Waits(stack[i])
    /\ \A i, j \in DOMAIN stack : stack[i].at = "register" /\ Waits(stack[j]) => i < j

(* A setting on its way through a registration is not one that the server  *)
(* has changed since.                                                      *)
ChoiceInv ==
    /\ ChoiceKept /\ WaitingKept /\ EarlyInv
    /\ \A i \in DOMAIN stack : OneOf(stack[i]) =>
          chosen[stack[i].key] \in {Unset, stack[i].val}
    /\ \A i \in DOMAIN stack : Passes(stack[i]) =>
          /\ IsSetting(messageBuffer)
          /\ chosen[messageBuffer.key] \in {Unset, messageBuffer.val}

(* A publish that no read of a log interrupts sends what was stored.       *)
Interrupted(i) == i # Len(stack) /\ stack[i + 1].at # "log"

EditOK(f) ==
    f.at = "send" /\ f.in = "readbuf" /\ IsSetting(readbuf) =>
        readbuf = Setting(f.key, settings[f.key])

TellOK(f) ==
    f.at = "send" /\ f.in = "messageBuffer" =>
        /\ IsSetting(messageBuffer) => messageBuffer.key = f.key
        /\ f.key \in Keys \ untold =>
              /\ messageBuffer = Setting(f.key, settings[f.key])
              /\ variables[f.key] = settings[f.key]

FormOK(f) ==
    /\ f.at = "form" => variables[f.key] = f.val
    /\ Passes(f) => /\ IsSetting(messageBuffer)
                    /\ variables[messageBuffer.key] = messageBuffer.val

SyncOK(f) == EditOK(f) /\ TellOK(f) /\ FormOK(f)

CallsInSync ==
    \A i \in DOMAIN stack :
        LET f == stack[i] IN
        /\ f.at = "send" /\ Interrupted(i) /\ f.key \in Keys => f.key \in untold
        /\ ~Interrupted(i) => EditOK(f)
        /\ TellOK(f) /\ FormOK(f)

InSyncNow(k) ==
    told[k] = settings[k] /\ (k \in edited \/ variables[k] = settings[k])

Awaits(k) ==
    \/ \E i \in DOMAIN inbox : inbox[i].kind = "connack"
    \/ \E i \in DOMAIN stack, j \in DOMAIN Registered :
          stack[i].at = "register" /\ Registered[j] = k /\ stack[i].val <= j

OnItsWay(f, k) ==
    \/ OneOf(f) /\ f.key = k
    \/ Passes(f) /\ messageBuffer.key = k
    \/ f.at = "send" /\ f.in = "messageBuffer" /\ f.key = k
    \/ /\ f.at = "send" /\ f.in = "readbuf" /\ f.key = k
       /\ k \in edited /\ readbuf = Setting(k, settings[k])

UnderWay(k) == \E i \in DOMAIN stack : OnItsWay(stack[i], k)

EachInSync == \A k \in Keys \ untold : Awaits(k) \/ UnderWay(k) \/ InSyncNow(k)

(* In a connection that is up, and as long as there is heap.               *)
SyncInv ==
    link = "up" /\ untold # Keys => CallsInSync /\ EachInSync

-----------------------------------------------------------------------------
LEMMA KeysAre ==
    /\ Registered \in Seq(Keys)
    /\ \A j \in DOMAIN Registered : Registered[j] \in Keys
    /\ \A k \in Keys : \E j \in DOMAIN Registered : Registered[j] = k
    /\ \A i, j \in DOMAIN Registered : Registered[i] = Registered[j] => i = j
<1>1. Registered \in Seq(Keys) /\ IsInjective(Registered)
  BY ConfigAssumption DEF ConfigAssumption
<1> QED
  BY <1>1 DEF Keys, Range, IsInjective

(* The top of the stack makes room for what follows it.                    *)
LEMMA Replaced ==
    ASSUME NEW S, NEW q \in Seq(S), q # <<>>, NEW r \in Seq(S)
    PROVE  LET s == Front(q) \o r IN
           /\ s \in Seq(S) /\ Len(s) = Len(q) - 1 + Len(r)
           /\ Len(q) \in Nat \ {0} /\ Len(r) \in Nat
           /\ DOMAIN s = 1..Len(s) /\ DOMAIN q = 1..Len(q) /\ DOMAIN r = 1..Len(r)
           /\ Last(q) = q[Len(q)]
           /\ \A i \in DOMAIN s :
                \/ i < Len(q) /\ i \in DOMAIN q /\ s[i] = q[i]
                \/ /\ i >= Len(q) /\ i - Len(q) + 1 \in DOMAIN r
                   /\ s[i] = r[i - Len(q) + 1]
<1> DEFINE f == SubSeq(q, 1, Len(q) - 1)
<1>1. /\ Len(q) \in Nat \ {0} /\ DOMAIN q = 1..Len(q)
      /\ Front(q) = f /\ Last(q) = q[Len(q)]
  BY DEF Front, Last
<1>2. f \in Seq(S) /\ Len(f) = Len(q) - 1 /\ DOMAIN f = 1..(Len(q) - 1)
  BY <1>1
<1>3. \A i \in DOMAIN f : f[i] = q[i]
  BY <1>1
<1> HIDE DEF f
<1>4. /\ f \o r \in Seq(S) /\ Len(f \o r) = Len(f) + Len(r)
      /\ DOMAIN (f \o r) = 1..Len(f \o r) /\ DOMAIN r = 1..Len(r) /\ Len(r) \in Nat
  BY <1>2
<1>5. \A i \in DOMAIN (f \o r) :
        \/ i \in DOMAIN f /\ (f \o r)[i] = f[i]
        \/ i - Len(f) \in DOMAIN r /\ i > Len(f) /\ (f \o r)[i] = r[i - Len(f)]
  BY <1>2, <1>4
<1> QED
  BY <1>1, <1>2, <1>3, <1>4, <1>5

(* What may take the place of the top: a run of frames of which the first  *)
(* fits there.                                                             *)
Run(r) ==
    /\ \A i \in DOMAIN r : FrameOK(r[i])
    /\ \A i \in DOMAIN r : AtTop(r[i]) => i = Len(r)
    /\ \A i \in DOMAIN r : r[i].at = "send" /\ i # Len(r) => r[i + 1].at = "log"
    /\ \A i \in DOMAIN r : OfOne(r[i]) => i = 1 \/ r[i - 1].at = "register"
    /\ \A i, j \in DOMAIN r : r[i].at = "register" /\ r[j].at = "register" => i = j

Continues(q, r) ==
    /\ Run(r)
    /\ r # <<>> /\ OfOne(r[1]) => OfOne(Last(q))
    /\ r # <<>> /\ Last(q).at \in {"log", "read"} => r[1].at \in {"log", "read"}
    /\ \A i \in DOMAIN r, j \in DOMAIN q :
          r[i].at = "register" /\ q[j].at = "register" => j = Len(q)

InterruptedIn(q, i) == i # Len(q) /\ q[i + 1].at # "log"

Elements(r) == {r[i] : i \in DOMAIN r}

LEMMA StackContinues ==
    ASSUME NEW q \in Seq(Frames), q # <<>>, StackOK(q),
           NEW r \in Seq(Frames), Continues(q, r)
    PROVE  LET s == Front(q) \o r
               n == Len(q)
           IN
           /\ s \in Seq(Frames) /\ StackOK(s) /\ n \in DOMAIN q /\ Last(q) = q[n]
           /\ \A i \in DOMAIN s : \/ i < n /\ i \in DOMAIN q /\ s[i] = q[i]
                                  \/ i >= n /\ s[i] \in Elements(r)
           /\ \A i \in DOMAIN q : i # n => i \in DOMAIN s /\ s[i] = q[i]
           /\ \A f \in Elements(r) : \E i \in DOMAIN s : s[i] = f
           /\ \A i \in DOMAIN s : i >= n /\ s[i].at = "send" => ~InterruptedIn(s, i)
           /\ \A i \in DOMAIN q :
                i # n /\ q[i].at = "send" /\ InterruptedIn(s, i) =>
                  \/ InterruptedIn(q, i)
                  \/ q[n].at = "log" /\ r # <<>> /\ r[1].at # "log"
           /\ \A i \in DOMAIN q :
                i # n /\ q[i].at = "send" /\ ~InterruptedIn(s, i) =>
                  \/ ~InterruptedIn(q, i)
                  \/ q[n].at = "read" /\ (r # <<>> => r[1].at = "log")
<1> DEFINE s == Front(q) \o r
<1> DEFINE n == Len(q)
<1>1. /\ Len(s) = n - 1 + Len(r) /\ n \in Nat \ {0} /\ Len(r) \in Nat
      /\ DOMAIN s = 1..Len(s) /\ DOMAIN q = 1..n /\ DOMAIN r = 1..Len(r)
      /\ Last(q) = q[n] /\ s \in Seq(Frames)
      /\ \A i \in DOMAIN s :
           \/ i < n /\ i \in DOMAIN q /\ s[i] = q[i]
           \/ i >= n /\ i - n + 1 \in DOMAIN r /\ s[i] = r[i - n + 1]
  <2>1. q \in Seq(Frames) /\ q # <<>> /\ r \in Seq(Frames)
    OBVIOUS
  <2> QED
    BY ONLY <2>1, Replaced, SMTT(30)
<1>0. n = Len(q) /\ (r # <<>> <=> Len(r) # 0)
  BY <1>1
<1> HIDE DEF s, n
<1>2. \A i \in DOMAIN s : FrameOK(s[i])
  BY <1>1 DEF StackOK, Continues, Run
<1>3. \A i \in DOMAIN s : AtTop(s[i]) => i = Len(s)
  <2> SUFFICES ASSUME NEW i \in DOMAIN s, AtTop(s[i]) PROVE i = Len(s)
    OBVIOUS
  <2>1. ~(i < n)
    BY <1>0, <1>1 DEF StackOK
  <2> QED
    BY <1>1, <2>1 DEF Continues, Run
<1>4. \A i \in DOMAIN s : s[i].at = "send" /\ i # Len(s) => s[i + 1].at \in {"log", "read"}
  <2> SUFFICES ASSUME NEW i \in DOMAIN s, s[i].at = "send", i # Len(s)
               PROVE  s[i + 1].at \in {"log", "read"}
    OBVIOUS
  <2>1. i + 1 \in DOMAIN s /\ i \in Nat
    BY <1>1
  <2>2. CASE i >= n
    <3>1. /\ i - n + 1 \in DOMAIN r /\ s[i] = r[i - n + 1] /\ i - n + 1 # Len(r)
          /\ s[i + 1] = r[(i - n + 1) + 1]
      BY <1>1, <2>1, <2>2, SMTT(30)
    <3> QED
      BY <3>1 DEF Continues, Run
  <2>3. CASE i < n
    <3>1. i \in DOMAIN q /\ s[i] = q[i] /\ q[i + 1].at \in {"log", "read"}
      BY <1>0, <1>1, <2>3 DEF StackOK
    <3>2. CASE i + 1 < n
      BY <1>1, <2>1, <3>1, <3>2
    <3>3. CASE i + 1 = n
      <4>1. s[i + 1] = r[1] /\ r # <<>>
        BY <1>1, <2>1, <3>3
      <4> QED
        BY <1>1, <3>1, <3>3, <4>1 DEF Continues
    <3> QED
      BY <1>1, <2>1, <2>3, <3>2, <3>3
  <2> QED
    BY <1>1, <2>1, <2>2, <2>3
<1>5. \A i \in DOMAIN s : OfOne(s[i]) => i # 1 /\ s[i - 1].at = "register"
  <2> SUFFICES ASSUME NEW i \in DOMAIN s, OfOne(s[i])
               PROVE  i # 1 /\ s[i - 1].at = "register"
    OBVIOUS
  <2>1. CASE i < n
    <3>1. i # 1 /\ q[i - 1].at = "register"
      BY <1>1, <2>1, SMTT(30) DEF StackOK
    <3> QED
      BY <1>1, <2>1, <3>1
  <2>2. CASE i = n
    <3>1. OfOne(r[1]) /\ r # <<>>
      BY <1>0, <1>1, <2>2
    <3>2. OfOne(q[n])
      BY <1>1, <3>1 DEF Continues
    <3>3. i # 1 /\ q[i - 1].at = "register"
      BY <1>1, <2>2, <3>2, SMTT(30) DEF StackOK
    <3> QED
      BY <1>1, <2>2, <3>3
  <2>3. CASE i > n
    <3>1. /\ i - n + 1 \in DOMAIN r /\ i - n + 1 # 1 /\ OfOne(r[i - n + 1])
          /\ i - 1 \in DOMAIN s /\ s[i - 1] = r[(i - n + 1) - 1]
      BY <1>1, <2>3
    <3>2. r[(i - n + 1) - 1].at = "register"
      BY <3>1 DEF Continues, Run
    <3> QED
      BY <1>1, <2>3, <3>1, <3>2
  <2> QED
    BY <1>1, <2>1, <2>2, <2>3
<1>6. \A i, j \in DOMAIN s : s[i].at = "register" /\ s[j].at = "register" => i = j
  BY <1>0, <1>1, SMTT(30) DEF StackOK, Continues, Run
<1>7. StackOK(s)
  BY <1>2, <1>3, <1>4, <1>5, <1>6 DEF StackOK
<1>8. /\ \A i \in DOMAIN s : \/ i < n /\ i \in DOMAIN q /\ s[i] = q[i]
                             \/ i >= n /\ s[i] \in Elements(r)
      /\ \A i \in DOMAIN q : i # n => i \in DOMAIN s /\ s[i] = q[i]
  <2>1. \A i \in DOMAIN r : r[i] \in Elements(r)
    BY DEF Elements
  <2>2. ASSUME NEW i \in DOMAIN q, i # n PROVE i \in DOMAIN s /\ s[i] = q[i]
    BY <1>1, <2>2
  <2>3. ASSUME NEW i \in DOMAIN s
        PROVE  \/ i < n /\ i \in DOMAIN q /\ s[i] = q[i]
               \/ i >= n /\ s[i] \in Elements(r)
    BY <1>1, <2>1, <2>3
  <2> QED
    BY <2>2, <2>3
<1>9. \A f \in Elements(r) : \E i \in DOMAIN s : s[i] = f
  <2> SUFFICES ASSUME NEW j \in DOMAIN r PROVE \E i \in DOMAIN s : s[i] = r[j]
    BY DEF Elements
  <2>1. n - 1 + j \in DOMAIN s /\ s[n - 1 + j] = r[j]
    BY <1>1
  <2> QED
    BY <2>1
<1>10. \A i \in DOMAIN s : i >= n /\ s[i].at = "send" => ~InterruptedIn(s, i)
  <2> SUFFICES ASSUME NEW i \in DOMAIN s, i >= n, s[i].at = "send", i # Len(s)
               PROVE  s[i + 1].at = "log"
    BY DEF InterruptedIn
  <2>1. /\ i - n + 1 \in DOMAIN r /\ s[i] = r[i - n + 1] /\ i - n + 1 # Len(r)
        /\ s[i + 1] = r[(i - n + 1) + 1]
    BY <1>1, SMTT(30)
  <2> QED
    BY <2>1 DEF Continues, Run
<1>11. ASSUME NEW i \in DOMAIN q, i # n, q[i].at = "send"
       PROVE  /\ InterruptedIn(s, i) =>
                   \/ InterruptedIn(q, i)
                   \/ q[n].at = "log" /\ r # <<>> /\ r[1].at # "log"
              /\ ~InterruptedIn(s, i) =>
                   \/ ~InterruptedIn(q, i)
                   \/ q[n].at = "read" /\ (r # <<>> => r[1].at = "log")
  <2>1. CASE i + 1 # n
    <3>1. i + 1 \in DOMAIN q /\ i + 1 \in DOMAIN s /\ i # Len(s) /\ s[i + 1] = q[i + 1]
      BY <1>1, <1>8, <1>11, <2>1
    <3> QED
      BY <1>0, <1>11, <3>1 DEF InterruptedIn
  <2>2. CASE i + 1 = n
    <3>1. q[n].at \in {"log", "read"}
      BY <1>0, <1>11, <2>2 DEF StackOK
    <3>2. /\ i # Len(s) <=> r # <<>>
          /\ r # <<>> => s[n] = r[1]
      BY <1>0, <1>1, <1>11, <2>2, SMTT(30)
    <3> QED
      BY <1>0, <1>11, <2>2, <3>1, <3>2 DEF InterruptedIn
  <2> QED
    BY <2>1, <2>2
<1>12. n \in DOMAIN q
  BY <1>1
<1> QED
  BY <1>1, <1>7, <1>8, <1>9, <1>10, <1>11, <1>12 DEF s, n

-----------------------------------------------------------------------------
(* The frames that the actions push.                                       *)
SendOf(k, b) == [Frame("send") EXCEPT !.key = k, !.in = b]

Plain == {Frame("log"), Frame("read"), Frame("switch"), Frame("reply")}

LEMMA PlainFrames ==
    \A f \in Plain : /\ f \in Frames /\ FrameOK(f) /\ ~OfOne(f)
                     /\ f.at \in {"log", "read", "switch", "reply"} /\ f.key = Unset
<1>1. ASSUME NEW a \in {"log", "read", "switch", "reply"}
      PROVE  /\ Frame(a) \in Frames /\ FrameOK(Frame(a)) /\ ~OfOne(Frame(a))
             /\ Frame(a).at = a /\ Frame(a).key = Unset
  BY DEF Frame, Frames, Steps, FrameOK, OfOne
<1> QED
  BY <1>1 DEF Plain

LEMMA LogsAre == Logs \in {<<>>, <<Frame("log")>>}
BY DEF Logs

LEMMA Prepended ==
    ASSUME NEW S, NEW a \in S, NEW r \in Seq(S)
    PROVE  LET s == <<a>> \o r IN
           /\ s \in Seq(S) /\ Len(s) = Len(r) + 1 /\ Len(r) \in Nat /\ s # <<>>
           /\ DOMAIN s = 1..(Len(r) + 1) /\ DOMAIN r = 1..Len(r)
           /\ s[1] = a /\ \A i \in DOMAIN r : s[i + 1] = r[i]
<1>1. <<a>> \in Seq(S) /\ Len(<<a>>) = 1
  OBVIOUS
<1>2. /\ <<a>> \o r \in Seq(S) /\ Len(<<a>> \o r) = Len(r) + 1 /\ Len(r) \in Nat
      /\ DOMAIN (<<a>> \o r) = 1..Len(<<a>> \o r) /\ DOMAIN r = 1..Len(r)
  BY <1>1
<1>3. (<<a>> \o r)[1] = a
  BY <1>1
<1>4. \A i \in DOMAIN r : (<<a>> \o r)[i + 1] = r[i]
  BY <1>1, <1>2
<1> QED
  BY <1>2, <1>3, <1>4

LEMMA OneFrame ==
    ASSUME NEW k, NEW v
    PROVE  /\ About("use", k, v).at = "use" /\ About("use", k, v).key = k
           /\ About("use", k, v).val = v /\ About("use", k, v).in = "nowhere"
           /\ k \in Keys /\ v \in Values =>
                About("use", k, v) \in Frames /\ FrameOK(About("use", k, v))
BY DEF About, Frame, Frames, Steps, FrameOK

LEMMA SendFrames ==
    ASSUME NEW k \in Keys \cup {Unset}, NEW b \in {"nowhere", "readbuf", "messageBuffer"}
    PROVE  /\ SendOf(k, b) \in Frames /\ FrameOK(SendOf(k, b))
           /\ SendOf(k, b).at = "send" /\ SendOf(k, b).key = k /\ SendOf(k, b).in = b
BY DEF SendOf, Frame, Frames, Steps, FrameOK

LEMMA RegisterFrames ==
    ASSUME NEW i \in Nat \ {0}
    PROVE  /\ Register(i) \in Frames /\ FrameOK(Register(i)) /\ ~OfOne(Register(i))
           /\ Register(i).at = "register" /\ Register(i).val = i
BY DEF Register, Frame, Frames, Steps, FrameOK, OfOne

LEMMA ProcessFrames ==
    ASSUME NEW b \in {"readbuf", "messageBuffer"}
    PROVE  /\ Process(b) \in Frames /\ FrameOK(Process(b))
           /\ Process(b).at = "process" /\ Process(b).in = b
BY DEF Process, Frame, Frames, Steps, FrameOK

LEMMA ThenFrames ==
    ASSUME NEW f \in Frames, FrameOK(f), NEW a \in {"form", "save alone"},
           a = "form" => f.at = "use", a = "save alone" => f.at = "process"
    PROVE  LET g == [f EXCEPT !.at = a] IN
           /\ g \in Frames /\ FrameOK(g)
           /\ g.at = a /\ g.key = f.key /\ g.val = f.val /\ g.in = f.in
BY DEF Frames, Steps, FrameOK

(* Runs of frames.                                                         *)
LEMMA NoRun == Run(<<>>) /\ Elements(<<>>) = {} /\ <<>> \in Seq(Frames)
BY DEF Run, Elements

LEMMA SingleRun ==
    ASSUME NEW a \in Frames, FrameOK(a)
    PROVE  /\ Run(<<a>>) /\ Elements(<<a>>) = {a} /\ <<a>> \in Seq(Frames)
           /\ <<a>> # <<>> /\ <<a>>[1] = a
BY DEF Run, Elements

LEMMA RunGrows ==
    ASSUME NEW a \in Frames, FrameOK(a), NEW r \in Seq(Frames), Run(r),
           AtTop(a) => r = <<>>,
           a.at = "send" /\ r # <<>> => r[1].at = "log",
           r # <<>> /\ OfOne(r[1]) => a.at = "register",
           a.at = "register" => \A f \in Elements(r) : f.at # "register"
    PROVE  LET s == <<a>> \o r IN
           /\ Run(s) /\ Elements(s) = {a} \cup Elements(r) /\ s \in Seq(Frames)
           /\ s # <<>> /\ s[1] = a
<1> DEFINE s == <<a>> \o r
<1>1. /\ s \in Seq(Frames) /\ Len(s) = Len(r) + 1 /\ Len(r) \in Nat /\ s # <<>>
      /\ DOMAIN s = 1..(Len(r) + 1) /\ DOMAIN r = 1..Len(r)
      /\ s[1] = a /\ \A i \in DOMAIN r : s[i + 1] = r[i]
  BY Prepended
<1>2. r = <<>> <=> Len(r) = 0
  BY <1>1
<1> HIDE DEF s
<1>3. \A i \in DOMAIN s : \/ i = 1 /\ s[i] = a
                          \/ i # 1 /\ i - 1 \in DOMAIN r /\ s[i] = r[i - 1]
  BY <1>1
<1>4. \A i \in DOMAIN r : r[i] \in Elements(r)
  BY DEF Elements
<1>5. Elements(s) = {a} \cup Elements(r)
  <2>1. Elements(s) \subseteq {a} \cup Elements(r)
    BY <1>3, <1>4 DEF Elements
  <2>2. \A i \in DOMAIN r : i + 1 \in DOMAIN s /\ s[i + 1] = r[i]
    BY <1>1
  <2>3. 1 \in DOMAIN s
    BY <1>1
  <2> QED
    BY <1>1, <2>1, <2>2, <2>3 DEF Elements
<1>6. /\ \A i \in DOMAIN s : FrameOK(s[i])
      /\ \A i \in DOMAIN s : AtTop(s[i]) => i = Len(s)
  <2>1. \A i \in DOMAIN s : FrameOK(s[i])
    BY <1>3 DEF Run
  <2>2. ASSUME NEW i \in DOMAIN s, AtTop(s[i]) PROVE i = Len(s)
    <3>1. CASE i = 1
      BY <1>1, <1>2, <2>2, <3>1
    <3>2. CASE i # 1
      <4>1. i - 1 = Len(r)
        BY <1>3, <2>2, <3>2 DEF Run
      <4> QED
        BY <1>1, <4>1
    <3> QED
      BY <3>1, <3>2
  <2> QED
    BY <2>1, <2>2
<1>7. \A i \in DOMAIN s : s[i].at = "send" /\ i # Len(s) => s[i + 1].at = "log"
  <2> SUFFICES ASSUME NEW i \in DOMAIN s, s[i].at = "send", i # Len(s)
               PROVE  s[i + 1].at = "log"
    OBVIOUS
  <2>1. i \in DOMAIN r /\ s[i + 1] = r[i]
    BY <1>1
  <2>2. CASE i = 1
    BY <1>1, <1>2, <2>1, <2>2
  <2>3. CASE i # 1
    <3>1. i - 1 \in DOMAIN r /\ s[i] = r[i - 1] /\ i - 1 # Len(r) /\ (i - 1) + 1 = i
      BY <1>1, <1>3, <2>3
    <3> QED
      BY <2>1, <3>1 DEF Run
  <2> QED
    BY <2>2, <2>3
<1>8. \A i \in DOMAIN s : OfOne(s[i]) => i = 1 \/ s[i - 1].at = "register"
  <2> SUFFICES ASSUME NEW i \in DOMAIN s, OfOne(s[i]), i # 1
               PROVE  s[i - 1].at = "register"
    OBVIOUS
  <2>1. i - 1 \in DOMAIN r /\ s[i] = r[i - 1]
    BY <1>3
  <2>2. CASE i - 1 = 1
    BY <1>1, <1>2, <2>1, <2>2
  <2>3. CASE i - 1 # 1
    <3>1. r[(i - 1) - 1].at = "register" /\ (i - 1) - 1 \in DOMAIN r /\ i - 1 \in DOMAIN s
      BY <1>1, <2>1, <2>3 DEF Run
    <3> QED
      BY <1>3, <2>3, <3>1
  <2> QED
    BY <2>2, <2>3
<1>9. \A i, j \in DOMAIN s : s[i].at = "register" /\ s[j].at = "register" => i = j
  <2> SUFFICES ASSUME NEW i \in DOMAIN s, NEW j \in DOMAIN s,
                      s[i].at = "register", s[j].at = "register"
               PROVE  i = j
    OBVIOUS
  <2>1. i # 1 /\ j # 1 => i - 1 = j - 1
    BY <1>3 DEF Run
  <2>2. i = 1 <=> j = 1
    BY <1>3, <1>4
  <2> QED
    BY <1>1, <2>1, <2>2
<1> QED
  BY <1>1, <1>5, <1>6, <1>7, <1>8, <1>9 DEF Run, s

LEMMA LogsRun ==
    /\ Run(Logs) /\ Logs \in Seq(Frames) /\ Elements(Logs) \subseteq {Frame("log")}
    /\ Logs # <<>> => Logs[1] = Frame("log")
<1>1. Frame("log") \in Frames /\ FrameOK(Frame("log"))
  BY PlainFrames DEF Plain
<1>2. CASE Logs = <<>>
  BY <1>2, NoRun
<1>3. CASE Logs = <<Frame("log")>>
  BY <1>1, <1>3, SingleRun
<1> QED
  BY <1>2, <1>3, LogsAre

(* A frame other than a log, and the log that goes before it.              *)
LEMMA LoggedRun ==
    ASSUME NEW a \in Frames, FrameOK(a), ~AtTop(a)
    PROVE  LET s == <<a>> \o Logs IN
           /\ Run(s) /\ s \in Seq(Frames) /\ s # <<>> /\ s[1] = a
           /\ Elements(s) \subseteq {a, Frame("log")} /\ a \in Elements(s)
<1>1. Frame("log").at = "log" /\ ~OfOne(Frame("log"))
  BY DEF Frame, OfOne
<1>2. \A f \in Elements(Logs) : f.at # "register"
  BY <1>1, LogsRun
<1>3. Logs # <<>> => Logs[1].at = "log" /\ ~OfOne(Logs[1])
  BY <1>1, LogsRun
<1>4. /\ Run(Logs) /\ Logs \in Seq(Frames) /\ Elements(Logs) \subseteq {Frame("log")}
  BY LogsRun
<1> HIDE DEF Logs
<1>5. LET s == <<a>> \o Logs IN
      /\ Run(s) /\ Elements(s) = {a} \cup Elements(Logs) /\ s \in Seq(Frames)
      /\ s # <<>> /\ s[1] = a
  BY <1>2, <1>3, <1>4, RunGrows
<1> QED
  BY <1>4, <1>5

-----------------------------------------------------------------------------
(* The top of the stack makes way for the frames R, and possibly for a log.*)
Turns(R) ==
    \E r \in Seq(Frames) :
        /\ stack' = Front(stack) \o r /\ Continues(stack, r)
        /\ R \subseteq Elements(r) /\ Elements(r) \subseteq R \cup {Frame("log")}
        /\ (r # <<>> /\ r[1].at # "log") <=> R # {}

LEMMA Turned ==
    ASSUME stack \in Seq(Frames), stack # <<>>, StackOK(stack), NEW R, Turns(R)
    PROVE  LET n == Len(stack) IN
           /\ stack' \in Seq(Frames) /\ StackOK(stack')
           /\ n \in DOMAIN stack /\ Top = stack[n]
           /\ \A i \in DOMAIN stack' :
                \/ i # n /\ i \in DOMAIN stack /\ stack'[i] = stack[i]
                \/ stack'[i] = Frame("log")
                \/ stack'[i] \in R /\ (stack'[i].at = "send" => ~Interrupted(i)')
           /\ \A i \in DOMAIN stack : i # n => i \in DOMAIN stack' /\ stack'[i] = stack[i]
           /\ \A f \in R : \E i \in DOMAIN stack' : stack'[i] = f
           /\ \A i \in DOMAIN stack : i # n /\ stack[i].at = "send" =>
                /\ Interrupted(i)' => Interrupted(i) \/ (Top.at = "log" /\ R # {})
                /\ ~Interrupted(i)' => ~Interrupted(i) \/ (Top.at = "read" /\ R = {})
<1>1. PICK r \in Seq(Frames) :
        /\ stack' = Front(stack) \o r /\ Continues(stack, r)
        /\ R \subseteq Elements(r) /\ Elements(r) \subseteq R \cup {Frame("log")}
        /\ (r # <<>> /\ r[1].at # "log") <=> R # {}
  BY DEF Turns
<1> DEFINE n == Len(stack)
<1>2. /\ stack' \in Seq(Frames) /\ StackOK(stack') /\ n \in DOMAIN stack
      /\ Last(stack) = stack[n]
      /\ \A i \in DOMAIN stack' : \/ i < n /\ i \in DOMAIN stack /\ stack'[i] = stack[i]
                                  \/ i >= n /\ stack'[i] \in Elements(r)
      /\ \A i \in DOMAIN stack : i # n => i \in DOMAIN stack' /\ stack'[i] = stack[i]
      /\ \A f \in Elements(r) : \E i \in DOMAIN stack' : stack'[i] = f
      /\ \A i \in DOMAIN stack' : i >= n /\ stack'[i].at = "send" =>
                                     ~InterruptedIn(stack', i)
      /\ \A i \in DOMAIN stack :
           i # n /\ stack[i].at = "send" /\ InterruptedIn(stack', i) =>
             \/ InterruptedIn(stack, i)
             \/ stack[n].at = "log" /\ r # <<>> /\ r[1].at # "log"
      /\ \A i \in DOMAIN stack :
           i # n /\ stack[i].at = "send" /\ ~InterruptedIn(stack', i) =>
             \/ ~InterruptedIn(stack, i)
             \/ stack[n].at = "read" /\ (r # <<>> => r[1].at = "log")
  BY <1>1, StackContinues
<1>3. \A i : /\ Interrupted(i) <=> InterruptedIn(stack, i)
             /\ Interrupted(i)' <=> InterruptedIn(stack', i)
  BY DEF Interrupted, InterruptedIn
<1>4. n \in Nat /\ DOMAIN stack = 1..n
  OBVIOUS
<1> HIDE DEF n
<1>5. \A i \in DOMAIN stack' :
        \/ i # n /\ i \in DOMAIN stack /\ stack'[i] = stack[i]
        \/ stack'[i] = Frame("log")
        \/ stack'[i] \in R /\ (stack'[i].at = "send" => ~Interrupted(i)')
  <2> SUFFICES ASSUME NEW i \in DOMAIN stack'
               PROVE  \/ i # n /\ i \in DOMAIN stack /\ stack'[i] = stack[i]
                      \/ stack'[i] = Frame("log")
                      \/ stack'[i] \in R /\ (stack'[i].at = "send" => ~Interrupted(i)')
    OBVIOUS
  <2>1. CASE i < n /\ i \in DOMAIN stack /\ stack'[i] = stack[i]
    BY <1>4, <2>1
  <2>2. CASE i >= n /\ stack'[i] \in Elements(r)
    BY <1>1, <1>2, <1>3, <2>2, Zenon
  <2> QED
    BY <1>2, <2>1, <2>2
<1>6. \A f \in R : \E i \in DOMAIN stack' : stack'[i] = f
  BY <1>1, <1>2
<1>7. \A i \in DOMAIN stack : i # n /\ stack[i].at = "send" =>
        /\ Interrupted(i)' => Interrupted(i) \/ (stack[n].at = "log" /\ R # {})
        /\ ~Interrupted(i)' => ~Interrupted(i) \/ (stack[n].at = "read" /\ R = {})
  BY <1>1, <1>2, <1>3, Zenon
<1> QED
  BY <1>2, <1>5, <1>6, <1>7 DEF Top, n

(* The shapes of the actions.                                              *)
LEMMA TurnsNone ==
    ASSUME stack \in Seq(Frames),
           Becomes(<<>>) \/ Becomes(Logs) \/ Becomes(<<Frame("log")>>)
    PROVE  Turns({})
<1>1. Frame("log").at = "log" /\ ~OfOne(Frame("log"))
  BY DEF Frame, OfOne
<1>2. ASSUME NEW r \in Seq(Frames), Run(r), Elements(r) \subseteq {Frame("log")},
             r # <<>> => r[1] = Frame("log"), Becomes(r)
      PROVE  Turns({})
  <2>1. Continues(stack, r)
    <3>1. \A i \in DOMAIN r : r[i] \in Elements(r)
      BY DEF Elements
    <3> QED
      BY <1>1, <1>2, <3>1 DEF Continues
  <2> QED
    BY <1>1, <1>2, <2>1, Zenon DEF Turns, Becomes
<1>3. CASE Becomes(<<>>)
  BY <1>2, <1>3, NoRun
<1>4. CASE Becomes(Logs)
  BY <1>2, <1>4, LogsRun
<1>5. CASE Becomes(<<Frame("log")>>)
  <2>1. Frame("log") \in Frames /\ FrameOK(Frame("log"))
    BY PlainFrames DEF Plain
  <2> QED
    BY <1>2, <1>5, <2>1, SingleRun
<1> QED
  BY <1>3, <1>4, <1>5

LEMMA TurnsOne ==
    ASSUME stack \in Seq(Frames), stack # <<>>, StackOK(stack),
           NEW a \in Frames, FrameOK(a), a.at # "log", OfOne(a) => OfOne(Top),
           a.at = "register" => Top.at = "register",
           Top.at \in {"log", "read"} => a.at = "read",
           Becomes(<<a>>) \/ (Becomes(<<a>> \o Logs) /\ ~AtTop(a))
    PROVE  Turns({a})
<1>1. Frame("log").at = "log"
  BY DEF Frame
<1>2. ASSUME NEW r \in Seq(Frames), Run(r), Elements(r) \subseteq {a, Frame("log")},
             a \in Elements(r), r # <<>>, r[1] = a, Becomes(r)
      PROVE  Turns({a})
  <2>1. Continues(stack, r)
    <3>1. \A i \in DOMAIN r : r[i] \in Elements(r)
      BY DEF Elements
    <3>2. Len(stack) \in DOMAIN stack /\ Top = stack[Len(stack)]
      BY DEF Top, Last
    <3>3. \A i \in DOMAIN r, j \in DOMAIN stack :
             r[i].at = "register" /\ stack[j].at = "register" => j = Len(stack)
      BY <1>1, <1>2, <3>1, <3>2 DEF StackOK
    <3> QED
      BY <1>2, <3>3 DEF Continues, Top
  <2>2. {a} \cup {Frame("log")} = {a, Frame("log")}
    OBVIOUS
  <2> QED
    BY <1>2, <2>1, <2>2, ZenonT(60) DEF Turns, Becomes
<1>3. CASE Becomes(<<a>>)
  <2> DEFINE r == <<a>>
  <2>1. Run(r) /\ Elements(r) = {a} /\ r \in Seq(Frames) /\ r # <<>> /\ r[1] = a
    BY SingleRun
  <2>2. Becomes(r)
    BY <1>3
  <2> HIDE DEF r
  <2>3. Elements(r) \subseteq {a, Frame("log")} /\ a \in Elements(r)
    BY <2>1
  <2> QED
    BY <1>2, <2>1, <2>2, <2>3
<1>4. CASE Becomes(<<a>> \o Logs) /\ ~AtTop(a)
  <2>1. LET s == <<a>> \o Logs IN
        /\ Run(s) /\ s \in Seq(Frames) /\ s # <<>> /\ s[1] = a
        /\ Elements(s) \subseteq {a, Frame("log")} /\ a \in Elements(s)
    BY <1>4, LoggedRun
  <2> QED
    BY <1>2, <1>4, <2>1
<1> QED
  BY <1>3, <1>4

LEMMA TurnsMore ==
    ASSUME stack \in Seq(Frames), stack # <<>>, StackOK(stack),
           NEW a \in Frames, FrameOK(a), a.at \notin {"log", "send", "process"}, ~OfOne(a),
           NEW r \in Seq(Frames), Run(r),
           NEW R, R \subseteq Elements(r), Elements(r) \subseteq R \cup {Frame("log")},
           r # <<>> /\ OfOne(r[1]) => a.at = "register",
           a.at = "register" =>
               Top.at = "register" /\ \A f \in Elements(r) : f.at # "register",
           (\E f \in Elements(r) : f.at = "register") =>
               \A j \in DOMAIN stack : stack[j].at # "register",
           Top.at \in {"log", "read"} => a.at = "read",
           Becomes(<<a>> \o r)
    PROVE  Turns({a} \cup R)
<1> DEFINE s == <<a>> \o r
<1>1. /\ Run(s) /\ Elements(s) = {a} \cup Elements(r) /\ s \in Seq(Frames)
      /\ s # <<>> /\ s[1] = a
  BY RunGrows DEF AtTop
<1> HIDE DEF s
<1>2. \A i \in DOMAIN s : s[i] \in Elements(s)
  BY DEF Elements
<1>3. Len(stack) \in DOMAIN stack /\ Top = stack[Len(stack)]
  BY DEF Top, Last
<1>4. \A i \in DOMAIN s, j \in DOMAIN stack :
         s[i].at = "register" /\ stack[j].at = "register" => j = Len(stack)
  BY <1>1, <1>2, <1>3 DEF StackOK
<1>5. Continues(stack, s)
  BY <1>1, <1>4 DEF Continues, Top
<1>6. {a} \cup R # {} /\ s[1].at # "log"
  BY <1>1
<1>7. {a} \cup R \subseteq Elements(s) /\ Elements(s) \subseteq ({a} \cup R) \cup {Frame("log")}
  BY <1>1
<1> QED
  BY <1>1, <1>5, <1>6, <1>7, Zenon DEF Turns, Becomes, s

LEMMA TopIs ==
    ASSUME FramesInv, stack # <<>>
    PROVE  /\ stack \in Seq(Frames) /\ StackOK(stack) /\ Len(stack) \in DOMAIN stack
           /\ Top = stack[Len(stack)] /\ Top \in Frames /\ FrameOK(Top)
BY DEF FramesInv, Top, Last, StackOK

LEMMA BufferTypes ==
    ASSUME ConfigTypeOK
    PROVE  \A b \in {"nowhere", "readbuf", "messageBuffer"} :
             /\ Buffer(b).key \in Keys \cup {Unset}
             /\ IsSetting(Buffer(b)) =>
                  /\ Buffer(b).key \in Keys /\ Buffer(b).val \in Values
                  /\ Buffer(b) = Setting(Buffer(b).key, Buffer(b).val)
                  /\ b # "nowhere"
<1>1. \A p \in Packets \cup {Message(kind) : kind \in {"nothing", "connack", "reply"}} :
         /\ p.key \in Keys \cup {Unset}
         /\ IsSetting(p) => /\ p.key \in Keys /\ p.val \in Values
                            /\ p = Setting(p.key, p.val)
  BY DEF Packets, Message, Setting, IsSetting
<1>2. Empty.key = Unset /\ ~IsSetting(Empty)
  BY DEF Empty, Message, IsSetting
<1>3. /\ Buffer("readbuf") = readbuf /\ Buffer("messageBuffer") = messageBuffer
      /\ Buffer("nowhere") = Empty
  BY DEF Buffer
<1> QED
  BY <1>1, <1>2, <1>3 DEF ConfigTypeOK

LEMMA RegisterTurns ==
    ASSUME ConfigTypeOK, FramesInv, RegisterNext
    PROVE  /\ stack # <<>> /\ Top.at = "register" /\ Top.val \in DOMAIN Registered
           /\ \E k \in Keys :
                /\ k = Registered[Top.val]
                /\ \/ \E v \in Values :
                        /\ Turns({Register(Top.val + 1), About("use", k, v)})
                        /\ \/ Starved
                           \/ /\ UNCHANGED <<chosen, untold>> /\ edited' = edited \ {k}
                              /\ settings[k] \in {Unset, v}
                   \/ Turns({Register(Top.val + 1)}) /\ Starved
<1>1. stack # <<>> /\ Top.at = "register" /\ Top.val \in DOMAIN Registered
  BY Zenon DEF RegisterNext, At
<1>2. /\ stack \in Seq(Frames) /\ StackOK(stack) /\ Top.val \in Nat \ {0}
      /\ Top.val + 1 \in Nat \ {0}
  BY <1>1, TopIs DEF FrameOK
<1> DEFINE k == Registered[Top.val]
<1> DEFINE a == Register(Top.val + 1)
<1>3. k \in Keys
  BY <1>1, KeysAre
<1>4. a \in Frames /\ FrameOK(a) /\ ~OfOne(a) /\ a.at = "register"
  BY <1>2, RegisterFrames
<1>5. ASSUME NEW v \in Values,
             \/ Becomes(<<a>> \o Using(k, v, Logs))
             \/ Becomes(<<a>> \o Using(k, v, <<>>))
      PROVE  Turns({a, About("use", k, v)})
  <2> DEFINE b == About("use", k, v)
  <2>1. b \in Frames /\ FrameOK(b) /\ b.at = "use"
    BY <1>3, OneFrame
  <2>2. ~AtTop(b)
    BY <2>1 DEF AtTop
  <2> HIDE DEF a, b, k
  <2>3. ASSUME NEW r \in Seq(Frames), Run(r), Elements(r) \subseteq {b, Frame("log")},
               b \in Elements(r), Becomes(<<a>> \o r)
        PROVE  Turns({a, b})
    <3>1. \A f \in Elements(r) : f.at # "register"
      BY <2>1, <2>3 DEF Frame
    <3>2. Turns({a} \cup {b})
      BY <1>1, <1>2, <1>4, <2>3, <3>1, TurnsMore
    <3>3. {a} \cup {b} = {a, b}
      OBVIOUS
    <3> QED
      BY <3>2, <3>3
  <2>4. CASE Becomes(<<a>> \o Using(k, v, Logs))
    <3>1. LET s == <<b>> \o Logs IN
          /\ Run(s) /\ s \in Seq(Frames) /\ Elements(s) \subseteq {b, Frame("log")}
          /\ b \in Elements(s)
      BY <2>1, <2>2, LoggedRun
    <3> QED
      BY <2>3, <2>4, <3>1 DEF Using, b
  <2>5. CASE Becomes(<<a>> \o Using(k, v, <<>>))
    <3>1. <<b>> \o <<>> = <<b>>
      OBVIOUS
    <3>2. Run(<<b>>) /\ <<b>> \in Seq(Frames) /\ Elements(<<b>>) = {b}
      BY <2>1, SingleRun
    <3>3. Becomes(<<a>> \o <<b>>)
      BY <2>5, <3>1 DEF Using, b
    <3>4. Elements(<<b>>) \subseteq {b, Frame("log")} /\ b \in Elements(<<b>>)
      BY <3>2
    <3> QED
      BY <2>3, <3>2, <3>3, <3>4 DEF b
  <2> QED
    BY <1>5, <2>4, <2>5 DEF a, b, k
<1>6. Becomes(<<a>> \o Logs) => Turns({a})
  BY <1>1, <1>2, <1>4, TurnsOne DEF AtTop
<1>7. DefaultOf(k) \in Values /\ (settings[k] # Unset => settings[k] \in Values)
  BY <1>3, ConfigAssumption DEF DefaultOf, ConfigTypeOK, Optional, ConfigAssumption
<1>8. \/ /\ Becomes(<<a>> \o (IF settings[k] = Unset THEN NotFound(k) ELSE Found(k)))
         /\ edited' = edited \ {k} /\ UNCHANGED <<chosen, untold>>
      \/ Becomes(<<a>> \o Using(k, DefaultOf(k), Logs)) /\ Starved
      \/ Becomes(<<a>> \o Logs) /\ Starved
  BY Zenon DEF RegisterNext
<1> HIDE DEF a
<1>9. CASE /\ Becomes(<<a>> \o (IF settings[k] = Unset THEN NotFound(k) ELSE Found(k)))
           /\ edited' = edited \ {k} /\ UNCHANGED <<chosen, untold>>
  <2>1. CASE settings[k] = Unset
    <3>1. Turns({a, About("use", k, DefaultOf(k))})
      BY <1>5, <1>7, <1>9, <2>1 DEF NotFound
    <3> QED
      BY <1>1, <1>3, <1>7, <1>9, <2>1, <3>1 DEF a
  <2>2. CASE settings[k] # Unset
    <3>1. Turns({a, About("use", k, settings[k])})
      BY <1>5, <1>7, <1>9, <2>2 DEF Found
    <3> QED
      BY <1>1, <1>3, <1>7, <1>9, <2>2, <3>1 DEF a
  <2> QED
    BY <2>1, <2>2
<1>10. CASE Becomes(<<a>> \o Using(k, DefaultOf(k), Logs)) /\ Starved
  <2>1. Turns({a, About("use", k, DefaultOf(k))})
    BY <1>5, <1>7, <1>10
  <2> QED
    BY <1>1, <1>3, <1>7, <1>10, <2>1, Zenon DEF a
<1>11. CASE Becomes(<<a>> \o Logs) /\ Starved
  BY <1>1, <1>3, <1>6, <1>11, Zenon DEF a
<1> QED
  BY <1>8, <1>9, <1>10, <1>11

LEMMA UseTurns ==
    ASSUME FramesInv, Use
    PROVE  /\ stack # <<>> /\ Top.at = "use" /\ Top.key \in Keys /\ Top.val \in Values
           /\ Turns({Then("form")})
           /\ LET f == Then("form") IN
              f.at = "form" /\ f.key = Top.key /\ f.val = Top.val
<1>1. stack # <<>> /\ Top.at = "use" /\ Becomes(<<Then("form")>> \o Logs)
  BY Zenon DEF Use, At
<1>2. Top \in Frames /\ FrameOK(Top) /\ stack \in Seq(Frames) /\ StackOK(stack)
  BY <1>1, TopIs
<1>3. /\ Then("form") \in Frames /\ FrameOK(Then("form"))
      /\ LET f == Then("form") IN
         f.at = "form" /\ f.key = Top.key /\ f.val = Top.val
  BY <1>1, <1>2, ThenFrames DEF Then
<1>4. Turns({Then("form")})
  BY <1>1, <1>2, <1>3, TurnsOne DEF AtTop, OfOne
<1> QED
  BY <1>1, <1>2, <1>3, <1>4 DEF FrameOK

LEMMA FormTurns ==
    ASSUME FramesInv, Form
    PROVE  /\ stack # <<>> /\ Top.at = "form" /\ Top.key \in Keys /\ Top.val \in Values
           /\ Turns({Process("messageBuffer")})
<1>1. stack # <<>> /\ Top.at = "form" /\ Becomes(<<Process("messageBuffer")>>)
  BY Zenon DEF Form, At
<1>2. Top \in Frames /\ FrameOK(Top) /\ stack \in Seq(Frames) /\ StackOK(stack)
  BY <1>1, TopIs
<1>3. /\ Process("messageBuffer") \in Frames /\ FrameOK(Process("messageBuffer"))
      /\ Process("messageBuffer").at = "process"
  BY ProcessFrames
<1>4. Turns({Process("messageBuffer")})
  BY <1>1, <1>2, <1>3, TurnsOne DEF OfOne
<1> QED
  BY <1>1, <1>2, <1>4 DEF FrameOK

(* What is published next is what is in the buffer.                        *)
LEMMA PublishTurns ==
    ASSUME ConfigTypeOK, FramesInv, stack # <<>>, Top.at \in {"process", "save alone"},
           LET b == Buffer(Top.in) IN Becomes(Publish(b.key, Top.in))
    PROVE  Turns({SendOf(Buffer(Top.in).key, Top.in)})
<1>1. Top \in Frames /\ FrameOK(Top) /\ stack \in Seq(Frames) /\ StackOK(stack)
  BY TopIs
<1>2. Top.in \in {"nowhere", "readbuf", "messageBuffer"}
  BY <1>1 DEF Frames
<1> DEFINE a == SendOf(Buffer(Top.in).key, Top.in)
<1>3. /\ a \in Frames /\ FrameOK(a) /\ a.at = "send" /\ a.in = Top.in
  <2> DEFINE k == Buffer(Top.in).key
  <2>1. k \in Keys \cup {Unset}
    BY <1>2, BufferTypes
  <2> HIDE DEF k
  <2>2. /\ SendOf(k, Top.in) \in Frames /\ FrameOK(SendOf(k, Top.in))
        /\ SendOf(k, Top.in).at = "send" /\ SendOf(k, Top.in).in = Top.in
    BY <1>2, <2>1, SendFrames
  <2> QED
    BY <2>2 DEF k
<1>4. Becomes(<<a>> \o Logs)
  BY DEF Publish, SendOf
<1> HIDE DEF a
<1>5. Turns({a})
  BY <1>1, <1>3, <1>4, TurnsOne DEF AtTop, OfOne
<1> QED
  BY <1>5 DEF a

LEMMA ProcessTurns ==
    ASSUME ConfigTypeOK, FramesInv, ProcessConfig
    PROVE  /\ stack # <<>> /\ Top.at = "process" /\ Top.in \in {"readbuf", "messageBuffer"}
           /\ \/ /\ Save(Buffer(Top.in))
                 /\ Turns({SendOf(Buffer(Top.in).key, Top.in)})
              \/ /\ Starved /\ UNCHANGED settings
                 /\ \/ Turns({})
                    \/ /\ Turns({Then("save alone")})
                       /\ LET f == Then("save alone") IN
                          f.at = "save alone" /\ f.in = Top.in
<1>1. /\ stack # <<>> /\ Top.at = "process"
      /\ \/ Save(Buffer(Top.in)) /\ LET b == Buffer(Top.in) IN Becomes(Publish(b.key, Top.in))
         \/ Becomes(Logs) /\ Starved /\ UNCHANGED settings
         \/ /\ Becomes(<<Then("save alone")>> \o Logs) /\ Starved /\ UNCHANGED settings
  BY Zenon DEF ProcessConfig, At
<1>2. Top \in Frames /\ FrameOK(Top) /\ stack \in Seq(Frames) /\ StackOK(stack)
  BY <1>1, TopIs
<1>3. Top.in \in {"readbuf", "messageBuffer"}
  BY <1>1, <1>2 DEF Frames, FrameOK
<1>4. Becomes(Logs) => Turns({})
  BY <1>2, TurnsNone
<1>5. /\ Then("save alone") \in Frames /\ FrameOK(Then("save alone"))
      /\ LET f == Then("save alone") IN f.at = "save alone" /\ f.in = Top.in
  BY <1>1, <1>2, ThenFrames DEF Then
<1>6. Becomes(<<Then("save alone")>> \o Logs) => Turns({Then("save alone")})
  BY <1>1, <1>2, <1>5, TurnsOne DEF AtTop, OfOne
<1>7. (LET b == Buffer(Top.in) IN Becomes(Publish(b.key, Top.in))) =>
        Turns({SendOf(Buffer(Top.in).key, Top.in)})
  BY <1>1, PublishTurns
<1> QED
  BY <1>1, <1>3, <1>4, <1>5, <1>6, <1>7, Zenon

LEMMA SaveTurns ==
    ASSUME ConfigTypeOK, FramesInv, SaveAlone
    PROVE  /\ stack # <<>> /\ Top.at = "save alone" /\ Top.in \in {"readbuf", "messageBuffer"}
           /\ Turns({SendOf(Buffer(Top.in).key, Top.in)}) /\ Starved
           /\ LET b == Buffer(Top.in) IN
              IF IsSetting(b) THEN Store!SetAlone(b.key, b.val)
              ELSE settings' = [k \in Keys |-> Unset]
<1>1. /\ stack # <<>> /\ Top.at = "save alone" /\ Starved
      /\ LET b == Buffer(Top.in) IN
         /\ IF IsSetting(b) THEN Store!SetAlone(b.key, b.val)
            ELSE settings' = [k \in Keys |-> Unset]
         /\ Becomes(Publish(b.key, Top.in))
  BY Zenon DEF SaveAlone, At
<1>2. Top \in Frames /\ FrameOK(Top)
  BY <1>1, TopIs
<1>3. Top.in \in {"readbuf", "messageBuffer"}
  BY <1>1, <1>2 DEF Frames, FrameOK
<1> QED
  BY <1>1, <1>3, PublishTurns

LEMMA SendTurns ==
    ASSUME FramesInv, Send
    PROVE  /\ stack # <<>> /\ Top.at = "send"
           /\ Turns({}) \/ Turns({Frame("read")})
<1>1. /\ stack # <<>> /\ Top.at = "send"
      /\ Becomes(Logs) \/ Becomes(<<ReadAndProcess>> \o Logs)
  BY Zenon DEF Send, At
<1>2. Top \in Frames /\ FrameOK(Top) /\ stack \in Seq(Frames) /\ StackOK(stack)
  BY <1>1, TopIs
<1>3. Frame("read") \in Frames /\ FrameOK(Frame("read")) /\ ~OfOne(Frame("read"))
  BY PlainFrames DEF Plain
<1>4. Frame("read").at = "read"
  BY DEF Frame
<1>5. Becomes(<<ReadAndProcess>> \o Logs) => Turns({Frame("read")})
  BY <1>1, <1>2, <1>3, <1>4, TurnsOne DEF AtTop, ReadAndProcess
<1> QED
  BY <1>1, <1>2, <1>5, TurnsNone

LEMMA LoggedTurns ==
    ASSUME FramesInv, Logged
    PROVE  /\ stack # <<>> /\ Top.at = "log"
           /\ \/ Turns({}) /\ UNCHANGED historyVars
              \/ /\ Turns({Frame("read")})
                 /\ untold' = untold \cup (Callers({"send"}) \cap Keys)
                 /\ UNCHANGED <<chosen, edited>>
<1>1. /\ stack # <<>> /\ Top.at = "log"
      /\ \/ Becomes(<<>>) /\ UNCHANGED historyVars
         \/ /\ Becomes(<<ReadAndProcess>>)
            /\ untold' = untold \cup (Callers({"send"}) \cap Keys)
            /\ UNCHANGED <<chosen, edited>>
  BY Zenon DEF Logged, At
<1>2. Top \in Frames /\ FrameOK(Top) /\ stack \in Seq(Frames) /\ StackOK(stack)
  BY <1>1, TopIs
<1>3. Frame("read") \in Frames /\ FrameOK(Frame("read")) /\ ~OfOne(Frame("read"))
  BY PlainFrames DEF Plain
<1>4. Frame("read").at = "read"
  BY DEF Frame
<1>5. Becomes(<<ReadAndProcess>>) => Turns({Frame("read")})
  BY <1>1, <1>2, <1>3, <1>4, TurnsOne DEF ReadAndProcess
<1>6. Becomes(<<>>) => Turns({})
  BY <1>2, TurnsNone
<1> QED
  BY <1>1, <1>5, <1>6, Zenon

LEMMA ReadEndTurns ==
    ASSUME FramesInv, ReadCorrupted \/ ReadNothing
    PROVE  stack # <<>> /\ Top.at = "read" /\ Turns({})
<1>1. stack # <<>> /\ Top.at = "read" /\ (Becomes(Logs) \/ Becomes(<<>>))
  BY Zenon DEF ReadCorrupted, ReadNothing, At
<1> QED
  BY <1>1, TopIs, TurnsNone

LEMMA ReplyTurns ==
    ASSUME FramesInv, Reply
    PROVE  /\ stack # <<>> /\ Top.at = "reply"
           /\ Turns({}) \/ Turns({SendOf(Unset, "nowhere")})
<1>1. /\ stack # <<>> /\ Top.at = "reply"
      /\ Becomes(PublishPlain) \/ Becomes(Logs)
  BY Zenon DEF Reply, At
<1>2. Top \in Frames /\ FrameOK(Top) /\ stack \in Seq(Frames) /\ StackOK(stack)
  BY <1>1, TopIs
<1> DEFINE a == SendOf(Unset, "nowhere")
<1>3. /\ a \in Frames /\ FrameOK(a) /\ a.at = "send" /\ a.in = "nowhere"
  BY SendFrames
<1>4. Becomes(PublishPlain) => Becomes(<<a>> \o Logs)
  BY DEF PublishPlain, Publish, SendOf
<1> HIDE DEF a
<1>5. Becomes(PublishPlain) => Turns({a})
  BY <1>1, <1>2, <1>3, <1>4, TurnsOne DEF AtTop, OfOne
<1> QED
  BY <1>1, <1>2, <1>5, TurnsNone DEF a

LEMMA SwitchTurns ==
    ASSUME FramesInv, Switch
    PROVE  stack # <<>> /\ Top.at = "switch" /\ Turns({})
<1>1. /\ stack # <<>> /\ Top.at = "switch"
      /\ Becomes(<<Frame("log")>>) \/ Becomes(<<>>)
  BY DEF Switch, At
<1> QED
  BY <1>1, TopIs, TurnsNone

(* The packets, and what is done with each.                                *)
LEMMA InboundIs ==
    \A p \in Inbound :
        \/ p.kind = "config" /\ IsSetting(p) /\ p \in Packets
        \/ p.kind = "connack" /\ p = Message("connack")
        \/ p.kind \in {"message", "enable", "disable"} /\ p \in Packets
BY DEF Inbound, Packets, Message, Setting, IsSetting

LEMMA PacketTurns ==
    ASSUME ConfigTypeOK, FramesInv, ReadAPacket
    PROVE  /\ stack # <<>> /\ Top.at = "read" /\ inbox # <<>> /\ Head(inbox) \in Inbound
           /\ \/ Head(inbox).kind = "config" /\ Turns({Top, Process("readbuf")})
              \/ /\ Head(inbox).kind = "connack"
                 /\ Turns({Top, Register(1), SendOf(Unset, "nowhere")})
              \/ Head(inbox).kind = "message" /\ Turns({Top, Frame("reply")})
              \/ Head(inbox).kind \in {"enable", "disable"} /\ Turns({Top, Frame("switch")})
<1>1. /\ stack # <<>> /\ Top.at = "read" /\ inbox # <<>>
      /\ Becomes(<<Top>> \o Handler(Head(inbox)))
  BY Zenon DEF ReadAPacket, At
<1>2. Top \in Frames /\ FrameOK(Top) /\ stack \in Seq(Frames) /\ StackOK(stack)
  BY <1>1, TopIs
<1>3. /\ inbox \in Seq(Inbound) /\ Head(inbox) \in Inbound
      /\ 1 \in DOMAIN inbox /\ Head(inbox) = inbox[1]
  BY <1>1 DEF FramesInv, LineInv
<1>4. ~OfOne(Top)
  BY <1>1, <1>2 DEF OfOne, StackOK, Frames, FrameOK
<1>5. ASSUME NEW r \in Seq(Frames), Run(r), NEW R, R \subseteq Elements(r),
             Elements(r) \subseteq R \cup {Frame("log")},
             r # <<>> => ~OfOne(r[1]),
             (\E f \in Elements(r) : f.at = "register") =>
                 \A j \in DOMAIN stack : stack[j].at # "register",
             Handler(Head(inbox)) = r
      PROVE  Turns({Top} \cup R)
  BY <1>1, <1>2, <1>4, <1>5, TurnsMore
<1>6. Frame("log").at = "log" /\ ~OfOne(Frame("log"))
  BY DEF Frame, OfOne
<1>7. ASSUME NEW a \in Frames, FrameOK(a), ~AtTop(a), a.at # "register", ~OfOne(a),
             Handler(Head(inbox)) = <<a>> \o Logs
      PROVE  Turns({Top, a})
  <2> DEFINE r == <<a>> \o Logs
  <2>1. /\ Run(r) /\ r \in Seq(Frames) /\ r # <<>> /\ r[1] = a
        /\ Elements(r) \subseteq {a, Frame("log")} /\ a \in Elements(r)
    BY <1>7, LoggedRun
  <2> HIDE DEF r
  <2>2. Turns({Top} \cup {a})
    <3>1. Handler(Head(inbox)) = r
      BY <1>7 DEF r
    <3>2. \A f \in Elements(r) : f.at # "register"
      BY <1>6, <1>7, <2>1
    <3>3. {a} \subseteq Elements(r) /\ Elements(r) \subseteq {a} \cup {Frame("log")}
      BY <2>1
    <3> QED
      BY <1>5, <1>7, <2>1, <3>1, <3>2, <3>3
  <2>3. {Top} \cup {a} = {Top, a}
    OBVIOUS
  <2> QED
    BY <2>2, <2>3
<1>8. CASE Head(inbox).kind = "config"
  <2>1. Handler(Head(inbox)) = <<Process("readbuf")>> \o Logs
    BY <1>8 DEF Handler
  <2>2. /\ Process("readbuf") \in Frames /\ FrameOK(Process("readbuf"))
        /\ Process("readbuf").at = "process" /\ Process("readbuf").in = "readbuf"
    BY ProcessFrames
  <2>3. Turns({Top, Process("readbuf")})
    BY <1>7, <2>1, <2>2 DEF AtTop, OfOne
  <2> QED
    BY <1>1, <1>3, <1>8, <2>3
<1>9. CASE Head(inbox).kind = "connack"
  <2> DEFINE a == SendOf(Unset, "nowhere")
  <2> DEFINE r == <<a>> \o Logs
  <2> DEFINE b == Register(1)
  <2>1. Handler(Head(inbox)) = <<b>> \o r
    BY <1>9 DEF Handler, PublishPlain, Publish, SendOf
  <2>2. /\ a \in Frames /\ FrameOK(a) /\ a.at = "send" /\ a.in = "nowhere"
    BY SendFrames
  <2>3. /\ b \in Frames /\ FrameOK(b) /\ ~OfOne(b) /\ b.at = "register"
    BY RegisterFrames
  <2> HIDE DEF a, b
  <2>4. /\ Run(r) /\ r \in Seq(Frames) /\ r # <<>> /\ r[1] = a
        /\ Elements(r) \subseteq {a, Frame("log")} /\ a \in Elements(r)
    BY <2>2, LoggedRun DEF AtTop
  <2> HIDE DEF r
  <2> DEFINE s == <<b>> \o r
  <2>5. /\ Run(s) /\ Elements(s) = {b} \cup Elements(r) /\ s \in Seq(Frames)
        /\ s # <<>> /\ s[1] = b
    <3>1. \A f \in Elements(r) : f.at # "register"
      BY <1>6, <2>2, <2>4
    <3>2. ~OfOne(a) /\ ~AtTop(b)
      BY <2>2, <2>3 DEF OfOne, AtTop
    <3> QED
      BY <2>2, <2>3, <2>4, <3>1, <3>2, RunGrows
  <2> HIDE DEF s
  <2>6. \A j \in DOMAIN stack : stack[j].at # "register"
    BY <1>3, <1>9 DEF FramesInv, LineInv
  <2>7. Turns({Top} \cup {b, a})
    <3>1. {b, a} \subseteq Elements(s) /\ Elements(s) \subseteq {b, a} \cup {Frame("log")}
      BY <2>4, <2>5
    <3>2. Handler(Head(inbox)) = s
      BY <2>1 DEF s
    <3> QED
      BY <1>5, <2>3, <2>5, <2>6, <3>1, <3>2
  <2>8. {Top} \cup {b, a} = {Top, b, a}
    OBVIOUS
  <2> QED
    BY <1>1, <1>3, <1>9, <2>7, <2>8 DEF a, b
<1>10. CASE Head(inbox).kind = "message"
  <2>1. Handler(Head(inbox)) = <<Frame("reply")>> \o Logs
    BY <1>10 DEF Handler
  <2>2. Frame("reply") \in Frames /\ FrameOK(Frame("reply")) /\ ~OfOne(Frame("reply"))
    BY PlainFrames DEF Plain
  <2>3. Frame("reply").at = "reply"
    BY DEF Frame
  <2>4. Turns({Top, Frame("reply")})
    BY <1>7, <2>1, <2>2, <2>3 DEF AtTop
  <2> QED
    BY <1>1, <1>3, <1>10, <2>4
<1>11. CASE Head(inbox).kind \in {"enable", "disable"}
  <2> DEFINE a == Frame("switch")
  <2>1. Handler(Head(inbox)) = <<a>>
    BY <1>11 DEF Handler
  <2>2. a \in Frames /\ FrameOK(a) /\ ~OfOne(a)
    BY PlainFrames DEF Plain
  <2>3. a.at = "switch"
    BY DEF Frame
  <2> HIDE DEF a
  <2>4. Run(<<a>>) /\ Elements(<<a>>) = {a} /\ <<a>> \in Seq(Frames) /\ <<a>>[1] = a
    BY <2>2, SingleRun
  <2>5. Turns({Top} \cup {a})
    <3>1. \A f \in Elements(<<a>>) : f.at # "register"
      BY <2>3, <2>4
    <3>2. {a} \subseteq Elements(<<a>>) /\ Elements(<<a>>) \subseteq {a} \cup {Frame("log")}
      BY <2>4
    <3> QED
      BY <1>5, <2>1, <2>2, <2>4, <3>1, <3>2
  <2>6. {Top} \cup {a} = {Top, a}
    OBVIOUS
  <2> QED
    BY <1>1, <1>3, <1>11, <2>5, <2>6 DEF a
<1> QED
  BY <1>3, <1>8, <1>9, <1>10, <1>11, InboundIs

-----------------------------------------------------------------------------
(* The steps that turn the top of the stack, and the others.               *)
Turning ==
    \/ RegisterNext \/ RegisterDone \/ Use \/ Form \/ ProcessConfig \/ SaveAlone
    \/ Send \/ Logged \/ ReadCorrupted \/ ReadNothing \/ ReadAPacket \/ Switch \/ Reply

LEMMA DoneTurns ==
    ASSUME FramesInv, RegisterDone
    PROVE  /\ stack # <<>> /\ Top.at = "register" /\ Top.val \notin DOMAIN Registered
           /\ Turns({})
<1>1. /\ stack # <<>> /\ Top.at = "register" /\ Top.val \notin DOMAIN Registered
      /\ Becomes(<<>>)
  BY Zenon DEF RegisterDone, At
<1> QED
  BY <1>1, TopIs, TurnsNone

LEMMA FramesApart ==
    /\ \A f \in Plain : ~Passes(f) /\ ~OneOf(f) /\ ~Waits(f)
    /\ \A i \in Nat : ~Passes(Register(i)) /\ ~OneOf(Register(i)) /\ ~Waits(Register(i))
    /\ \A k, v : ~Passes(About("use", k, v)) /\ ~Waits(About("use", k, v))
    /\ \A k, b : ~Passes(SendOf(k, b)) /\ ~OneOf(SendOf(k, b)) /\ ~Waits(SendOf(k, b))
    /\ ~Passes(Process("readbuf")) /\ ~Waits(Process("messageBuffer"))
    /\ \A b : ~OneOf(Process(b))
BY DEF Plain, Frame, Register, About, SendOf, Process, Passes, OneOf, Waits

(* A registration begins with a CONNACK only, and an edit waits when it has *)
(* been read.                                                              *)
LEMMA TurningTurns ==
    ASSUME ConfigTypeOK, FramesInv, Turning
    PROVE  /\ stack # <<>>
           /\ \E R : /\ Turns(R)
                     /\ (\E f \in R : f.at = "register") =>
                          \/ Top.at = "register"
                          \/ ReadAPacket /\ Head(inbox).kind = "connack"
                     /\ (\E f \in R : Waits(f)) =>
                          ReadAPacket /\ \A f \in R : f.at # "register"
<1>1. CASE RegisterNext
  <2>1. stack # <<>> /\ Top.at = "register"
    BY <1>1, RegisterTurns
  <2>2. Top.val + 1 \in Nat
    BY <2>1, TopIs DEF FrameOK
  <2>3. PICK k \in Keys :
          \/ \E v \in Values : Turns({Register(Top.val + 1), About("use", k, v)})
          \/ Turns({Register(Top.val + 1)})
    BY <1>1, RegisterTurns
  <2>4. /\ ~Waits(Register(Top.val + 1))
        /\ \A v : ~Waits(About("use", k, v))
    BY <2>2, FramesApart
  <2>5. CASE Turns({Register(Top.val + 1)})
    BY <2>1, <2>4, <2>5
  <2>6. ASSUME NEW v \in Values, Turns({Register(Top.val + 1), About("use", k, v)})
        PROVE  \E R : Turns(R) /\ \A f \in R : ~Waits(f)
    <3>1. \A f \in {Register(Top.val + 1), About("use", k, v)} : ~Waits(f)
      BY <2>4
    <3> QED
      BY <2>6, <3>1
  <2> QED
    BY <2>1, <2>3, <2>5, <2>6
<1>2. CASE RegisterDone \/ ReadCorrupted \/ ReadNothing \/ Switch
  <2>1. stack # <<>> /\ Turns({})
    BY <1>2, DoneTurns, ReadEndTurns, SwitchTurns
  <2> QED
    BY <2>1
<1>3. CASE Use \/ Form
  <2>1. stack # <<>> /\ (Turns({Then("form")}) \/ Turns({Process("messageBuffer")}))
    BY <1>3, UseTurns, FormTurns
  <2>2. /\ Use => Then("form").at = "form"
        /\ Process("messageBuffer").at = "process"
        /\ Use => ~Waits(Then("form"))
        /\ ~Waits(Process("messageBuffer"))
    BY UseTurns, ProcessFrames, FramesApart DEF Waits
  <2>3. Use => Turns({Then("form")})
    BY UseTurns
  <2>4. Form => Turns({Process("messageBuffer")})
    BY FormTurns
  <2> QED
    BY <1>3, <2>1, <2>2, <2>3, <2>4
<1>4. CASE ProcessConfig \/ SaveAlone
  <2>1. stack # <<>> /\ Top \in Frames
    BY <1>4, TopIs, ProcessTurns, SaveTurns
  <2>2. SendOf(Buffer(Top.in).key, Top.in).at = "send"
    BY <2>1, BufferTypes, SendFrames DEF Frames
  <2>3. ProcessConfig => \/ Turns({SendOf(Buffer(Top.in).key, Top.in)})
                         \/ Turns({})
                         \/ Turns({Then("save alone")}) /\ Then("save alone").at = "save alone"
    BY ProcessTurns
  <2>4. SaveAlone => Turns({SendOf(Buffer(Top.in).key, Top.in)})
    BY SaveTurns
  <2>5. PICK f : f.at \notin {"register", "process"} /\ (Turns({f}) \/ Turns({}))
    <3>1. CASE Turns({SendOf(Buffer(Top.in).key, Top.in)})
      BY <2>2, <3>1
    <3>2. CASE Turns({Then("save alone")}) /\ Then("save alone").at = "save alone"
      BY <3>2
    <3>3. CASE Turns({})
      BY <2>2, <3>3
    <3> QED
      BY <1>4, <2>3, <2>4, <3>1, <3>2, <3>3
  <2> QED
    BY <2>1, <2>5 DEF Waits
<1>5. CASE Send \/ Logged
  <2>1. stack # <<>> /\ (Turns({}) \/ Turns({Frame("read")}))
    BY <1>5, SendTurns, LoggedTurns
  <2>2. Frame("read").at = "read"
    BY DEF Frame
  <2> QED
    BY <2>1, <2>2 DEF Waits
<1>6. CASE ReadAPacket
  <2>1. /\ stack # <<>> /\ Top.at = "read"
        /\ \/ Turns({Top, Process("readbuf")})
           \/ /\ Head(inbox).kind = "connack"
              /\ Turns({Top, Register(1), SendOf(Unset, "nowhere")})
           \/ Turns({Top, Frame("reply")})
           \/ Turns({Top, Frame("switch")})
    BY <1>6, PacketTurns
  <2>2. /\ Frame("reply").at = "reply" /\ Frame("switch").at = "switch"
        /\ Process("readbuf").at = "process"
    BY ProcessFrames DEF Frame
  <2>3. ~Waits(Register(1)) /\ ~Waits(SendOf(Unset, "nowhere")) /\ ~Waits(Top)
    BY <2>1, FramesApart DEF Waits
  <2>4. CASE Turns({Top, Process("readbuf")})
    BY <1>6, <2>1, <2>2, <2>4
  <2>5. CASE Turns({Top, Frame("reply")}) \/ Turns({Top, Frame("switch")})
    BY <1>6, <2>1, <2>2, <2>3, <2>5 DEF Waits
  <2>6. CASE /\ Head(inbox).kind = "connack"
             /\ Turns({Top, Register(1), SendOf(Unset, "nowhere")})
    <3>1. \A f \in {Top, Register(1), SendOf(Unset, "nowhere")} : ~Waits(f)
      BY <2>3
    <3> QED
      BY <1>6, <2>1, <2>6, <3>1
  <2> QED
    BY <2>1, <2>4, <2>5, <2>6
<1>7. CASE Reply
  <2>1. stack # <<>> /\ (Turns({}) \/ Turns({SendOf(Unset, "nowhere")}))
    BY <1>7, ReplyTurns
  <2>2. SendOf(Unset, "nowhere").at = "send"
    BY SendFrames
  <2> QED
    BY <2>1, <2>2 DEF Waits
<1> QED
  BY <1>1, <1>2, <1>3, <1>4, <1>5, <1>6, <1>7 DEF Turning

LEMMA NextStack ==
    ASSUME ConfigTypeOK, FramesInv, [Next]_vars
    PROVE  stack' \in Seq(Frames) /\ StackOK(stack')
<1>1. CASE Turning
  <2>1. /\ stack # <<>> /\ stack \in Seq(Frames) /\ StackOK(stack)
        /\ \E R : Turns(R)
    BY <1>1, TurningTurns DEF FramesInv
  <2> QED
    BY <2>1, Turned
<1>2. CASE UNCHANGED stack
  BY <1>2 DEF FramesInv
<1>3. CASE stack' = <<>>
  BY <1>3 DEF StackOK
<1>4. CASE MainReads \/ CannotConnect
  <2>1. \/ stack' = <<Frame("read")>>
        \/ stack' = <<Register(1)>>
    BY <1>4, Zenon DEF MainReads, CannotConnect, ReadAndProcess
  <2>2. ASSUME NEW a \in Frames, FrameOK(a), ~OfOne(a), a.at # "send", stack' = <<a>>
        PROVE  stack' \in Seq(Frames) /\ StackOK(stack')
    BY <2>2 DEF StackOK
  <2>3. /\ Frame("read") \in Frames /\ FrameOK(Frame("read")) /\ ~OfOne(Frame("read"))
        /\ Frame("read").at = "read"
    BY PlainFrames DEF Plain, Frame
  <2>4. /\ Register(1) \in Frames /\ FrameOK(Register(1)) /\ ~OfOne(Register(1))
        /\ Register(1).at = "register"
    BY RegisterFrames
  <2> QED
    BY <2>1, <2>2, <2>3, <2>4
<1>5. CASE Connect \/ Reconnect \/ LineBreaks \/ (\E p \in Packets : Arrives(p))
           \/ UNCHANGED vars
  <2>1. UNCHANGED stack
    BY <1>5, Zenon DEF Connect, Reconnect, LineBreaks, Arrives, vars
  <2> QED
    BY <1>2, <2>1
<1>6. CASE Restart
  BY <1>3, <1>6 DEF Restart
<1> QED
  BY <1>1, <1>4, <1>5, <1>6, Zenon DEF Next, Turning

(* Where the packets are changed.                                          *)
LEMMA NextLine ==
    ASSUME ConfigTypeOK, FramesInv, [Next]_vars
    PROVE  LineInv'
<1>1. /\ inbox \in Seq(Inbound) /\ Len(inbox) <= packets + 1 /\ packets \in Nat
      /\ \A i \in DOMAIN inbox : inbox[i].kind = "connack" =>
            /\ i = 1 /\ ~registered
            /\ \A j \in DOMAIN stack : stack[j].at # "register"
      /\ link = "down" => stack = <<>> /\ inbox = <<>> /\ ~registered
      /\ link \in {"down", "up", "broken", "corrupted"}
  BY ConfigAssumption DEF FramesInv, LineInv, ConfigTypeOK, ConfigAssumption
<1>2. CASE inbox' = <<>> /\ ~registered' /\ packets' \in Nat /\ stack' = <<>>
  <2>1. <<>> \in Seq(Inbound) /\ Len(<<>>) = 0 /\ DOMAIN <<>> = {}
    OBVIOUS
  <2>2. 0 <= packets' + 1
    <3>1. packets' \in Nat
      BY <1>2, Zenon
    <3>2. \A n \in Nat : 0 <= n + 1
      OBVIOUS
    <3> QED
      BY <3>1, <3>2
  <2>3. inbox' \in Seq(Inbound) /\ Len(inbox') <= packets' + 1 /\ DOMAIN inbox' = {}
    BY <1>2, <2>1, <2>2, Zenon
  <2> QED
    BY <1>2, <2>3, Zenon DEF LineInv
<1>4. CASE /\ UNCHANGED <<inbox, packets, registered>>
           /\ link' = "down" => link = "down" /\ stack' = <<>>
           /\ \A j \in DOMAIN stack' : stack'[j].at = "register" =>
                 inbox = <<>> \/ \E i \in DOMAIN stack : stack[i].at = "register"
  BY <1>1, <1>4 DEF LineInv
<1>5. CASE Turning /\ ~ReadAPacket
  <2>1. /\ stack # <<>> /\ stack \in Seq(Frames) /\ StackOK(stack)
        /\ Len(stack) \in DOMAIN stack /\ Top = stack[Len(stack)]
    BY <1>5, TurningTurns, TopIs DEF FramesInv
  <2>2. PICK R : /\ Turns(R)
                 /\ (\E f \in R : f.at = "register") =>
                      \/ Top.at = "register"
                      \/ ReadAPacket /\ Head(inbox).kind = "connack"
    BY <1>5, TurningTurns
  <2>3. \A j \in DOMAIN stack' : stack'[j].at = "register" =>
             \E i \in DOMAIN stack : stack[i].at = "register"
    <3>1. \A i \in DOMAIN stack' :
                \/ i \in DOMAIN stack /\ stack'[i] = stack[i]
                \/ stack'[i] = Frame("log")
                \/ stack'[i] \in R
      BY <2>1, <2>2, Turned
    <3>2. Frame("log").at = "log"
      BY DEF Frame
    <3> QED
      BY <1>5, <2>1, <2>2, <3>1, <3>2
  <2>4. CASE ~RegisterDone
    <3>1. UNCHANGED <<inbox, packets, registered>> /\ link' # "down"
      <4>1. UNCHANGED <<inbox, packets, registered>>
        BY <1>5, <2>4, Zenon
           DEF Turning, RegisterNext, Use, Form, ProcessConfig, SaveAlone, Send,
               Logged, ReadCorrupted, ReadNothing, Switch, Reply, lineVars
      <4>2. link' = link \/ link' = "corrupted"
        BY <1>5, <2>4, Zenon
           DEF Turning, RegisterNext, Use, Form, ProcessConfig, SaveAlone, Send,
               Logged, ReadCorrupted, ReadNothing, Switch, Reply, lineVars
      <4> QED
        BY <1>1, <2>1, <4>1, <4>2
    <3> QED
      BY <1>4, <2>3, <3>1
  <2>5. CASE RegisterDone
    <3>1. Top.at = "register" /\ UNCHANGED <<inbox, packets, link>>
      BY <2>5, Zenon DEF RegisterDone, At, lineVars
    <3>2. \A i \in DOMAIN inbox : inbox[i].kind # "connack"
      BY <1>1, <2>1, <3>1
    <3>3. link # "down"
      BY <1>1, <2>1
    <3> QED
      BY <1>1, <3>1, <3>2, <3>3 DEF LineInv
  <2> QED
    BY <2>4, <2>5
<1>6. CASE ReadAPacket
  <2>1. inbox # <<>> /\ inbox' = Tail(inbox) /\ UNCHANGED <<packets, registered, link>>
    BY <1>6, Zenon DEF ReadAPacket
  <2>2. /\ inbox' \in Seq(Inbound) /\ Len(inbox') <= packets + 1
        /\ \A i \in DOMAIN inbox' : i + 1 \in DOMAIN inbox /\ inbox'[i] = inbox[i + 1]
                                    /\ i + 1 # 1
    BY <1>1, <2>1
  <2>3. \A i \in DOMAIN inbox' : inbox'[i].kind # "connack"
    BY <1>1, <2>2
  <2>4. link # "down"
    BY <1>1, <2>1
  <2> QED
    BY <1>1, <2>1, <2>2, <2>3, <2>4 DEF LineInv
<1>7. CASE MainReads \/ LineBreaks \/ UNCHANGED vars
  <2>1. UNCHANGED <<inbox, packets, registered>>
    BY <1>7, Zenon DEF MainReads, LineBreaks, vars, lineVars
  <2>2. (link' = link /\ stack' = stack) \/ link' # "down"
    BY <1>7 DEF MainReads, LineBreaks, vars, lineVars
  <2>3. \A j \in DOMAIN stack' : stack'[j].at = "register" =>
            \E i \in DOMAIN stack : stack[i].at = "register"
    <3>1. stack' = stack \/ stack' = <<Frame("read")>>
      BY <1>7, Zenon DEF MainReads, LineBreaks, vars, ReadAndProcess
    <3>2. Frame("read").at = "read"
      BY DEF Frame
    <3> QED
      BY <3>1, <3>2
  <2> QED
    BY <1>1, <1>4, <2>1, <2>2, <2>3
<1>8. CASE Connect
  <2>1. /\ inbox' = <<Message("connack")>> /\ UNCHANGED <<stack, packets, registered>>
        /\ stack = <<>> /\ link = "down" /\ link' = "up"
    BY <1>8, Zenon DEF Connect
  <2>2. Message("connack") \in Inbound
    BY DEF Inbound
  <2> QED
    BY <1>1, <2>1, <2>2 DEF LineInv
<1>9. CASE CannotConnect
  <2>1. /\ UNCHANGED <<inbox, packets, registered>>
        /\ link = "down" /\ link' = "corrupted"
    BY <1>9, Zenon DEF CannotConnect
  <2> QED
    BY <1>1, <2>1 DEF LineInv
<1>10. CASE \E p \in Packets : Arrives(p)
  <2>1. PICK p \in Packets : inbox' = Append(inbox, p)
    BY <1>10 DEF Arrives
  <2>2. /\ link = "up" /\ packets' = packets + 1 /\ UNCHANGED <<stack, registered, link>>
    BY <1>10, Zenon DEF Arrives
  <2>3. p \in Inbound /\ p.kind # "connack"
    BY DEF Inbound, Packets, Setting, Message
  <2>4. /\ inbox' \in Seq(Inbound) /\ Len(inbox') = Len(inbox) + 1
        /\ \A i \in DOMAIN inbox' : \/ i \in DOMAIN inbox /\ inbox'[i] = inbox[i]
                                    \/ inbox'[i] = p
    BY <1>1, <2>1, <2>3
  <2> QED
    BY <1>1, <2>2, <2>3, <2>4 DEF LineInv
<1>11. CASE Reconnect \/ Restart
  <2>1. NoConnection /\ stack' = <<>>
    BY <1>11 DEF Reconnect, Restart
  <2> QED
    BY <1>2, <2>1 DEF NoConnection
<1> QED
  BY <1>5, <1>6, <1>7, <1>8, <1>9, <1>10, <1>11, Zenon DEF Next, Turning

-----------------------------------------------------------------------------
(* Types.  Which buffer is written, and what a save does to a setting.     *)
Held == Packets \cup {Message(kind) : kind \in {"nothing", "connack", "reply"}}

LEMMA HeldIs ==
    /\ Empty \in Held /\ Message("reply") \in Held /\ Inbound \subseteq Held
    /\ \A k \in Keys, v \in Values : Setting(k, v) \in Held
BY DEF Held, Empty, Inbound, Packets

LEMMA SavedSetting ==
    ASSUME ConfigTypeOK, NEW k \in Keys, NEW v \in Values
    PROVE  /\ Store!Set(k, v) =>
                /\ settings' = [settings EXCEPT ![k] = v]
                /\ settings' \in [Keys -> Optional] /\ settings'[k] = v
                /\ \A m \in Keys : m # k => settings'[m] = settings[m]
           /\ Store!SetAlone(k, v) => settings' \in [Keys -> Optional]
BY DEF ConfigTypeOK, Optional, Store!Set, Store!SetAlone

LEMMA StarvedTypes ==
    ASSUME ConfigTypeOK, Starved
    PROVE  chosen' \in [Keys -> Optional] /\ edited' \cup untold' \subseteq Keys
BY DEF ConfigTypeOK, Starved, Optional

(* What a read leaves of the choices, and what it adds to them.            *)
LEMMA EditsLeftTypes ==
    ASSUME ConfigTypeOK
    PROVE  /\ EditsLeft \in [Keys -> Optional]
           /\ \A k \in Keys : EditsLeft[k] \in {Unset, chosen[k]}
           /\ \A k \in Keys : EditWaits(k) => EditsLeft[k] = Unset \/ settings[k] = readbuf.val
           /\ \A k \in Keys : ~EditWaits(k) => EditsLeft[k] = chosen[k]
BY DEF ConfigTypeOK, EditsLeft, Optional

LEMMA EditTypes ==
    ASSUME ConfigTypeOK, NEW p \in Inbound, Edit(p)
    PROVE  /\ chosen' \in [Keys -> Optional]
           /\ \A k \in Keys : IsSetting(p) /\ k = p.key =>
                /\ chosen'[k] \in {Unset, p.val}
                /\ Registering(k) => chosen'[k] = Unset
           /\ \A k \in Keys : ~(IsSetting(p) /\ k = p.key) => chosen'[k] = EditsLeft[k]
<1>1. EditsLeft \in [Keys -> Optional]
  BY EditsLeftTypes
<1>2. IsSetting(p) => p.key \in Keys /\ p.val \in Values
  BY DEF Inbound, Packets, Message, Setting, IsSetting
<1>3. CASE IsSetting(p)
  <2>1. chosen' = [EditsLeft EXCEPT ![p.key] = IF Registering(p.key) THEN Unset ELSE p.val]
    BY <1>3 DEF Edit
  <2> QED
    BY <1>1, <1>2, <1>3, <2>1 DEF Optional
<1>4. CASE ~IsSetting(p)
  BY <1>1, <1>4 DEF Edit
<1> QED
  BY <1>3, <1>4

LEMMA SettingTypes ==
    ASSUME ConfigTypeOK, FramesInv, [Next]_vars
    PROVE  /\ variables' \in [Keys -> Values]
           /\ {settings', told', chosen'} \subseteq [Keys -> Optional]
           /\ edited' \cup untold' \subseteq Keys
<1>1. /\ variables \in [Keys -> Values]
      /\ settings \in [Keys -> Optional] /\ told \in [Keys -> Optional]
      /\ chosen \in [Keys -> Optional] /\ edited \cup untold \subseteq Keys
  BY DEF ConfigTypeOK
<1>2. CASE /\ UNCHANGED <<variables, settings, told>>
           /\ UNCHANGED historyVars \/ Starved
  BY <1>1, <1>2, StarvedTypes DEF historyVars
<1>3. CASE RegisterNext
  <2>1. UNCHANGED <<variables, settings, told>>
    BY <1>3, Zenon DEF RegisterNext, settingVars
  <2>2. Starved \/ (chosen' = chosen /\ untold' = untold /\ edited' \subseteq edited)
    BY <1>3, RegisterTurns
  <2> QED
    BY <1>1, <1>2, <2>1, <2>2, StarvedTypes
<1>4. CASE Use
  <2>1. /\ variables' = [variables EXCEPT ![Top.key] = Top.val]
        /\ UNCHANGED <<settings, told, chosen, edited, untold>>
    BY <1>4, Zenon DEF Use, historyVars
  <2>2. Top.key \in Keys /\ Top.val \in Values
    BY <1>4, UseTurns
  <2> QED
    BY <1>1, <2>1, <2>2
<1>5. CASE ProcessConfig
  <2>1. UNCHANGED <<variables, told>>
    BY <1>5, Zenon DEF ProcessConfig
  <2> DEFINE b == Buffer(Top.in)
  <2>2. /\ Top.in \in {"readbuf", "messageBuffer"}
        /\ Save(b) \/ (Starved /\ UNCHANGED settings)
    BY <1>5, ProcessTurns
  <2>3. IsSetting(b) => b.key \in Keys /\ b.val \in Values
    BY <2>2, BufferTypes
  <2> HIDE DEF b
  <2>4. CASE Save(b)
    <3>1. CASE IsSetting(b)
      <4>1. settings' \in [Keys -> Optional]
        BY <2>3, <2>4, <3>1, SavedSetting DEF Save
      <4>2. edited' \in {edited, edited \cup {b.key}} /\ UNCHANGED <<chosen, untold>>
        BY <2>4, <3>1 DEF Save
      <4>3. chosen' \in [Keys -> Optional] /\ edited' \cup untold' \subseteq Keys
        BY <1>1, <2>3, <3>1, <4>2
      <4> QED
        BY <1>1, <2>1, <4>1, <4>3
    <3>2. CASE ~IsSetting(b)
      BY <1>2, <2>1, <2>4, <3>2 DEF Save
    <3> QED
      BY <3>1, <3>2
  <2> QED
    BY <1>2, <2>1, <2>2, <2>4
<1>6. CASE SaveAlone
  <2>1. UNCHANGED <<variables, told>>
    BY <1>6, Zenon DEF SaveAlone
  <2> DEFINE b == Buffer(Top.in)
  <2>2. /\ Top.in \in {"readbuf", "messageBuffer"} /\ Starved
        /\ \/ IsSetting(b) /\ Store!SetAlone(b.key, b.val)
           \/ settings' = [k \in Keys |-> Unset]
    BY <1>6, SaveTurns
  <2>3. IsSetting(b) => b.key \in Keys /\ b.val \in Values
    BY <2>2, BufferTypes
  <2> HIDE DEF b
  <2>4. settings' \in [Keys -> Optional]
    BY <2>2, <2>3, SavedSetting DEF Optional
  <2> QED
    BY <1>1, <2>1, <2>2, <2>4, StarvedTypes
<1>7. CASE Send
  <2>1. UNCHANGED <<variables, settings, chosen, edited, untold>>
    BY <1>7, Zenon DEF Send, historyVars
  <2> DEFINE b == Buffer(Top.in)
  <2>2. told' = told \/ (IsSetting(b) /\ told' = [told EXCEPT ![b.key] = b.val])
    BY <1>7 DEF Send
  <2>3. IsSetting(b) => b.key \in Keys /\ b.val \in Values
    <3>1. Top.in \in {"nowhere", "readbuf", "messageBuffer"}
      BY <1>7, SendTurns, TopIs DEF Frames
    <3> QED
      BY <3>1, BufferTypes
  <2> HIDE DEF b
  <2>4. told' \in [Keys -> Optional]
    BY <1>1, <2>2, <2>3 DEF Optional
  <2> QED
    BY <1>1, <2>1, <2>4
<1>8. CASE Logged
  <2>1. UNCHANGED <<variables, settings, told>>
    BY <1>8, Zenon DEF Logged, settingVars
  <2>2. \/ UNCHANGED historyVars
        \/ /\ untold' = untold \cup (Callers({"send"}) \cap Keys)
           /\ UNCHANGED <<chosen, edited>>
    BY <1>8, LoggedTurns
  <2> QED
    BY <1>1, <2>1, <2>2 DEF historyVars
<1>9. CASE \/ RegisterDone \/ Form \/ ReadCorrupted \/ Switch \/ Reply
           \/ MainReads \/ Connect \/ CannotConnect \/ LineBreaks
           \/ (\E p \in Packets : Arrives(p)) \/ UNCHANGED vars
  <2>1. UNCHANGED <<variables, settings, told>> /\ UNCHANGED historyVars
    BY <1>9, Zenon
       DEF RegisterDone, Form, ReadCorrupted, Switch, Reply, MainReads, Connect,
           CannotConnect, LineBreaks, Arrives, vars, settingVars
  <2> QED
    BY <1>2, <2>1
<1>10. CASE Reconnect \/ Restart
  <2>1. /\ variables' \in {variables, First} /\ edited' = {} /\ untold' = {}
        /\ chosen' = EditsLeft /\ UNCHANGED <<settings, told>>
    BY <1>10 DEF Reconnect, Restart, NoConnection
  <2>2. First \in [Keys -> Values]
    BY ConfigAssumption DEF ConfigAssumption
  <2> QED
    BY <1>1, <2>1, <2>2, EditsLeftTypes
<1>11. CASE ReadNothing
  <2>1. /\ UNCHANGED <<variables, settings, told, edited, untold>>
        /\ chosen' = EditsLeft
    BY <1>11, Zenon DEF ReadNothing, settingVars
  <2> QED
    BY <1>1, <2>1, EditsLeftTypes
<1>12. CASE ReadAPacket
  <2>1. /\ UNCHANGED <<variables, settings, told, edited, untold>>
        /\ Edit(Head(inbox))
    BY <1>12, Zenon DEF ReadAPacket, settingVars
  <2>2. Head(inbox) \in Inbound
    BY <1>12, PacketTurns
  <2>3. chosen' \in [Keys -> Optional]
    BY <2>1, <2>2, EditTypes
  <2> QED
    BY <1>1, <2>1, <2>3
<1> QED
  BY <1>3, <1>4, <1>5, <1>6, <1>7, <1>8, <1>9, <1>10, <1>11, <1>12, Zenon DEF Next

LEMMA OtherTypes ==
    ASSUME ConfigTypeOK, FramesInv, [Next]_vars
    PROVE  /\ serverLogging' \in 0..1 /\ {readbuf', messageBuffer'} \subseteq Held
           /\ link' \in {"down", "up", "broken", "corrupted"}
           /\ packets' \in 0..MaxPackets /\ registered' \in BOOLEAN
<1>1. /\ serverLogging \in 0..1 /\ readbuf \in Held /\ messageBuffer \in Held
      /\ link \in {"down", "up", "broken", "corrupted"}
      /\ packets \in 0..MaxPackets /\ registered \in BOOLEAN /\ MaxPackets \in Nat
  BY ConfigAssumption DEF ConfigTypeOK, Held, ConfigAssumption
<1>2. CASE \/ RegisterNext \/ Use \/ ProcessConfig \/ SaveAlone
           \/ ReadCorrupted \/ UNCHANGED vars \/ MainReads
  <2>1. UNCHANGED <<serverLogging, readbuf, messageBuffer, link, packets, registered>>
    BY <1>2, Zenon
       DEF RegisterNext, Use, ProcessConfig, SaveAlone, ReadCorrupted, MainReads, vars,
           bufferVars, lineVars
  <2> QED
    BY <1>1, <2>1
<1>3. CASE RegisterDone \/ Form \/ Reply
  <2>1. UNCHANGED <<serverLogging, readbuf, link, packets>>
    BY <1>3, Zenon DEF RegisterDone, Form, Reply, lineVars
  <2>2. registered' \in {registered, TRUE}
    BY <1>3 DEF RegisterDone, Form, Reply
  <2>3. messageBuffer' \in Held
    <3>1. CASE Form
      BY <3>1, FormTurns, HeldIs DEF Form
    <3>2. CASE RegisterDone \/ Reply
      BY <1>1, <3>2, HeldIs DEF RegisterDone, Reply
    <3> QED
      BY <1>3, <3>1, <3>2
  <2> QED
    BY <1>1, <2>1, <2>2, <2>3
<1>4. CASE Send \/ ReadNothing \/ ReadAPacket \/ LineBreaks
  <2>1. UNCHANGED <<serverLogging, messageBuffer, packets, registered>>
    BY <1>4, Zenon DEF Send, ReadNothing, ReadAPacket, LineBreaks, bufferVars
  <2>2. link' \in {link, "corrupted", "broken"}
    BY <1>4 DEF Send, ReadNothing, ReadAPacket, LineBreaks
  <2>3. readbuf' \in Held
    <3>1. CASE ReadAPacket
      BY <3>1, PacketTurns, HeldIs DEF ReadAPacket
    <3>2. CASE Send \/ ReadNothing \/ LineBreaks
      BY <1>1, <3>2, HeldIs DEF Send, ReadNothing, LineBreaks, bufferVars
    <3> QED
      BY <1>4, <3>1, <3>2
  <2> QED
    BY <1>1, <2>1, <2>2, <2>3
<1>5. CASE Logged \/ Switch
  <2>1. UNCHANGED <<readbuf, messageBuffer, link, packets, registered>>
    BY <1>5, Zenon DEF Logged, Switch, bufferVars, lineVars
  <2>2. serverLogging' \in 0..1
    BY <1>1, <1>5 DEF Logged, Switch
  <2> QED
    BY <1>1, <2>1, <2>2
<1>6. CASE Connect \/ CannotConnect
  <2>1. UNCHANGED <<readbuf, messageBuffer, packets, registered>>
    BY <1>6, Zenon DEF Connect, CannotConnect, bufferVars
  <2>2. serverLogging' \in {serverLogging, 0} /\ link' \in {"up", "corrupted"}
    BY <1>6 DEF Connect, CannotConnect
  <2> QED
    BY <1>1, <2>1, <2>2
<1>7. CASE \E p \in Packets : Arrives(p)
  <2>1. /\ UNCHANGED <<serverLogging, readbuf, messageBuffer, link, registered>>
        /\ packets < MaxPackets /\ packets' = packets + 1
    BY <1>7, Zenon DEF Arrives, bufferVars
  <2> QED
    BY <1>1, <2>1
<1>8. CASE Reconnect \/ Restart
  <2>1. /\ readbuf' = Empty /\ messageBuffer' = Empty /\ link' = "down"
        /\ packets' = 0 /\ registered' = FALSE
    BY <1>8, Zenon DEF Reconnect, Restart, NoConnection
  <2>2. serverLogging' \in 0..1
    BY <1>1, <1>8 DEF Reconnect, Restart
  <2>3. 0 \in 0..MaxPackets
    BY <1>1
  <2>4. Empty \in Held
    BY HeldIs
  <2> QED
    BY <2>1, <2>2, <2>3, <2>4, Zenon
<1> QED
  BY <1>2, <1>3, <1>4, <1>5, <1>6, <1>7, <1>8, Zenon DEF Next

LEMMA NextTypes ==
    ConfigTypeOK /\ FramesInv /\ [Next]_vars => ConfigTypeOK' /\ FramesInv'
<1> SUFFICES ASSUME ConfigTypeOK, FramesInv, [Next]_vars
             PROVE  ConfigTypeOK' /\ FramesInv'
  OBVIOUS
<1>1. FramesInv'
  BY NextStack, NextLine DEF FramesInv
<1>2. packets' \in 0..MaxPackets /\ Len(inbox') <= packets' + 1 /\ Len(inbox') \in Nat
      /\ MaxPackets \in Nat
  <2>1. inbox' \in Seq(Inbound)
    BY <1>1 DEF FramesInv, LineInv
  <2> QED
    BY <1>1, <2>1, OtherTypes, ConfigAssumption DEF FramesInv, LineInv, ConfigAssumption
<1>3. Len(inbox') <= MaxPackets + 1
  <2>1. \A n \in 0..MaxPackets, m \in Nat : m <= n + 1 => m <= MaxPackets + 1
    BY <1>2
  <2> QED
    BY <1>2, <2>1
<1>4. /\ variables' \in [Keys -> Values]
      /\ {settings', told', chosen'} \subseteq [Keys -> Optional]
      /\ edited' \cup untold' \subseteq Keys
  BY SettingTypes
<1>5. /\ serverLogging' \in 0..1 /\ {readbuf', messageBuffer'} \subseteq Held
      /\ link' \in {"down", "up", "broken", "corrupted"}
      /\ packets' \in 0..MaxPackets /\ registered' \in BOOLEAN
  BY OtherTypes
<1>6. ConfigTypeOK'
  BY <1>3, <1>4, <1>5, Zenon DEF ConfigTypeOK, Held
<1> QED
  BY <1>1, <1>6

LEMMA InitTypes == Init => ConfigTypeOK /\ FramesInv
<1> SUFFICES ASSUME Init PROVE ConfigTypeOK /\ FramesInv
  OBVIOUS
<1>1. /\ stack = <<>> /\ inbox = <<>> /\ packets = 0 /\ ~registered
      /\ variables = First /\ settings = [k \in Keys |-> Unset]
      /\ told = [k \in Keys |-> Unset] /\ chosen = [k \in Keys |-> Unset]
      /\ serverLogging = 0 /\ readbuf = Empty /\ messageBuffer = Empty
      /\ link = "down" /\ edited = {} /\ untold = {} /\ registered = FALSE
  BY Zenon DEF Init
<1>2. First \in [Keys -> Values] /\ MaxPackets \in Nat
  BY ConfigAssumption DEF ConfigAssumption
<1>3. ConfigTypeOK
  <2>1. [k \in Keys |-> Unset] \in [Keys -> Optional]
    BY DEF Optional
  <2>2. Empty \in Held
    BY HeldIs
  <2>3. /\ 0 \in 0..MaxPackets /\ 0 \in 0..1 /\ Len(<<>>) <= MaxPackets + 1
    BY <1>2
  <2>4. /\ variables \in [Keys -> Values]
        /\ {settings, told, chosen} \subseteq [Keys -> Optional]
    BY <1>1, <1>2, <2>1, Zenon
  <2>5. {readbuf, messageBuffer} \subseteq Held /\ edited \cup untold \subseteq Keys
    BY <1>1, <2>2, Zenon
  <2>6. /\ serverLogging \in 0..1 /\ packets \in 0..MaxPackets
        /\ Len(inbox) <= MaxPackets + 1 /\ registered \in BOOLEAN
        /\ link \in {"down", "up", "broken", "corrupted"}
    BY <1>1, <2>3, Zenon
  <2> QED
    BY <2>4, <2>5, <2>6, Zenon DEF ConfigTypeOK, Held
<1>4. FramesInv
  BY <1>1 DEF FramesInv, StackOK, LineInv
<1> QED
  BY <1>3, <1>4

(* Every variable keeps its type; in particular the program never works    *)
(* with anything but a value of a setting, although process_config and     *)
(* registerEditableConfig find a setting absent, or no heap to look for it.*)
THEOREM TypeCorrect == Spec => []ConfigTypeOK
<1>1. Spec => [](ConfigTypeOK /\ FramesInv)
  BY InitTypes, NextTypes, PTL DEF Spec
<1> QED
  BY <1>1, PTL

-----------------------------------------------------------------------------
(* What the server chose.                                                  *)
LEMMA NothingPasses ==
    ASSUME FramesInv, stack # <<>>, NEW R, Turns(R), \A f \in R : ~Passes(f)
    PROVE  \A i \in DOMAIN stack' : ~Passes(stack'[i])
<1> SUFFICES ASSUME NEW i \in DOMAIN stack' PROVE ~Passes(stack'[i])
  OBVIOUS
<1>1. stack \in Seq(Frames) /\ StackOK(stack)
  BY DEF FramesInv
<1>2. \/ i # Len(stack) /\ i \in DOMAIN stack /\ stack'[i] = stack[i]
      \/ stack'[i] = Frame("log")
      \/ stack'[i] \in R
  BY <1>1, Turned
<1>3. ~Passes(Frame("log"))
  BY DEF Frame, Passes
<1>4. i \in DOMAIN stack /\ Passes(stack[i]) => i = Len(stack)
  BY <1>1 DEF StackOK, AtTop, Passes
<1> QED
  BY <1>2, <1>3, <1>4

(* A read or a save of what another buffer holds leaves an edit waiting.   *)
LEMMA WaitsStay ==
    ASSUME FramesInv, stack # <<>>, UNCHANGED readbuf, NEW R, Turns(R),
           \A f \in R : ~Waits(f)
    PROVE  /\ \A k \in Keys : EditWaits(k)' => EditWaits(k)
           /\ ~Waits(Top) => \A k \in Keys : EditWaits(k) => EditWaits(k)'
<1>1. stack \in Seq(Frames) /\ StackOK(stack) /\ Top = stack[Len(stack)]
  BY TopIs
<1>2. /\ \A i \in DOMAIN stack' :
           \/ i # Len(stack) /\ i \in DOMAIN stack /\ stack'[i] = stack[i]
           \/ stack'[i] = Frame("log")
           \/ stack'[i] \in R
      /\ \A i \in DOMAIN stack : i # Len(stack) => i \in DOMAIN stack' /\ stack'[i] = stack[i]
  BY <1>1, Turned
<1>3. ~Waits(Frame("log"))
  BY DEF Frame, Waits
<1>4. (\E i \in DOMAIN stack' : Waits(stack'[i])) => \E i \in DOMAIN stack : Waits(stack[i])
  BY <1>2, <1>3
<1>5. ~Waits(Top) /\ (\E i \in DOMAIN stack : Waits(stack[i])) =>
         \E i \in DOMAIN stack' : Waits(stack'[i])
  BY <1>1, <1>2
<1> QED
  BY <1>4, <1>5 DEF EditWaits, Waits

LEMMA ChoiceTurns ==
    ASSUME ConfigTypeOK, FramesInv, EarlyInv', stack # <<>>, NEW R, Turns(R),
           ChoiceKept', WaitingKept',
           \A f \in R : /\ ~Passes(f)
                        /\ OneOf(f) => chosen'[f.key] \in {Unset, f.val},
           \A i \in DOMAIN stack : i # Len(stack) /\ OneOf(stack[i]) =>
                chosen'[stack[i].key] \in {Unset, stack[i].val}
    PROVE  ChoiceInv'
<1>1. stack \in Seq(Frames) /\ StackOK(stack)
  BY DEF FramesInv
<1>2. ~OneOf(Frame("log"))
  BY DEF Frame, OneOf
<1>3. \A i \in DOMAIN stack' :
         \/ i # Len(stack) /\ i \in DOMAIN stack /\ stack'[i] = stack[i]
         \/ stack'[i] = Frame("log")
         \/ stack'[i] \in R
  BY <1>1, Turned
<1>4. \A i \in DOMAIN stack' : OneOf(stack'[i]) =>
         chosen'[stack'[i].key] \in {Unset, stack'[i].val}
  BY <1>2, <1>3
<1>5. \A i \in DOMAIN stack' : ~Passes(stack'[i])
  BY NothingPasses
<1> QED
  BY <1>4, <1>5 DEF ChoiceInv, OneOf

(* Where the choices, the settings and readbuf stay as they are.           *)
LEMMA KeptStays ==
    ASSUME ConfigTypeOK, FramesInv, ChoiceInv, stack # <<>>,
           UNCHANGED <<chosen, settings, readbuf>>, ~Waits(Top), NEW R, Turns(R),
           \A f \in R : ~Waits(f)
    PROVE  ChoiceKept' /\ WaitingKept'
<1>1. /\ \A k \in Keys : EditWaits(k)' => EditWaits(k)
      /\ \A k \in Keys : EditWaits(k) => EditWaits(k)'
  BY WaitsStay
<1>2. ChoiceKept'
  BY <1>1 DEF ChoiceInv, ChoiceKept
<1>3. WaitingKept'
  BY <1>1 DEF ChoiceInv, WaitingKept
<1> QED
  BY <1>2, <1>3

LEMMA ChoiceStays ==
    ASSUME ConfigTypeOK, FramesInv, EarlyInv', ChoiceInv, stack # <<>>,
           UNCHANGED <<chosen, settings, readbuf>>, ~Waits(Top), NEW R, Turns(R),
           \A f \in R : ~Passes(f) /\ ~OneOf(f) /\ ~Waits(f)
    PROVE  ChoiceInv'
<1>1. ChoiceKept' /\ WaitingKept'
  BY KeptStays
<1>2. \A i \in DOMAIN stack : OneOf(stack[i]) =>
         chosen'[stack[i].key] \in {Unset, stack[i].val}
  BY DEF ChoiceInv, OneOf
<1> QED
  BY <1>1, <1>2, ChoiceTurns

LEMMA ChoiceStarved ==
    ASSUME ConfigTypeOK, FramesInv, EarlyInv', stack # <<>>, Starved, NEW R, Turns(R),
           \A f \in R : ~Passes(f) /\ (OneOf(f) => f.key \in Keys)
    PROVE  ChoiceInv'
<1>1. \A k \in Keys : chosen'[k] = Unset
  BY DEF Starved
<1>2. \A i \in DOMAIN stack : OneOf(stack[i]) => stack[i].key \in Keys
  BY DEF FramesInv, StackOK, FrameOK, OneOf
<1>3. ChoiceKept' /\ WaitingKept'
  BY <1>1 DEF ChoiceKept, WaitingKept
<1> QED
  BY <1>1, <1>2, <1>3, ChoiceTurns

(* Where the stack turns, an edit that has been read comes to the top.     *)
LEMMA EarlyTurns ==
    ASSUME FramesInv, EarlyInv, stack # <<>>, NEW R, Turns(R),
           Accepted' => Accepted,
           (\E f \in R : Waits(f)) =>
               ~Accepted' /\ \A f \in R : f.at # "register",
           (\E f \in R : f.at = "register") => Top.at = "register" \/ Accepted
    PROVE  EarlyInv'
<1> DEFINE n == Len(stack)
<1>1. /\ stack \in Seq(Frames) /\ StackOK(stack) /\ n \in DOMAIN stack
      /\ Top = stack[n] /\ n \in Nat /\ DOMAIN stack = 1..n
  BY TopIs
<1>2. /\ stack' \in Seq(Frames)
      /\ \A i \in DOMAIN stack' :
           \/ i # n /\ i \in DOMAIN stack /\ stack'[i] = stack[i]
           \/ stack'[i] = Frame("log")
           \/ stack'[i] \in R
      /\ \A i \in DOMAIN stack : i # n => i \in DOMAIN stack' /\ stack'[i] = stack[i]
  BY <1>1, Turned
<1>3. ~Waits(Frame("log")) /\ Frame("log").at # "register"
  BY DEF Frame, Waits
<1>4. \A i \in DOMAIN stack' : i \in Nat \ {0}
  BY <1>2
<1> HIDE DEF n
<1>5. \A i \in DOMAIN stack' :
        \/ i < n /\ i \in DOMAIN stack /\ stack'[i] = stack[i]
        \/ i >= n /\ (stack'[i] = Frame("log") \/ stack'[i] \in R)
  BY <1>1, <1>2, <1>4
<1>6. /\ Accepted => \A i \in DOMAIN stack : ~Waits(stack[i])
      /\ \A i, j \in DOMAIN stack : stack[i].at = "register" /\ Waits(stack[j]) => i < j
  BY DEF EarlyInv
<1>7. Accepted' => \A i \in DOMAIN stack' : ~Waits(stack'[i])
  BY <1>3, <1>5, <1>6
<1>8. ASSUME NEW i \in DOMAIN stack', NEW j \in DOMAIN stack',
             stack'[i].at = "register", Waits(stack'[j])
      PROVE  i < j
  <2>1. i \in Nat /\ j \in Nat
    BY <1>4
  <2>2. CASE i < n /\ i \in DOMAIN stack /\ stack'[i] = stack[i]
    BY <1>1, <1>3, <1>5, <1>6, <1>8, <2>1, <2>2
  <2>3. CASE stack'[i] \in R
    <3>1. j < n /\ j \in DOMAIN stack /\ stack'[j] = stack[j]
      BY <1>3, <1>5, <1>8, <2>3
    <3>2. Top.at = "register"
      BY <1>6, <1>8, <2>3, <3>1
    <3>3. n < j
      BY <1>1, <1>6, <1>8, <3>1, <3>2
    <3> QED
      BY <1>1, <2>1, <3>1, <3>3
  <2> QED
    BY <1>3, <1>5, <1>8, <2>2, <2>3
<1> QED
  BY <1>7, <1>8 DEF EarlyInv

LEMMA NextEarly ==
    ASSUME ConfigTypeOK, FramesInv, EarlyInv, [Next]_vars
    PROVE  EarlyInv'
<1>1. CASE Turning
  <2>1. stack # <<>>
    BY <1>1, TurningTurns
  <2>2. PICK R : /\ Turns(R)
                 /\ (\E f \in R : f.at = "register") =>
                      \/ Top.at = "register"
                      \/ ReadAPacket /\ Head(inbox).kind = "connack"
                 /\ (\E f \in R : Waits(f)) =>
                      ReadAPacket /\ \A f \in R : f.at # "register"
    BY <1>1, TurningTurns
  <2>3. ReadAPacket => ~Accepted' /\ (Head(inbox).kind = "connack" => Accepted)
    <3> SUFFICES ASSUME ReadAPacket
                 PROVE  ~Accepted' /\ (Head(inbox).kind = "connack" => Accepted)
      OBVIOUS
    <3>1. inbox # <<>> /\ inbox' = Tail(inbox) /\ inbox \in Seq(Inbound)
      BY Zenon DEF ReadAPacket, FramesInv, LineInv
    <3>2. /\ \A i \in DOMAIN inbox' : i + 1 \in DOMAIN inbox /\ inbox'[i] = inbox[i + 1]
                                      /\ i + 1 # 1
          /\ 1 \in DOMAIN inbox /\ Head(inbox) = inbox[1]
      BY <3>1
    <3>3. \A i \in DOMAIN inbox : inbox[i].kind = "connack" => i = 1
      BY DEF FramesInv, LineInv
    <3> QED
      BY <3>2, <3>3 DEF Accepted
  <2>4. ~ReadAPacket => UNCHANGED inbox
    BY <1>1, Zenon
       DEF Turning, RegisterNext, RegisterDone, Use, Form, ProcessConfig, SaveAlone,
           Send, Logged, ReadCorrupted, ReadNothing, Switch, Reply, lineVars
  <2>5. Accepted' => Accepted
    BY <2>3, <2>4 DEF Accepted
  <2> QED
    BY <2>1, <2>2, <2>3, <2>5, EarlyTurns
<1>2. CASE stack' = <<>>
  BY <1>2 DEF EarlyInv
<1>3. CASE MainReads \/ CannotConnect
  <2>1. stack' = <<Frame("read")>> \/ stack' = <<Register(1)>>
    BY <1>3, Zenon DEF MainReads, CannotConnect, ReadAndProcess
  <2>2. \A i \in DOMAIN stack' : stack'[i] \in {Frame("read"), Register(1)}
    BY <2>1
  <2>3. ~Waits(Frame("read")) /\ ~Waits(Register(1))
    BY FramesApart DEF Plain
  <2> QED
    BY <2>2, <2>3 DEF EarlyInv
<1>4. CASE LineBreaks \/ (\E p \in Packets : Arrives(p)) \/ UNCHANGED vars
  <2>1. UNCHANGED stack
    BY <1>4, Zenon DEF LineBreaks, Arrives, vars
  <2>2. Accepted' => Accepted
    <3>1. CASE UNCHANGED inbox
      BY <3>1 DEF Accepted
    <3>2. CASE \E p \in Packets : Arrives(p)
      <4>1. PICK p \in Packets : inbox' = Append(inbox, p)
        BY <3>2 DEF Arrives
      <4>2. p.kind # "connack" /\ p \in Inbound /\ inbox \in Seq(Inbound)
        BY DEF Inbound, Packets, Setting, Message, FramesInv, LineInv
      <4>3. \A i \in DOMAIN inbox' : \/ i \in DOMAIN inbox /\ inbox'[i] = inbox[i]
                                     \/ inbox'[i] = p
        BY <4>1, <4>2
      <4> QED
        BY <4>2, <4>3 DEF Accepted
    <3> QED
      BY <1>4, <3>1, <3>2, Zenon DEF LineBreaks, vars, lineVars
  <2> QED
    BY <2>1, <2>2 DEF EarlyInv
<1>5. CASE Connect \/ Reconnect \/ Restart
  <2>1. stack' = <<>>
    BY <1>5, Zenon DEF Connect, Reconnect, Restart
  <2> QED
    BY <1>2, <2>1
<1> QED
  BY <1>1, <1>3, <1>4, <1>5, Zenon DEF Next, Turning

(* A setting is saved.                                                     *)
LEMMA ChoiceSaved ==
    ASSUME ConfigTypeOK, FramesInv, EarlyInv', ChoiceInv, stack # <<>>, Top.at = "process",
           Top.in \in {"readbuf", "messageBuffer"}, Save(Buffer(Top.in)),
           UNCHANGED readbuf, NEW R, Turns(R),
           \A f \in R : ~Passes(f) /\ ~OneOf(f) /\ ~Waits(f)
    PROVE  ChoiceInv'
<1> DEFINE b == Buffer(Top.in)
<1>1. /\ chosen \in [Keys -> Optional] /\ settings \in [Keys -> Optional]
      /\ \A k \in Keys : \/ chosen[k] \in {Unset, settings[k]}
                         \/ (EditWaits(k) /\ readbuf.val = chosen[k])
      /\ \A k \in Keys : EditWaits(k) => chosen[k] \in {Unset, readbuf.val}
  BY DEF ConfigTypeOK, ChoiceInv, ChoiceKept, WaitingKept
<1>2. \A i \in DOMAIN stack : OneOf(stack[i]) =>
         stack[i].key \in Keys /\ chosen[stack[i].key] \in {Unset, stack[i].val}
  BY DEF FramesInv, StackOK, FrameOK, OneOf, ChoiceInv
<1>3. IsSetting(b) => b.key \in Keys /\ b.val \in Values
  BY BufferTypes
<1>4. b = Buffer(Top.in)
  OBVIOUS
<1> HIDE DEF b
<1>5. UNCHANGED chosen
  BY <1>4 DEF Save, historyVars
<1>6. /\ \A k \in Keys : EditWaits(k)' => EditWaits(k)
      /\ ~Waits(Top) => \A k \in Keys : EditWaits(k) => EditWaits(k)'
  BY WaitsStay
<1>7. WaitingKept'
  BY <1>1, <1>5, <1>6 DEF WaitingKept
<1>8. Len(stack) \in DOMAIN stack /\ Top = stack[Len(stack)]
  BY TopIs
<1>9. ChoiceKept'
  <2>1. CASE Top.in = "readbuf"
    <3>1. b = readbuf
      BY <1>4, <2>1 DEF Buffer
    <3>2. CASE ~IsSetting(b)
      <4>1. UNCHANGED settings /\ \A k \in Keys : ~EditWaits(k)
        BY <1>4, <3>1, <3>2 DEF Save, EditWaits
      <4> QED
        BY <1>1, <1>5, <4>1 DEF ChoiceKept
    <3>3. CASE IsSetting(b)
      <4>1. /\ settings'[b.key] = b.val
            /\ \A m \in Keys : m # b.key => settings'[m] = settings[m]
        BY <1>3, <1>4, <3>3, SavedSetting DEF Save
      <4>2. EditWaits(b.key) /\ \A m \in Keys : m # b.key => ~EditWaits(m)
        BY <1>8, <2>1, <3>1, <3>3 DEF EditWaits
      <4>3. chosen[b.key] \in {Unset, settings'[b.key]}
        BY <1>1, <1>3, <3>1, <3>3, <4>1, <4>2
      <4>4. \A m \in Keys : m # b.key => chosen[m] \in {Unset, settings'[m]}
        BY <1>1, <4>1, <4>2
      <4> QED
        BY <1>5, <4>3, <4>4 DEF ChoiceKept
    <3> QED
      BY <3>2, <3>3
  <2>2. CASE Top.in = "messageBuffer"
    <3>1. Passes(stack[Len(stack)]) /\ ~Waits(Top)
      BY <1>8, <2>2 DEF Passes, Waits
    <3>2. b = messageBuffer
      BY <1>4, <2>2 DEF Buffer
    <3>3. IsSetting(b) /\ chosen[b.key] \in {Unset, b.val}
      BY <1>8, <3>1, <3>2 DEF ChoiceInv
    <3>4. /\ settings'[b.key] = b.val
          /\ \A m \in Keys : m # b.key => settings'[m] = settings[m]
      BY <1>3, <1>4, <3>3, SavedSetting DEF Save
    <3>5. \A k \in Keys : \/ chosen[k] \in {Unset, settings'[k]}
                          \/ (EditWaits(k)' /\ readbuf.val = chosen[k])
      <4>1. chosen[b.key] \in {Unset, settings'[b.key]}
        BY <3>3, <3>4
      <4>2. \A k \in Keys : EditWaits(k) => EditWaits(k)'
        BY <1>6, <3>1
      <4> QED
        BY <1>1, <3>4, <4>1, <4>2
    <3> QED
      BY <1>5, <3>5 DEF ChoiceKept
  <2> QED
    BY <2>1, <2>2
<1> QED
  BY <1>2, <1>5, <1>7, <1>9, ChoiceTurns

(* What is left of the edits is stored.                                    *)
LEMMA EditsLeftKept ==
    ASSUME ConfigTypeOK, ChoiceInv
    PROVE  \A k \in Keys : /\ EditsLeft[k] \in {Unset, settings[k]}
                           /\ EditsLeft[k] \in {Unset, chosen[k]}
<1>1. \A k \in Keys :
         /\ chosen[k] \in {Unset, settings[k]} \/ EditWaits(k)
         /\ EditWaits(k) => chosen[k] \in {Unset, readbuf.val}
  BY DEF ChoiceInv, ChoiceKept, WaitingKept
<1> QED
  BY <1>1, EditsLeftTypes

LEMMA NextChoice ==
    ASSUME ConfigTypeOK, FramesInv, ChoiceInv, [Next]_vars
    PROVE  ChoiceInv'
<1>0. EarlyInv'
  BY NextEarly DEF ChoiceInv
<1>1. CASE RegisterNext
  <2>1. PICK k \in Keys :
          \/ \E v \in Values :
                /\ Turns({Register(Top.val + 1), About("use", k, v)})
                /\ \/ Starved
                   \/ UNCHANGED chosen /\ settings[k] \in {Unset, v}
          \/ Turns({Register(Top.val + 1)}) /\ Starved
    BY <1>1, RegisterTurns
  <2>0. stack # <<>> /\ Top.at = "register"
    BY <1>1, RegisterTurns
  <2>2. stack # <<>> /\ Top.val + 1 \in Nat
    <3>1. FrameOK(Top)
      BY <2>0, TopIs
    <3> QED
      BY <2>0, <3>1 DEF FrameOK
  <2>3. UNCHANGED <<settings, readbuf>> /\ ~Waits(Top)
    BY <1>1, <2>0, Zenon DEF RegisterNext, settingVars, bufferVars, Waits
  <2>4. ASSUME NEW v \in Values,
               Turns({Register(Top.val + 1), About("use", k, v)}),
               Starved \/ (UNCHANGED chosen /\ settings[k] \in {Unset, v})
        PROVE  ChoiceInv'
    <3>1. /\ ~Passes(Register(Top.val + 1)) /\ ~OneOf(Register(Top.val + 1))
          /\ ~Passes(About("use", k, v))
          /\ ~Waits(Register(Top.val + 1)) /\ ~Waits(About("use", k, v))
      BY <2>2, FramesApart
    <3>2. About("use", k, v).key = k /\ About("use", k, v).val = v
      BY OneFrame
    <3>3. CASE Starved
      BY <1>0, <2>2, <2>4, <3>1, <3>2, <3>3, ChoiceStarved
    <3>4. CASE UNCHANGED chosen /\ settings[k] \in {Unset, v}
      <4>1. ChoiceKept' /\ WaitingKept'
        BY <2>2, <2>3, <2>4, <3>1, <3>4, KeptStays
      <4>2. chosen'[k] \in {Unset, v}
        <5>1. ~EditWaits(k)
          <6>1. stack[Len(stack)].at = "register" /\ Len(stack) \in DOMAIN stack
            BY <2>0, TopIs
          <6>2. \A i \in DOMAIN stack : Waits(stack[i]) => Len(stack) < i
            BY <6>1 DEF ChoiceInv, EarlyInv
          <6>3. \A i \in DOMAIN stack : ~(Len(stack) < i)
            BY DEF FramesInv
          <6> QED
            BY <6>2, <6>3 DEF EditWaits, Waits
        <5> QED
          BY <3>4, <5>1 DEF ChoiceInv, ChoiceKept
      <4>3. \A i \in DOMAIN stack : OneOf(stack[i]) =>
               chosen'[stack[i].key] \in {Unset, stack[i].val}
        BY <3>4 DEF ChoiceInv, OneOf
      <4> QED
        BY <1>0, <2>2, <2>4, <3>1, <3>2, <4>1, <4>2, <4>3, ChoiceTurns
    <3> QED
      BY <2>4, <3>3, <3>4
  <2>5. CASE Turns({Register(Top.val + 1)}) /\ Starved
    BY <1>0, <2>2, <2>5, FramesApart, ChoiceStarved
  <2> QED
    BY <2>1, <2>4, <2>5
<1>2. CASE Use
  <2>1. /\ stack # <<>> /\ Top.at = "use" /\ Turns({Then("form")})
        /\ Then("form").at = "form" /\ Then("form").key = Top.key
        /\ Then("form").val = Top.val
    BY <1>2, UseTurns
  <2>2. UNCHANGED <<chosen, settings, readbuf>>
    BY <1>2, Zenon DEF Use, historyVars, bufferVars
  <2>5. ~Passes(Then("form")) /\ ~Waits(Then("form")) /\ ~Waits(Top)
    BY <2>1 DEF Passes, Waits
  <2>3. ChoiceKept' /\ WaitingKept'
    BY <2>1, <2>2, <2>5, KeptStays
  <2>4. /\ chosen'[Top.key] \in {Unset, Top.val}
        /\ \A i \in DOMAIN stack : OneOf(stack[i]) =>
              chosen'[stack[i].key] \in {Unset, stack[i].val}
    BY <2>1, <2>2, TopIs DEF ChoiceInv, OneOf
  <2> QED
    BY <1>0, <2>1, <2>3, <2>4, <2>5, ChoiceTurns
<1>3. CASE Form
  <2>1. /\ stack # <<>> /\ Top.at = "form" /\ Turns({Process("messageBuffer")})
        /\ Top.key \in Keys /\ Top.val \in Values
    BY <1>3, FormTurns
  <2>2. /\ UNCHANGED <<chosen, settings, readbuf>>
        /\ messageBuffer' = Setting(Top.key, Top.val)
    BY <1>3, Zenon DEF Form, historyVars, settingVars
  <2>3. ChoiceKept' /\ WaitingKept'
    <3>1. ~Waits(Top)
      BY <2>1 DEF Waits
    <3>2. ~Waits(Process("messageBuffer"))
      BY FramesApart
    <3> QED
      BY <2>1, <2>2, <3>1, <3>2, KeptStays
  <2>4. /\ IsSetting(messageBuffer')
        /\ chosen'[messageBuffer'.key] \in {Unset, messageBuffer'.val}
    BY <2>1, <2>2, TopIs DEF ChoiceInv, OneOf, Setting, IsSetting
  <2>5. stack \in Seq(Frames) /\ StackOK(stack)
    BY DEF FramesInv
  <2>6. ASSUME NEW i \in DOMAIN stack', OneOf(stack'[i])
        PROVE  chosen'[stack'[i].key] \in {Unset, stack'[i].val}
    <3>1. ~OneOf(Process("messageBuffer")) /\ ~OneOf(Frame("log"))
      BY FramesApart DEF Plain
    <3>2. i \in DOMAIN stack /\ stack'[i] = stack[i]
      BY <2>1, <2>5, <2>6, <3>1, Turned
    <3> QED
      BY <2>2, <2>6, <3>2 DEF ChoiceInv, OneOf
  <2> QED
    BY <1>0, <2>3, <2>4, <2>6 DEF ChoiceInv, OneOf
<1>4. CASE ProcessConfig
  <2>1. /\ stack # <<>> /\ Top.at = "process" /\ Top.in \in {"readbuf", "messageBuffer"}
        /\ \/ /\ Save(Buffer(Top.in))
              /\ Turns({SendOf(Buffer(Top.in).key, Top.in)})
           \/ Starved /\ Turns({})
           \/ Starved /\ Turns({Then("save alone")}) /\ Then("save alone").at = "save alone"
    BY <1>4, ProcessTurns
  <2>5. UNCHANGED readbuf
    BY <1>4, Zenon DEF ProcessConfig, bufferVars
  <2>2. CASE Save(Buffer(Top.in)) /\ Turns({SendOf(Buffer(Top.in).key, Top.in)})
    BY <1>0, <2>1, <2>2, <2>5, FramesApart, ChoiceSaved
  <2>3. CASE Starved /\ Turns({})
    BY <1>0, <2>1, <2>3, ChoiceStarved
  <2>4. CASE /\ Starved /\ Turns({Then("save alone")})
             /\ Then("save alone").at = "save alone"
    BY <1>0, <2>1, <2>4, ChoiceStarved DEF Passes, OneOf
  <2> QED
    BY <2>1, <2>2, <2>3, <2>4
<1>5. CASE SaveAlone
  <2> DEFINE f == SendOf(Buffer(Top.in).key, Top.in)
  <2>1. stack # <<>> /\ Starved /\ Turns({f})
    BY <1>5, SaveTurns
  <2>2. ~Passes(f) /\ ~OneOf(f)
    BY FramesApart
  <2> HIDE DEF f
  <2> QED
    BY <1>0, <2>1, <2>2, ChoiceStarved
<1>6. CASE RegisterDone \/ Send \/ Logged \/ ReadCorrupted \/ Switch \/ Reply
  <2>1. UNCHANGED <<chosen, settings, readbuf>>
    BY <1>6, Zenon
       DEF RegisterDone, Send, Logged, ReadCorrupted, Switch, Reply, settingVars,
           historyVars, bufferVars
  <2>2. Frame("read") \in Plain
    BY DEF Plain
  <2>3. /\ stack # <<>> /\ Top.at # "process"
        /\ \/ Turns({}) \/ Turns({Frame("read")}) \/ Turns({SendOf(Unset, "nowhere")})
    BY <1>6, DoneTurns, SendTurns, LoggedTurns, ReadEndTurns, SwitchTurns, ReplyTurns
  <2>4. ~Waits(Top)
    BY <2>3 DEF Waits
  <2> QED
    BY <1>0, <2>1, <2>2, <2>3, <2>4, FramesApart, ChoiceStays
<1>7. CASE ReadNothing
  <2>1. /\ stack # <<>> /\ Turns({}) /\ readbuf' = Empty
        /\ chosen' = EditsLeft /\ UNCHANGED settings
    BY <1>7, ReadEndTurns DEF ReadNothing, settingVars
  <2>2. \A k \in Keys : /\ chosen'[k] \in {Unset, settings[k]}
                        /\ chosen'[k] \in {Unset, chosen[k]}
    BY <2>1, EditsLeftKept
  <2>3. ChoiceKept'
    BY <2>1, <2>2 DEF ChoiceKept
  <2>4. WaitingKept'
    BY <2>1 DEF WaitingKept, EditWaits, IsSetting, Empty, Message
  <2>5. \A i \in DOMAIN stack : OneOf(stack[i]) =>
           chosen'[stack[i].key] \in {Unset, stack[i].val}
    BY <2>2 DEF ChoiceInv, OneOf, FramesInv, StackOK, FrameOK
  <2> QED
    BY <1>0, <2>1, <2>3, <2>4, <2>5, ChoiceTurns
<1>8. CASE ReadAPacket
  <2> DEFINE p == Head(inbox)
  <2>1. /\ readbuf' = p /\ UNCHANGED settings /\ Edit(p)
    BY <1>8, Zenon DEF ReadAPacket, settingVars
  <2>2. /\ stack # <<>> /\ Top.at = "read" /\ p \in Inbound /\ 1 \in Nat
        /\ \/ p.kind = "config" /\ Turns({Top, Process("readbuf")})
           \/ Turns({Top, Register(1), SendOf(Unset, "nowhere")})
           \/ Turns({Top, Frame("reply")})
           \/ Turns({Top, Frame("switch")})
    BY <1>8, PacketTurns
  <2> HIDE DEF p
  <2>3. ~Passes(Top) /\ ~OneOf(Top) /\ Frame("reply") \in Plain /\ Frame("switch") \in Plain
    BY <2>2 DEF Passes, OneOf, Plain
  <2>4. /\ \A k \in Keys : EditsLeft[k] \in {Unset, settings[k]}
                         /\ EditsLeft[k] \in {Unset, chosen[k]}
        /\ \A k \in Keys : IsSetting(p) /\ k = p.key =>
             /\ chosen'[k] \in {Unset, p.val}
             /\ Registering(k) => chosen'[k] = Unset
        /\ \A k \in Keys : ~(IsSetting(p) /\ k = p.key) => chosen'[k] = EditsLeft[k]
    BY <2>1, <2>2, EditTypes, EditsLeftKept
  <2>5. WaitingKept'
    BY <2>1, <2>4 DEF WaitingKept, EditWaits
  <2>6. ASSUME IsSetting(p), NEW k \in Keys, k = p.key PROVE EditWaits(k)'
    <3>1. p.kind = "config" /\ p.kind # "connack"
      BY <2>6 DEF IsSetting
    <3>2. Turns({Top, Process("readbuf")})
      BY <1>8, <3>1, PacketTurns DEF p
    <3>3. \E i \in DOMAIN stack' : stack'[i] = Process("readbuf")
      BY <2>2, <3>2, Turned DEF FramesInv
    <3>4. Process("readbuf").at = "process" /\ Process("readbuf").in = "readbuf"
      BY ProcessFrames
    <3> QED
      BY <2>1, <2>6, <3>3, <3>4 DEF EditWaits
  <2>7. ChoiceKept'
    <3> SUFFICES ASSUME NEW k \in Keys
                 PROVE  \/ chosen'[k] \in {Unset, settings'[k]}
                        \/ EditWaits(k)' /\ readbuf'.val = chosen'[k]
      BY DEF ChoiceKept
    <3>1. CASE IsSetting(p) /\ k = p.key
      BY <2>1, <2>4, <2>6, <3>1
    <3>2. CASE ~(IsSetting(p) /\ k = p.key)
      BY <2>1, <2>4, <3>2
    <3> QED
      BY <3>1, <3>2
  <2>8. ASSUME NEW i \in DOMAIN stack, OneOf(stack[i])
        PROVE  chosen'[stack[i].key] \in {Unset, stack[i].val}
    <3>1. stack[i].key \in Keys /\ chosen[stack[i].key] \in {Unset, stack[i].val}
      BY <2>8 DEF ChoiceInv, OneOf, FramesInv, StackOK, FrameOK
    <3>2. Registering(stack[i].key)
      BY <2>8 DEF Registering, OneOf
    <3> QED
      BY <2>4, <3>1, <3>2
  <2> QED
    BY <1>0, <2>2, <2>3, <2>5, <2>7, <2>8, FramesApart, ChoiceTurns
<1>9. CASE MainReads \/ CannotConnect
  <2>1. UNCHANGED <<chosen, settings>> /\ stack = <<>>
    BY <1>9, Zenon DEF MainReads, CannotConnect, settingVars, historyVars
  <2>2. stack' = <<Frame("read")>> \/ stack' = <<Register(1)>>
    BY <1>9, Zenon DEF MainReads, CannotConnect, ReadAndProcess
  <2>3. \A i \in DOMAIN stack' : stack'[i] \in {Frame("read"), Register(1)}
    BY <2>2
  <2>4. \A i \in DOMAIN stack' :
           ~Passes(stack'[i]) /\ ~OneOf(stack'[i]) /\ ~Waits(stack'[i])
    BY <2>3, FramesApart DEF Plain
  <2>5. \A k \in Keys : ~EditWaits(k) /\ ~EditWaits(k)'
    BY <2>1, <2>4 DEF EditWaits, Waits
  <2>6. ChoiceKept' /\ WaitingKept'
    BY <2>1, <2>5 DEF ChoiceInv, ChoiceKept, WaitingKept
  <2> QED
    BY <1>0, <2>4, <2>6 DEF ChoiceInv, OneOf
<1>10. CASE Connect \/ LineBreaks \/ (\E p \in Packets : Arrives(p)) \/ UNCHANGED vars
  <2>1. UNCHANGED <<chosen, settings, stack, readbuf, messageBuffer>>
    BY <1>10, Zenon
       DEF Connect, LineBreaks, Arrives, vars, settingVars, historyVars, bufferVars
  <2>2. \A k : EditWaits(k)' <=> EditWaits(k)
    BY <2>1 DEF EditWaits
  <2>3. ChoiceKept' /\ WaitingKept'
    BY <2>1, <2>2 DEF ChoiceInv, ChoiceKept, WaitingKept
  <2> QED
    BY <1>0, <2>1, <2>3 DEF ChoiceInv, OneOf
<1>11. CASE Reconnect \/ Restart
  <2>1. /\ stack' = <<>> /\ readbuf' = Empty /\ chosen' = EditsLeft
        /\ UNCHANGED settings
    BY <1>11 DEF Reconnect, Restart, NoConnection
  <2>2. ChoiceKept' /\ WaitingKept'
    BY <2>1, EditsLeftKept DEF ChoiceKept, WaitingKept, EditWaits
  <2> QED
    BY <1>0, <2>1, <2>2 DEF ChoiceInv
<1> QED
  BY <1>1, <1>2, <1>3, <1>4, <1>5, <1>6, <1>7, <1>8, <1>9, <1>10, <1>11, Zenon DEF Next

(* What the server chose last is stored, or waits in readbuf to be stored: *)
(* a registration, a restart, a reconnect or another setting's edit never  *)
(* bring an older value back, in whatever order the calls interrupt each   *)
(* other.  The exceptions are those of ChoiceKept: the edit taken away by a *)
(* read in the log before it is saved, or by the end of the process, the   *)
(* edit that arrives in the registration of its own setting, and want of   *)
(* heap.                                                                   *)
THEOREM ChoiceIsKept == Spec => []ChoiceKept
<1>1. Init => ConfigTypeOK /\ FramesInv /\ ChoiceInv
  <2>1. Init => stack = <<>> /\ chosen = [k \in Keys |-> Unset]
    BY Zenon DEF Init
  <2>2. Init => ChoiceInv
    BY <2>1 DEF ChoiceInv, ChoiceKept, WaitingKept, EarlyInv, EditWaits
  <2> QED
    BY <2>2, InitTypes
<1>2. /\ ConfigTypeOK /\ FramesInv /\ ChoiceInv /\ [Next]_vars
      => (ConfigTypeOK /\ FramesInv /\ ChoiceInv)'
  BY NextTypes, NextChoice
<1>3. ChoiceInv => ChoiceKept
  BY DEF ChoiceInv
<1> QED
  BY <1>1, <1>2, <1>3, PTL DEF Spec

-----------------------------------------------------------------------------
(* The server, the storage and the program.  Only a log can be above a     *)
(* publish that no read has interrupted, and a registration is with one    *)
(* setting at a time.                                                      *)
LEMMA Above ==
    ASSUME FramesInv, stack # <<>>, NEW i \in DOMAIN stack, i # Len(stack)
    PROVE  /\ stack[i].at = "send" /\ ~Interrupted(i) => Top.at = "log"
           /\ ~(OfOne(stack[i]) /\ OfOne(Top))
           /\ ~Passes(stack[i])
<1>1. /\ stack \in Seq(Frames) /\ StackOK(stack) /\ Len(stack) \in DOMAIN stack
      /\ Top = stack[Len(stack)] /\ DOMAIN stack = 1..Len(stack)
  BY TopIs
<1>2. ASSUME stack[i].at = "send", ~Interrupted(i) PROVE Top.at = "log"
  <2>1. i + 1 \in DOMAIN stack /\ stack[i + 1].at = "log"
    BY <1>1, <1>2 DEF Interrupted
  <2>2. i + 1 = Len(stack)
    BY <1>1, <2>1 DEF StackOK, AtTop
  <2> QED
    BY <1>1, <2>1, <2>2
<1>3. ASSUME OfOne(stack[i]), OfOne(Top) PROVE FALSE
  <2>1. /\ i # 1 /\ stack[i - 1].at = "register"
        /\ Len(stack) # 1 /\ stack[Len(stack) - 1].at = "register"
    BY <1>1, <1>3 DEF StackOK
  <2>2. i - 1 \in DOMAIN stack /\ Len(stack) - 1 \in DOMAIN stack
    BY <1>1, <2>1
  <2>3. i - 1 = Len(stack) - 1
    BY <1>1, <2>1, <2>2 DEF StackOK
  <2> QED
    BY <1>1, <2>3
<1>4. ~Passes(stack[i])
  BY <1>1 DEF StackOK, AtTop, Passes
<1> QED
  BY <1>2, <1>3, <1>4

LEMMA CallsTurn ==
    ASSUME ConfigTypeOK, FramesInv, CallsInSync, stack # <<>>, NEW R, Turns(R),
           untold \subseteq untold',
           Top.at = "log" => UNCHANGED <<settings, variables, readbuf, messageBuffer>>,
           Top.at = "log" /\ R # {} => Callers({"send"}) \cap Keys \subseteq untold',
           Top.at = "read" /\ R = {} => ~IsSetting(readbuf'),
           UNCHANGED messageBuffer \/ ~IsSetting(messageBuffer') \/ OfOne(Top),
           UNCHANGED variables \/ OfOne(Top),
           \A f \in R : SyncOK(f)'
    PROVE  CallsInSync'
<1> SUFFICES ASSUME NEW i \in DOMAIN stack', NEW f, f = stack'[i]
             PROVE  /\ f.at = "send" /\ Interrupted(i)' /\ f.key \in Keys =>
                          f.key \in untold'
                    /\ ~Interrupted(i)' => EditOK(f)'
                    /\ TellOK(f)' /\ FormOK(f)'
  BY DEF CallsInSync, EditOK, TellOK, FormOK, Passes
<1>1. stack \in Seq(Frames) /\ StackOK(stack)
  BY DEF FramesInv
<1>2. CASE i # Len(stack) /\ i \in DOMAIN stack /\ stack'[i] = stack[i]
  <2>0. f = stack[i]
    BY <1>2
  <2>1. /\ f.at = "send" /\ Interrupted(i) /\ f.key \in Keys => f.key \in untold
        /\ ~Interrupted(i) => EditOK(f)
        /\ TellOK(f) /\ FormOK(f)
    BY <1>2, <2>0 DEF CallsInSync
  <2>2. /\ f.at = "send" /\ ~Interrupted(i) => Top.at = "log"
        /\ ~(OfOne(f) /\ OfOne(Top))
        /\ ~Passes(f)
    BY <1>2, <2>0, Above
  <2>3. f.at = "send" =>
          /\ Interrupted(i)' => Interrupted(i) \/ (Top.at = "log" /\ R # {})
          /\ ~Interrupted(i)' => ~Interrupted(i) \/ (Top.at = "read" /\ R = {})
    BY <1>1, <1>2, <2>0, Turned
  <2>4. f.at = "send" => f.key \in Callers({"send"})
    BY <1>2, <2>0 DEF Callers
  <2>6. ASSUME f.at = "send", Interrupted(i)', f.key \in Keys PROVE f.key \in untold'
    BY <2>1, <2>3, <2>4, <2>6
  <2>7. ASSUME ~Interrupted(i)' PROVE EditOK(f)'
    <3>1. SUFFICES ASSUME f.at = "send", f.in = "readbuf", IsSetting(readbuf')
                   PROVE  readbuf' = Setting(f.key, settings'[f.key])
      BY DEF EditOK
    <3>2. ~Interrupted(i) /\ Top.at = "log"
      BY <2>2, <2>3, <2>7, <3>1
    <3>3. UNCHANGED <<settings, readbuf>>
      BY <3>2
    <3> QED
      BY <2>1, <3>1, <3>2, <3>3 DEF EditOK
  <2>8. TellOK(f)'
    <3>1. SUFFICES ASSUME f.at = "send", f.in = "messageBuffer"
                   PROVE  /\ IsSetting(messageBuffer') => messageBuffer'.key = f.key
                          /\ f.key \in Keys \ untold' =>
                                /\ messageBuffer' = Setting(f.key, settings'[f.key])
                                /\ variables'[f.key] = settings'[f.key]
      BY DEF TellOK
    <3>2. UNCHANGED messageBuffer \/ ~IsSetting(messageBuffer')
      BY <2>2, <3>1 DEF OfOne
    <3>3. IsSetting(messageBuffer') => messageBuffer'.key = f.key
      BY <2>1, <3>1, <3>2 DEF TellOK
    <3>4. ASSUME f.key \in Keys \ untold'
          PROVE  /\ messageBuffer' = Setting(f.key, settings'[f.key])
                 /\ variables'[f.key] = settings'[f.key]
      <4>1. f.key \in Keys \ untold /\ ~Interrupted(i)
        BY <2>1, <3>1, <3>4
      <4>2. UNCHANGED <<settings, variables, messageBuffer>>
        BY <2>2, <3>1, <4>1
      <4> QED
        BY <2>1, <3>1, <4>1, <4>2 DEF TellOK
    <3> QED
      BY <3>3, <3>4
  <2>9. FormOK(f)'
    <3>1. ~Passes(f)
      BY <2>2
    <3>2. f.at = "form" => UNCHANGED variables
      BY <2>2 DEF OfOne
    <3> QED
      BY <2>1, <3>1, <3>2 DEF FormOK
  <2> QED
    BY <2>6, <2>7, <2>8, <2>9
<1>3. CASE f = Frame("log")
  BY <1>3 DEF Frame, EditOK, TellOK, FormOK, Passes
<1>4. CASE f \in R /\ (f.at = "send" => ~Interrupted(i)')
  BY <1>4 DEF SyncOK
<1> QED
  BY <1>1, <1>2, <1>3, <1>4, Turned

(* A frame with which nothing is published of what a buffer holds.         *)
Quiet(f) == f.at # "form" /\ ~Passes(f) /\ (f.at = "send" => f.in = "nowhere")

LEMMA QuietIsOK == \A f : Quiet(f) => SyncOK(f)'
BY DEF Quiet, SyncOK, EditOK, TellOK, FormOK, Passes

LEMMA QuietFrames ==
    /\ \A f \in Plain : Quiet(f)
    /\ \A i \in Nat : Quiet(Register(i))
    /\ \A k, v : Quiet(About("use", k, v))
    /\ \A k : Quiet(SendOf(k, "nowhere"))
    /\ Quiet(Process("readbuf"))
BY DEF Plain, Frame, Register, About, SendOf, Process, Passes, Quiet

LEMMA TurnedTo ==
    ASSUME FramesInv, stack # <<>>, NEW R, Turns(R), NEW f, f \in R, NEW k
    PROVE  /\ OnItsWay(f, k)' => UnderWay(k)'
           /\ \A j \in DOMAIN Registered :
                f.at = "register" /\ Registered[j] = k /\ f.val <= j => Awaits(k)'
<1>1. PICK i \in DOMAIN stack' : stack'[i] = f
  BY Turned DEF FramesInv
<1>2. OnItsWay(f, k)' => UnderWay(k)'
  BY <1>1 DEF UnderWay, OnItsWay, OneOf, Passes
<1>3. ASSUME NEW j \in DOMAIN Registered, f.at = "register", Registered[j] = k, f.val <= j
      PROVE  Awaits(k)'
  BY <1>1, <1>3 DEF Awaits
<1> QED
  BY <1>2, <1>3

LEMMA EachTurn ==
    ASSUME ConfigTypeOK, FramesInv, CallsInSync, stack # <<>>, NEW R, Turns(R),
           NEW k \in Keys \ untold, Awaits(k) \/ UnderWay(k) \/ InSyncNow(k),
           Top.at = "log" => UNCHANGED <<settings, readbuf, edited>>,
           (\E i \in DOMAIN inbox : inbox[i].kind = "connack") => Awaits(k)',
           \A j \in DOMAIN Registered :
              Top.at = "register" /\ Registered[j] = k /\ Top.val <= j =>
                Awaits(k)' \/ UnderWay(k)',
           OnItsWay(Top, k) => UnderWay(k)' \/ InSyncNow(k)',
           InSyncNow(k) => UnderWay(k)' \/ InSyncNow(k)'
    PROVE  Awaits(k)' \/ UnderWay(k)' \/ InSyncNow(k)'
<1>1. /\ stack \in Seq(Frames) /\ StackOK(stack) /\ Top = stack[Len(stack)]
      /\ \A i \in DOMAIN stack : i # Len(stack) => i \in DOMAIN stack' /\ stack'[i] = stack[i]
  BY TopIs, Turned
<1>2. CASE Awaits(k)
  <2>1. CASE \E i \in DOMAIN inbox : inbox[i].kind = "connack"
    BY <2>1
  <2>2. CASE \E i \in DOMAIN stack, j \in DOMAIN Registered :
               stack[i].at = "register" /\ Registered[j] = k /\ stack[i].val <= j
    <3>1. PICK i \in DOMAIN stack, j \in DOMAIN Registered :
               stack[i].at = "register" /\ Registered[j] = k /\ stack[i].val <= j
      BY <2>2
    <3>2. CASE i = Len(stack)
      BY <1>1, <3>1, <3>2
    <3>3. CASE i # Len(stack)
      <4>1. i \in DOMAIN stack' /\ stack'[i] = stack[i]
        BY <1>1, <3>3
      <4>2. Awaits(k)'
        BY <3>1, <4>1 DEF Awaits
      <4> QED
        BY <4>2
    <3> QED
      BY <3>2, <3>3
  <2> QED
    BY <1>2, <2>1, <2>2 DEF Awaits
<1>3. CASE UnderWay(k)
  <2>1. PICK i \in DOMAIN stack : OnItsWay(stack[i], k)
    BY <1>3 DEF UnderWay
  <2>2. CASE i = Len(stack)
    BY <1>1, <2>1, <2>2
  <2>3. CASE i # Len(stack)
    <3>1. i \in DOMAIN stack' /\ stack'[i] = stack[i]
      BY <1>1, <2>3
    <3> DEFINE f == stack[i]
    <3>2. ~Passes(f) /\ (f.at = "send" /\ ~Interrupted(i) => Top.at = "log")
      BY <2>3, Above
    <3>3. f.at = "send" /\ f.in = "readbuf" /\ f.key = k =>
             UNCHANGED <<settings, readbuf, edited>>
      BY <3>2 DEF CallsInSync
    <3>4. UnderWay(k)'
      <4>1. CASE OneOf(f) /\ f.key = k
        BY <3>1, <4>1 DEF UnderWay, OnItsWay, OneOf
      <4>2. CASE f.at = "send" /\ f.in = "messageBuffer" /\ f.key = k
        BY <3>1, <4>2 DEF UnderWay, OnItsWay, OneOf
      <4>3. CASE /\ f.at = "send" /\ f.in = "readbuf" /\ f.key = k
                 /\ k \in edited /\ readbuf = Setting(k, settings[k])
        BY <3>1, <3>3, <4>3 DEF UnderWay, OnItsWay, OneOf
      <4> QED
        BY <2>1, <3>2, <4>1, <4>2, <4>3 DEF OnItsWay
    <3> QED
      BY <3>4
  <2> QED
    BY <2>2, <2>3
<1> QED
  BY <1>2, <1>3

LEMMA StillUp ==
    ASSUME ConfigTypeOK, FramesInv, Turning, link' = "up", untold' # Keys
    PROVE  link = "up" /\ untold \subseteq untold' /\ untold # Keys /\ ~Starved
<1>1. ~Starved
  BY DEF Starved
<1>2. link = "up"
  BY DEF Turning, RegisterNext, RegisterDone, Use, Form, ProcessConfig, SaveAlone, Send,
         Logged, ReadCorrupted, ReadNothing, ReadAPacket, Switch, Reply, lineVars
<1>3. ASSUME RegisterNext PROVE untold \subseteq untold'
  BY <1>1, <1>3, RegisterTurns
<1>4. ASSUME ProcessConfig PROVE untold \subseteq untold'
  <2>1. Save(Buffer(Top.in))
    BY <1>1, <1>4, ProcessTurns
  <2> QED
    BY <2>1 DEF Save, historyVars
<1>5. ASSUME SaveAlone PROVE untold \subseteq untold'
  BY <1>1, <1>5, SaveTurns
<1>6. ASSUME Logged PROVE untold \subseteq untold'
  BY <1>6, LoggedTurns DEF historyVars
<1>7. ASSUME \/ RegisterDone \/ Use \/ Form \/ Send \/ ReadCorrupted \/ ReadNothing
             \/ ReadAPacket \/ Switch \/ Reply
      PROVE  untold \subseteq untold'
  <2>1. UNCHANGED untold
    BY <1>7, Zenon
       DEF RegisterDone, Use, Form, Send, ReadCorrupted, ReadNothing, ReadAPacket, Switch,
           Reply, historyVars
  <2> QED
    BY <2>1
<1>8. untold \subseteq untold'
  BY <1>3, <1>4, <1>5, <1>6, <1>7 DEF Turning
<1>9. [Next]_vars
  BY DEF Next, Turning
<1>10. untold' \subseteq Keys
  BY <1>9, SettingTypes
<1> QED
  BY <1>1, <1>2, <1>8, <1>10

Base ==
    /\ ConfigTypeOK /\ FramesInv /\ CallsInSync /\ EachInSync
    /\ link = "up" /\ link' = "up" /\ untold \subseteq untold'
    /\ ~Starved

(* Nothing is stored, used or told.                                        *)
LEMMA EachQuiet ==
    ASSUME Base, stack # <<>>, NEW R, Turns(R),
           UNCHANGED <<told, settings, variables, edited>>,
           Quiet(Top), ~OneOf(Top), Top.at # "send",
           Top.at = "register" => Top.val \notin DOMAIN Registered,
           Top.at = "log" => UNCHANGED readbuf,
           \/ UNCHANGED inbox
           \/ (\E i \in DOMAIN inbox : inbox[i].kind = "connack") =>
                 \A k \in Keys : Awaits(k)'
    PROVE  EachInSync'
<1> SUFFICES ASSUME NEW k \in Keys \ untold'
             PROVE  Awaits(k)' \/ UnderWay(k)' \/ InSyncNow(k)'
  BY DEF EachInSync
<1>1. /\ ConfigTypeOK /\ FramesInv /\ CallsInSync /\ k \in Keys \ untold
      /\ Awaits(k) \/ UnderWay(k) \/ InSyncNow(k)
  BY DEF Base, EachInSync
<1>2. (\E i \in DOMAIN inbox : inbox[i].kind = "connack") => Awaits(k)'
  BY DEF Awaits
<1>3. \A j \in DOMAIN Registered : ~(Top.at = "register" /\ Top.val <= j)
  <2> SUFFICES ASSUME NEW j \in DOMAIN Registered, Top.at = "register", Top.val <= j
               PROVE  FALSE
    OBVIOUS
  <2>1. Top.val \in Nat \ {0}
    BY <1>1, TopIs DEF FrameOK
  <2>2. DOMAIN Registered = 1..Len(Registered) /\ Len(Registered) \in Nat
    BY KeysAre
  <2>3. Top.val \in DOMAIN Registered
    BY <2>1, <2>2
  <2> QED
    BY <2>3
<1>4. ~OnItsWay(Top, k)
  BY DEF OnItsWay, Quiet
<1>5. InSyncNow(k) => InSyncNow(k)'
  BY DEF InSyncNow
<1> QED
  BY <1>1, <1>2, <1>3, <1>4, <1>5, EachTurn

LEMMA CallsQuiet ==
    ASSUME Base, stack # <<>>, NEW R, Turns(R), \A f \in R : Quiet(f),
           UNCHANGED <<settings, variables>>,
           Top.at = "log" => UNCHANGED <<readbuf, messageBuffer>>,
           Top.at = "log" /\ R # {} => Callers({"send"}) \cap Keys \subseteq untold',
           Top.at = "read" /\ R = {} => ~IsSetting(readbuf'),
           UNCHANGED messageBuffer \/ ~IsSetting(messageBuffer')
    PROVE  CallsInSync'
<1>1. ConfigTypeOK /\ FramesInv /\ CallsInSync /\ untold \subseteq untold'
  BY DEF Base
<1> QED
  BY <1>1, QuietIsOK, CallsTurn

LEMMA SyncRegister == Base /\ RegisterNext => CallsInSync' /\ EachInSync'
<1> SUFFICES ASSUME Base, RegisterNext PROVE CallsInSync' /\ EachInSync'
  OBVIOUS
<1>0. ConfigTypeOK /\ FramesInv /\ CallsInSync /\ EachInSync /\ ~Starved
  BY DEF Base
<1>1. /\ stack # <<>> /\ Top.at = "register" /\ Top.val \in DOMAIN Registered
  BY <1>0, RegisterTurns
<1>2. PICK m \in Keys, v \in Values :
          /\ m = Registered[Top.val]
          /\ Turns({Register(Top.val + 1), About("use", m, v)})
          /\ UNCHANGED <<chosen, untold>> /\ edited' = edited \ {m}
  BY <1>0, RegisterTurns
<1> DEFINE R == {Register(Top.val + 1), About("use", m, v)}
<1>3. UNCHANGED <<settings, variables, told, readbuf, messageBuffer, inbox>>
  BY Zenon DEF RegisterNext, settingVars, bufferVars, lineVars
<1>4. Top.val \in Nat /\ Top.val + 1 \in Nat \ {0} /\ DOMAIN Registered \subseteq Nat
  <2>1. FrameOK(Top)
    BY <1>0, <1>1, TopIs
  <2> QED
    BY <1>1, <2>1, KeysAre DEF FrameOK
<1>5. /\ Register(Top.val + 1).at = "register" /\ Register(Top.val + 1).val = Top.val + 1
      /\ About("use", m, v).at = "use" /\ About("use", m, v).key = m
  BY <1>4, RegisterFrames, OneFrame
<1>6. Turns(R) /\ Register(Top.val + 1) \in R /\ About("use", m, v) \in R
  BY <1>2
<1>7. \A f \in R : Quiet(f)
  BY <1>4, QuietFrames
<1> HIDE DEF R
<1>8. CallsInSync'
  BY <1>1, <1>3, <1>6, <1>7, CallsQuiet
<1>9. ASSUME NEW k \in Keys \ untold'
      PROVE  Awaits(k)' \/ UnderWay(k)' \/ InSyncNow(k)'
  <2>1. k \in Keys \ untold /\ (Awaits(k) \/ UnderWay(k) \/ InSyncNow(k))
    BY <1>0, <1>2, <1>9 DEF EachInSync
  <2>2. k = m => UnderWay(k)'
    <3>1. k = m => OnItsWay(About("use", m, v), k)'
      BY <1>5 DEF OnItsWay, OneOf
    <3> QED
      BY <1>0, <1>1, <1>6, <3>1, TurnedTo
  <2>3. \A j \in DOMAIN Registered : Registered[j] = k /\ Top.val <= j =>
           Awaits(k)' \/ UnderWay(k)'
    <3> SUFFICES ASSUME NEW j \in DOMAIN Registered, Registered[j] = k, Top.val <= j
                 PROVE  Awaits(k)' \/ UnderWay(k)'
      OBVIOUS
    <3>1. CASE j = Top.val
      BY <1>2, <2>2, <3>1
    <3>2. CASE j # Top.val
      <4>1. Top.val + 1 <= j
        BY <1>4, <3>2
      <4> QED
        BY <1>0, <1>1, <1>5, <1>6, <4>1, TurnedTo
    <3> QED
      BY <3>1, <3>2
  <2>4. InSyncNow(k) => UnderWay(k)' \/ InSyncNow(k)'
    BY <1>2, <1>3, <2>2 DEF InSyncNow
  <2>5. ~OnItsWay(Top, k)
    BY <1>1 DEF OnItsWay, OneOf, Passes
  <2>6. (\E i \in DOMAIN inbox : inbox[i].kind = "connack") => Awaits(k)'
    BY <1>3 DEF Awaits
  <2> QED
    BY <1>0, <1>1, <1>6, <2>1, <2>3, <2>4, <2>5, <2>6, EachTurn
<1> QED
  BY <1>8, <1>9 DEF EachInSync

LEMMA SyncUse == Base /\ Use => CallsInSync' /\ EachInSync'
<1> SUFFICES ASSUME Base, Use PROVE CallsInSync' /\ EachInSync'
  OBVIOUS
<1>0. /\ ConfigTypeOK /\ FramesInv /\ CallsInSync /\ EachInSync
      /\ untold \subseteq untold' /\ variables \in [Keys -> Values]
  BY DEF Base, ConfigTypeOK
<1>1. PICK f : /\ f = Then("form") /\ Turns({f}) /\ f.at = "form"
               /\ f.key = Top.key /\ f.val = Top.val
  BY <1>0, UseTurns
<1>2. stack # <<>> /\ Top.at = "use" /\ Top.key \in Keys /\ Top.val \in Values
  BY <1>0, UseTurns
<1>3. /\ variables' = [variables EXCEPT ![Top.key] = Top.val]
      /\ UNCHANGED <<settings, told, readbuf, messageBuffer, inbox, edited, untold>>
  BY Zenon DEF Use, bufferVars, lineVars, historyVars
<1>4. SyncOK(f)'
  BY <1>0, <1>1, <1>2, <1>3 DEF SyncOK, EditOK, TellOK, FormOK, Passes
<1>5. CallsInSync'
  BY <1>0, <1>1, <1>2, <1>3, <1>4, CallsTurn DEF OfOne
<1>6. ASSUME NEW k \in Keys \ untold'
      PROVE  Awaits(k)' \/ UnderWay(k)' \/ InSyncNow(k)'
  <2>1. k \in Keys \ untold /\ (Awaits(k) \/ UnderWay(k) \/ InSyncNow(k))
    BY <1>0, <1>6 DEF EachInSync
  <2>2. k = Top.key => UnderWay(k)'
    <3>1. k = Top.key => OnItsWay(f, k)'
      BY <1>1 DEF OnItsWay, OneOf
    <3> QED
      BY <1>0, <1>1, <1>2, <3>1, TurnedTo
  <2>3. OnItsWay(Top, k) => UnderWay(k)'
    BY <1>2, <2>2 DEF OnItsWay, OneOf, Passes
  <2>4. InSyncNow(k) => UnderWay(k)' \/ InSyncNow(k)'
    BY <1>0, <1>2, <1>3, <2>1, <2>2 DEF InSyncNow
  <2>5. (\E i \in DOMAIN inbox : inbox[i].kind = "connack") => Awaits(k)'
    BY <1>3 DEF Awaits
  <2> QED
    BY <1>0, <1>1, <1>2, <2>1, <2>3, <2>4, <2>5, EachTurn
<1> QED
  BY <1>5, <1>6 DEF EachInSync

LEMMA SyncForm == Base /\ Form => CallsInSync' /\ EachInSync'
<1> SUFFICES ASSUME Base, Form PROVE CallsInSync' /\ EachInSync'
  OBVIOUS
<1>0. /\ ConfigTypeOK /\ FramesInv /\ CallsInSync /\ EachInSync
      /\ untold \subseteq untold'
  BY DEF Base
<1>1. PICK f : /\ f = Process("messageBuffer") /\ Turns({f}) /\ f.at = "process"
               /\ f.in = "messageBuffer"
  BY <1>0, FormTurns, ProcessFrames
<1>2. stack # <<>> /\ Top.at = "form" /\ Top.key \in Keys /\ Top.val \in Values
  BY <1>0, FormTurns
<1>3. /\ messageBuffer' = Setting(Top.key, Top.val)
      /\ UNCHANGED <<variables, settings, told, readbuf, inbox, edited, untold>>
  BY Zenon DEF Form, settingVars, lineVars, historyVars
<1>4. variables[Top.key] = Top.val
  <2>1. FormOK(Top)
    BY <1>0, <1>2, TopIs DEF CallsInSync
  <2> QED
    BY <1>2, <2>1 DEF FormOK
<1>5. /\ IsSetting(messageBuffer') /\ messageBuffer'.key = Top.key
      /\ messageBuffer'.val = Top.val
  BY <1>3 DEF Setting, IsSetting
<1>6. SyncOK(f)'
  BY <1>1, <1>3, <1>4, <1>5 DEF SyncOK, EditOK, TellOK, FormOK, Passes
<1>7. CallsInSync'
  BY <1>0, <1>1, <1>2, <1>3, <1>6, CallsTurn DEF OfOne
<1>8. ASSUME NEW k \in Keys \ untold'
      PROVE  Awaits(k)' \/ UnderWay(k)' \/ InSyncNow(k)'
  <2>1. k \in Keys \ untold /\ (Awaits(k) \/ UnderWay(k) \/ InSyncNow(k))
    BY <1>0, <1>8 DEF EachInSync
  <2>2. k = Top.key => UnderWay(k)'
    <3>1. k = Top.key => OnItsWay(f, k)'
      BY <1>1, <1>5 DEF OnItsWay, Passes
    <3> QED
      BY <1>0, <1>1, <1>2, <3>1, TurnedTo
  <2>3. OnItsWay(Top, k) => UnderWay(k)'
    BY <1>2, <2>2 DEF OnItsWay, OneOf, Passes
  <2>4. InSyncNow(k) => InSyncNow(k)'
    BY <1>3 DEF InSyncNow
  <2>5. (\E i \in DOMAIN inbox : inbox[i].kind = "connack") => Awaits(k)'
    BY <1>3 DEF Awaits
  <2> QED
    BY <1>0, <1>1, <1>2, <2>1, <2>3, <2>4, <2>5, EachTurn
<1> QED
  BY <1>7, <1>8 DEF EachInSync

LEMMA SyncProcess == Base /\ ProcessConfig => CallsInSync' /\ EachInSync'
<1> SUFFICES ASSUME Base, ProcessConfig PROVE CallsInSync' /\ EachInSync'
  OBVIOUS
<1>0. /\ ConfigTypeOK /\ FramesInv /\ CallsInSync /\ EachInSync
      /\ untold \subseteq untold' /\ ~Starved
  BY DEF Base
<1> DEFINE b == Buffer(Top.in)
<1>1. /\ stack # <<>> /\ Top.at = "process" /\ Top.in \in {"readbuf", "messageBuffer"}
      /\ Save(b) /\ Turns({SendOf(b.key, Top.in)})
  BY <1>0, ProcessTurns
<1>2. /\ b.key \in Keys \cup {Unset}
      /\ IsSetting(b) => /\ b.key \in Keys /\ b.val \in Values
                         /\ b = Setting(b.key, b.val)
  BY <1>0, <1>1, BufferTypes
<1>3. /\ Top.in = "readbuf" => b = readbuf
      /\ Top.in = "messageBuffer" => b = messageBuffer
  BY DEF Buffer
<1> HIDE DEF b
<1>4. PICK f : /\ f = SendOf(b.key, Top.in) /\ Turns({f})
               /\ f.at = "send" /\ f.key = b.key /\ f.in = Top.in
  <2>1. LET f == SendOf(b.key, Top.in) IN
        f.at = "send" /\ f.key = b.key /\ f.in = Top.in
    BY DEF SendOf, Frame
  <2> QED
    BY <1>1, <2>1
<1>5. UNCHANGED <<variables, told, readbuf, messageBuffer, inbox>>
  BY Zenon DEF ProcessConfig, bufferVars, lineVars
<1>6. /\ IsSetting(b) =>
           /\ settings'[b.key] = b.val
           /\ \A m \in Keys : m # b.key => settings'[m] = settings[m]
           /\ Top.in = "readbuf" => edited' = edited \cup {b.key}
           /\ Top.in = "messageBuffer" => UNCHANGED edited
      /\ ~IsSetting(b) => UNCHANGED <<settings, edited>>
  BY <1>0, <1>1, <1>2, SavedSetting DEF Save, historyVars
<1>7. Top.in = "messageBuffer" => IsSetting(b) /\ variables[b.key] = b.val
  <2>1. FormOK(Top)
    BY <1>0, <1>1, TopIs DEF CallsInSync
  <2> QED
    BY <1>1, <1>3, <2>1 DEF FormOK, Passes
<1>8. SyncOK(f)'
  <2>1. EditOK(f)'
    BY <1>2, <1>3, <1>4, <1>5, <1>6 DEF EditOK
  <2>2. TellOK(f)'
    BY <1>2, <1>3, <1>4, <1>5, <1>6, <1>7 DEF TellOK
  <2>3. FormOK(f)'
    BY <1>4 DEF FormOK, Passes
  <2> QED
    BY <2>1, <2>2, <2>3 DEF SyncOK
<1>9. CallsInSync'
  BY <1>0, <1>1, <1>4, <1>5, <1>8, CallsTurn
<1>10. ASSUME NEW k \in Keys \ untold'
       PROVE  Awaits(k)' \/ UnderWay(k)' \/ InSyncNow(k)'
  <2>1. k \in Keys \ untold /\ (Awaits(k) \/ UnderWay(k) \/ InSyncNow(k))
    BY <1>0, <1>10 DEF EachInSync
  <2>2. k = b.key /\ IsSetting(b) => UnderWay(k)'
    <3>1. k = b.key /\ IsSetting(b) => OnItsWay(f, k)'
      BY <1>1, <1>2, <1>3, <1>4, <1>5, <1>6 DEF OnItsWay
    <3> QED
      BY <1>0, <1>1, <1>4, <3>1, TurnedTo
  <2>3. OnItsWay(Top, k) => UnderWay(k)'
    BY <1>1, <1>3, <1>7, <2>2 DEF OnItsWay, OneOf, Passes
  <2>4. InSyncNow(k) => UnderWay(k)' \/ InSyncNow(k)'
    BY <1>1, <1>5, <1>6, <2>2 DEF InSyncNow
  <2>5. (\E i \in DOMAIN inbox : inbox[i].kind = "connack") => Awaits(k)'
    BY <1>5 DEF Awaits
  <2> QED
    BY <1>0, <1>1, <1>4, <2>1, <2>3, <2>4, <2>5, EachTurn
<1> QED
  BY <1>9, <1>10 DEF EachInSync

LEMMA SyncSend == Base /\ Send => CallsInSync' /\ EachInSync'
<1> SUFFICES ASSUME Base, Send PROVE CallsInSync' /\ EachInSync'
  OBVIOUS
<1>0. /\ ConfigTypeOK /\ FramesInv /\ CallsInSync /\ EachInSync
      /\ untold \subseteq untold' /\ link = "up" /\ told \in [Keys -> Optional]
  BY DEF Base, ConfigTypeOK
<1> DEFINE b == Buffer(Top.in)
<1>1. /\ stack # <<>> /\ Top.at = "send"
      /\ Turns({}) \/ Turns({Frame("read")})
  BY <1>0, SendTurns
<1>2. /\ Top.in \in {"nowhere", "readbuf", "messageBuffer"}
      /\ IsSetting(b) => /\ b.key \in Keys /\ b = Setting(b.key, b.val)
                         /\ Top.in # "nowhere"
  <2>1. Top.in \in {"nowhere", "readbuf", "messageBuffer"}
    BY <1>0, <1>1, TopIs DEF Frames
  <2> QED
    BY <1>0, <2>1, BufferTypes
<1>3. /\ Top.in = "readbuf" => b = readbuf
      /\ Top.in = "messageBuffer" => b = messageBuffer
  BY DEF Buffer
<1>4. told' = IF IsSetting(b) THEN [told EXCEPT ![b.key] = b.val] ELSE told
  BY <1>0 DEF Send
<1> HIDE DEF b
<1>5. UNCHANGED <<variables, settings, readbuf, messageBuffer, inbox, edited>>
  BY Zenon DEF Send, bufferVars, historyVars
<1>6. Quiet(Frame("read"))
  BY QuietFrames DEF Plain
<1>7. CallsInSync'
  BY <1>1, <1>5, <1>6, CallsQuiet
<1>8. EditOK(Top) /\ TellOK(Top)
  <2>1. ~Interrupted(Len(stack))
    BY DEF Interrupted
  <2> QED
    BY <1>0, <1>1, <2>1, TopIs DEF CallsInSync
<1>9. ASSUME NEW k \in Keys \ untold'
      PROVE  Awaits(k)' \/ UnderWay(k)' \/ InSyncNow(k)'
  <2>1. k \in Keys \ untold /\ (Awaits(k) \/ UnderWay(k) \/ InSyncNow(k))
    BY <1>0, <1>9 DEF EachInSync
  <2>2. OnItsWay(Top, k) => InSyncNow(k)'
    <3>1. CASE Top.in = "messageBuffer" /\ Top.key = k
      <4>1. messageBuffer = Setting(k, settings[k]) /\ variables[k] = settings[k]
        BY <1>1, <2>1, <3>1, <1>8 DEF TellOK
      <4>2. IsSetting(b) /\ b.key = k /\ b.val = settings[k]
        BY <1>3, <3>1, <4>1 DEF Setting, IsSetting
      <4> QED
        BY <1>0, <1>4, <1>5, <2>1, <4>1, <4>2 DEF InSyncNow
    <3>2. CASE /\ Top.in = "readbuf" /\ Top.key = k
               /\ k \in edited /\ readbuf = Setting(k, settings[k])
      <4>1. IsSetting(b) /\ b.key = k /\ b.val = settings[k]
        BY <1>3, <3>2 DEF Setting, IsSetting
      <4> QED
        BY <1>0, <1>4, <1>5, <2>1, <3>2, <4>1 DEF InSyncNow
    <3> QED
      BY <1>1, <3>1, <3>2 DEF OnItsWay, OneOf, Passes
  <2>3. InSyncNow(k) => InSyncNow(k)'
    <3>1. CASE IsSetting(b) /\ b.key = k
      <4>1. CASE Top.in = "readbuf"
        <5>1. readbuf = Setting(Top.key, settings[Top.key])
          BY <1>1, <1>3, <1>8, <3>1, <4>1 DEF EditOK
        <5>2. b.key = Top.key /\ b.val = settings[Top.key]
          BY <1>3, <4>1, <5>1 DEF Setting
        <5> QED
          BY <1>0, <1>4, <1>5, <2>1, <3>1, <5>2 DEF InSyncNow
      <4>2. CASE Top.in = "messageBuffer"
        <5>1. Top.key = k
          BY <1>1, <1>3, <1>8, <3>1, <4>2 DEF TellOK
        <5>2. messageBuffer = Setting(k, settings[k])
          BY <1>1, <1>8, <2>1, <4>2, <5>1 DEF TellOK
        <5>3. b.val = settings[k]
          BY <1>3, <4>2, <5>2 DEF Setting
        <5> QED
          BY <1>0, <1>4, <1>5, <2>1, <3>1, <5>3 DEF InSyncNow
      <4> QED
        BY <1>2, <3>1, <4>1, <4>2
    <3>2. CASE ~(IsSetting(b) /\ b.key = k)
      <4>1. told'[k] = told[k]
        BY <1>0, <1>2, <1>4, <2>1, <3>2
      <4> QED
        BY <1>5, <4>1 DEF InSyncNow
    <3> QED
      BY <3>1, <3>2
  <2>4. (\E i \in DOMAIN inbox : inbox[i].kind = "connack") => Awaits(k)'
    BY <1>5 DEF Awaits
  <2> QED
    BY <1>0, <1>1, <2>1, <2>2, <2>3, <2>4, EachTurn
<1> QED
  BY <1>7, <1>9 DEF EachInSync

LEMMA SyncLogged == Base /\ Logged => CallsInSync' /\ EachInSync'
<1> SUFFICES ASSUME Base, Logged PROVE CallsInSync' /\ EachInSync'
  OBVIOUS
<1>1. /\ stack # <<>> /\ Top.at = "log"
      /\ \/ Turns({})
         \/ Turns({Frame("read")}) /\ Callers({"send"}) \cap Keys \subseteq untold'
  BY LoggedTurns DEF Base
<1>2. UNCHANGED <<variables, settings, told, readbuf, messageBuffer, inbox>>
  BY Zenon DEF Logged, settingVars, bufferVars, lineVars
<1>3. UNCHANGED edited
  BY DEF Logged, historyVars
<1>4. Quiet(Frame("read")) /\ Quiet(Top) /\ ~OneOf(Top)
  BY <1>1, QuietFrames DEF Plain, Quiet, Passes, OneOf
<1>5. CASE Turns({})
  BY <1>1, <1>2, <1>3, <1>4, <1>5, CallsQuiet, EachQuiet
<1>6. CASE Turns({Frame("read")}) /\ Callers({"send"}) \cap Keys \subseteq untold'
  BY <1>1, <1>2, <1>3, <1>4, <1>6, CallsQuiet, EachQuiet
<1> QED
  BY <1>1, <1>5, <1>6

LEMMA SyncRead == Base /\ ReadAPacket => CallsInSync' /\ EachInSync'
<1> SUFFICES ASSUME Base, ReadAPacket PROVE CallsInSync' /\ EachInSync'
  OBVIOUS
<1>0. FramesInv /\ ConfigTypeOK
  BY DEF Base
<1>1. stack # <<>> /\ Top.at = "read" /\ inbox # <<>>
  BY <1>0, PacketTurns
<1>2. UNCHANGED <<variables, settings, told, messageBuffer, edited>>
  BY Zenon DEF ReadAPacket, settingVars, historyVars
<1>3. Quiet(Top) /\ ~OneOf(Top)
  BY <1>1 DEF Quiet, Passes, OneOf
<1>4. \A i \in DOMAIN inbox : inbox[i].kind = "connack" => Head(inbox).kind = "connack"
  <2>1. \A i \in DOMAIN inbox : inbox[i].kind = "connack" => i = 1
    BY <1>0 DEF FramesInv, LineInv
  <2>2. Head(inbox) = inbox[1]
    BY <1>0, <1>1 DEF FramesInv, LineInv
  <2> QED
    BY <2>1, <2>2
<1>5. /\ Quiet(Process("readbuf")) /\ Quiet(Register(1)) /\ Quiet(SendOf(Unset, "nowhere"))
      /\ Quiet(Frame("reply")) /\ Quiet(Frame("switch"))
  BY QuietFrames DEF Plain
<1>6. CASE Head(inbox).kind = "connack"
  <2> DEFINE R == {Top, Register(1), SendOf(Unset, "nowhere")}
  <2>1. Turns(R) /\ Register(1) \in R /\ R # {}
    BY <1>0, <1>6, PacketTurns
  <2>2. \A f \in R : Quiet(f)
    BY <1>3, <1>5
  <2> HIDE DEF R
  <2>3. CallsInSync'
    BY <1>1, <1>2, <2>1, <2>2, CallsQuiet
  <2>4. \A k \in Keys : Awaits(k)'
    <3> SUFFICES ASSUME NEW k \in Keys PROVE Awaits(k)'
      OBVIOUS
    <3>1. PICK j \in DOMAIN Registered : Registered[j] = k
      BY KeysAre
    <3>2. Register(1).at = "register" /\ Register(1).val = 1
      BY DEF Register, Frame
    <3>3. 1 <= j
      BY KeysAre
    <3> QED
      BY <1>0, <1>1, <2>1, <3>1, <3>2, <3>3, TurnedTo
  <2> QED
    BY <1>1, <1>2, <1>3, <2>1, <2>3, <2>4, EachQuiet
<1>7. ASSUME NEW f, Quiet(f), Turns({Top, f}), Head(inbox).kind # "connack"
      PROVE  CallsInSync' /\ EachInSync'
  <2> DEFINE R == {Top, f}
  <2>1. Turns(R) /\ R # {} /\ \A g \in R : Quiet(g)
    BY <1>3, <1>7
  <2> HIDE DEF R
  <2>2. ~\E i \in DOMAIN inbox : inbox[i].kind = "connack"
    BY <1>4, <1>7
  <2> QED
    BY <1>1, <1>2, <1>3, <2>1, <2>2, CallsQuiet, EachQuiet
<1> QED
  BY <1>0, <1>5, <1>6, <1>7, PacketTurns

LEMMA SyncOther ==
    Base /\ (RegisterDone \/ ReadCorrupted \/ ReadNothing \/ Switch \/ Reply)
      => CallsInSync' /\ EachInSync'
<1> SUFFICES ASSUME Base, RegisterDone \/ ReadCorrupted \/ ReadNothing \/ Switch \/ Reply
             PROVE  CallsInSync' /\ EachInSync'
  OBVIOUS
<1>0. FramesInv /\ ConfigTypeOK /\ link = "up"
  BY DEF Base
<1>1. UNCHANGED <<variables, settings, told, inbox, edited>>
  BY Zenon DEF RegisterDone, ReadCorrupted, ReadNothing, Switch, Reply, settingVars,
               historyVars, lineVars
<1>2. ~ReadCorrupted
  BY <1>0 DEF ReadCorrupted
<1>3. \/ UNCHANGED messageBuffer
      \/ messageBuffer' = Empty \/ messageBuffer' = Message("reply")
  BY DEF RegisterDone, ReadCorrupted, ReadNothing, Switch, Reply, bufferVars
<1>4. UNCHANGED messageBuffer \/ ~IsSetting(messageBuffer')
  BY <1>3 DEF Empty, Message, IsSetting
<1>5. ReadNothing => ~IsSetting(readbuf')
  BY DEF ReadNothing, Empty, Message, IsSetting
<1>6. /\ stack # <<>> /\ Top.at \in {"register", "read", "switch", "reply"}
      /\ Top.at = "read" => ReadNothing
      /\ Top.at = "register" => Top.val \notin DOMAIN Registered
      /\ Turns({}) \/ Turns({SendOf(Unset, "nowhere")})
  BY <1>0, <1>2, DoneTurns, ReadEndTurns, SwitchTurns, ReplyTurns
<1>7. Quiet(Top) /\ ~OneOf(Top) /\ Top.at # "log" /\ Top.at # "send"
  BY <1>6 DEF Quiet, OneOf, Passes
<1>8. ASSUME NEW R, Turns(R), \A f \in R : Quiet(f)
      PROVE  CallsInSync' /\ EachInSync'
  <2>1. CallsInSync'
    BY <1>1, <1>4, <1>5, <1>6, <1>7, <1>8, CallsQuiet
  <2>2. EachInSync'
    BY <1>1, <1>6, <1>7, <1>8, EachQuiet
  <2> QED
    BY <2>1, <2>2
<1> QED
  BY <1>6, <1>8, QuietFrames

LEMMA NextSync ==
    ASSUME ConfigTypeOK, FramesInv, SyncInv, [Next]_vars
    PROVE  SyncInv'
<1> SUFFICES ASSUME link' = "up", untold' # Keys
             PROVE  CallsInSync' /\ EachInSync'
  BY DEF SyncInv
<1>1. CASE Turning
  <2>1. link = "up" /\ untold \subseteq untold' /\ untold # Keys /\ ~Starved
    BY <1>1, StillUp
  <2>2. Base
    BY <2>1 DEF SyncInv, Base
  <2>3. ~SaveAlone
    BY <2>1 DEF SaveAlone
  <2> QED
    BY <1>1, <2>2, <2>3, SyncRegister, SyncUse, SyncForm, SyncProcess, SyncSend, SyncLogged,
       SyncRead, SyncOther DEF Turning
<1>2. CASE Connect
  <2>1. stack' = <<>> /\ inbox' = <<Message("connack")>>
    BY <1>2 DEF Connect
  <2>2. \A k : Awaits(k)'
    <3>1. 1 \in DOMAIN inbox' /\ inbox'[1] = Message("connack")
      BY <2>1
    <3>2. inbox'[1].kind = "connack"
      BY <3>1 DEF Message
    <3> QED
      BY <3>1, <3>2 DEF Awaits
  <2> QED
    BY <2>1, <2>2 DEF CallsInSync, EachInSync
<1>3. CASE CannotConnect \/ Reconnect \/ Restart \/ LineBreaks
  <2>1. link' \in {"corrupted", "down", "broken"}
    BY <1>3 DEF CannotConnect, Reconnect, Restart, NoConnection, LineBreaks
  <2> QED
    BY <2>1
<1>4. CASE MainReads
  <2>1. /\ stack = <<>> /\ stack' = <<Frame("read")>>
        /\ UNCHANGED <<variables, settings, told, edited, untold, link, inbox>>
    BY <1>4, Zenon DEF MainReads, ReadAndProcess, settingVars, historyVars, lineVars
  <2>2. CallsInSync /\ EachInSync
    BY <2>1 DEF SyncInv
  <2>3. \A i \in DOMAIN stack' : stack'[i] = Frame("read") /\ stack'[i].at = "read"
    BY <2>1 DEF Frame
  <2>4. CallsInSync'
    BY <2>3 DEF CallsInSync, EditOK, TellOK, FormOK, Passes
  <2>5. ASSUME NEW k \in Keys \ untold'
        PROVE  Awaits(k)' \/ UnderWay(k)' \/ InSyncNow(k)'
    <3>1. Awaits(k) \/ UnderWay(k) \/ InSyncNow(k)
      BY <2>1, <2>2, <2>5 DEF EachInSync
    <3>2. CASE Awaits(k)
      BY <2>1, <3>2 DEF Awaits
    <3>3. CASE UnderWay(k)
      BY <2>1, <3>3 DEF UnderWay
    <3>4. CASE InSyncNow(k)
      BY <2>1, <3>4 DEF InSyncNow
    <3> QED
      BY <3>1, <3>2, <3>3, <3>4
  <2> QED
    BY <2>4, <2>5 DEF EachInSync
<1>5. CASE (\E p \in Packets : Arrives(p)) \/ UNCHANGED vars
  <2>1. UNCHANGED <<stack, variables, settings, told, readbuf, messageBuffer, edited,
                    untold, link>>
    BY <1>5, Zenon DEF Arrives, vars, settingVars, bufferVars, historyVars, lineVars
  <2>2. CallsInSync /\ EachInSync
    BY <2>1 DEF SyncInv
  <2>3. CallsInSync'
    BY <2>1, <2>2 DEF CallsInSync, Interrupted, EditOK, TellOK, FormOK, Passes
  <2>4. \A i \in DOMAIN inbox : i \in DOMAIN inbox' /\ inbox'[i] = inbox[i]
    <3>1. CASE UNCHANGED inbox
      BY <3>1
    <3>2. CASE \E p \in Packets : inbox' = Append(inbox, p)
      <4>1. inbox \in Seq(Inbound) /\ Packets \subseteq Inbound
        BY DEF FramesInv, LineInv, Inbound
      <4> QED
        BY <3>2, <4>1
    <3> QED
      BY <1>5, <3>1, <3>2 DEF Arrives, vars, lineVars
  <2>5. ASSUME NEW k \in Keys \ untold'
        PROVE  Awaits(k)' \/ UnderWay(k)' \/ InSyncNow(k)'
    <3>1. Awaits(k) \/ UnderWay(k) \/ InSyncNow(k)
      BY <2>1, <2>2, <2>5 DEF EachInSync
    <3>2. CASE Awaits(k)
      BY <2>1, <2>4, <3>2 DEF Awaits
    <3>3. CASE UnderWay(k)
      BY <2>1, <3>3 DEF UnderWay, OnItsWay, OneOf, Passes
    <3>4. CASE InSyncNow(k)
      BY <2>1, <3>4 DEF InSyncNow
    <3> QED
      BY <3>1, <3>2, <3>3, <3>4
  <2> QED
    BY <2>3, <2>5 DEF EachInSync
<1> QED
  BY <1>1, <1>2, <1>3, <1>4, <1>5, Zenon DEF Next, Turning

(* Whenever the program is back in its main loop with a connection on which*)
(* it has registered, the server shows of every setting what is stored and *)
(* the program uses it, unless the server has edited it since (config.c:85);*)
(* the exceptions are the settings of which a publish was interrupted by a *)
(* read within its own log, and everything where heap was short.           *)
THEOREM ServerIsInSync == Spec => []InSync
<1>1. Init => ConfigTypeOK /\ FramesInv /\ SyncInv
  <2>1. Init => link = "down"
    BY Zenon DEF Init
  <2>2. Init => SyncInv
    BY <2>1 DEF SyncInv
  <2> QED
    BY <2>2, InitTypes
<1>2. /\ ConfigTypeOK /\ FramesInv /\ SyncInv /\ [Next]_vars
      => (ConfigTypeOK /\ FramesInv /\ SyncInv)'
  BY NextTypes, NextSync
<1>3. FramesInv /\ SyncInv => InSync
  <2> SUFFICES ASSUME FramesInv, SyncInv, Settled, NEW k \in Keys \ untold
               PROVE  InSyncNow(k)
    BY DEF InSync, InSyncNow
  <2>1. stack = <<>> /\ link = "up" /\ registered
    BY DEF Settled
  <2>2. Awaits(k) \/ UnderWay(k) \/ InSyncNow(k)
    BY <2>1 DEF SyncInv, EachInSync
  <2>3. ~\E i \in DOMAIN inbox : inbox[i].kind = "connack"
    BY <2>1 DEF FramesInv, LineInv
  <2>4. ~Awaits(k) /\ ~UnderWay(k)
    BY <2>1, <2>3 DEF Awaits, UnderWay
  <2> QED
    BY <2>2, <2>4
<1> QED
  BY <1>1, <1>2, <1>3, PTL DEF Spec

=============================================================================
