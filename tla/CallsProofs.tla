------------------------------ MODULE CallsProofs ------------------------------
(***************************************************************************)
(* Theorems about Calls, for every length of the heap, of the messages and *)
(* of the intervals, and every number of packets and guaranteed messages:  *)
(* the types, the packet that a handler finds in readbuf, the blocks of    *)
(* the heap, the time for which the server gets logs, and the depth to     *)
(* which logs that fail are logged again.                                  *)
(***************************************************************************)
EXTENDS Calls, FiniteSetTheorems, SequenceTheorems, TLAPS

(* The frames: which kinds they are of, and which blocks they may carry.   *)
Publishing == {"publish", "send", "sent", "corrupted", "failed", "published"}
Storing    == {"topic", "payload", "track"}
Waiting    == {"wait", "waited", "save", "saved", "give up"}

(* A handler that has not yet done with the packet in readbuf, and others. *)
Active == {"topic name", "message", "peer message", "peer", "body", "enable",
           "disable", "logging", "only logging", "switch"}
Handling == Active \cup {"no memory", "free"}

MemOK(f) ==
    /\ f.mem # <<>> => f.at \in (Handling \ {"topic name"}) \cup {"saved"}
    /\ f.at = "saved" => Len(f.mem) = 1
    /\ f.at \in {"message", "peer message", "enable", "disable", "only logging"}
         => Len(f.mem) <= 1
    /\ f.at \in {"peer", "logging", "no memory"} => Len(f.mem) <= 2
    /\ Len(f.mem) <= 3

FrameOK(f) ==
    /\ f.at \in Publishing => f.kind \in {"log", "notice", "app", "sure"}
    /\ f.at \in Storing => f.kind = "sure"
    /\ f.at \in Handling => f.kind \in {"message", "enable", "disable"}
    /\ MemOK(f)

(* Those that are at the top, as they begin with nothing that logs; and    *)
(* the guaranteed message, which the main loop publishes.                  *)
AtTop(f) == f.at = "publish" \/ (f.at = "send" /\ f.kind \in {"log", "notice"})

Bottom(f) == f.kind = "sure" \/ f.at \in Waiting

StackOK ==
    /\ stack \in Seq(Frames)
    /\ \A i \in DOMAIN stack :
          LET f == stack[i] IN
          /\ FrameOK(f)
          /\ AtTop(f) => i = Len(stack)
          /\ Bottom(f) => i = 1

OnLine == [kind : {"message", "enable", "disable", "puback"}, n : 0..MaxPackets,
         id : Nat]

Pending == {i \in DOMAIN stack : stack[i].at \in Active}

(* Every packet that was sent is on the line, or about to be looked at, or *)
(* the server has got its logs with it.                                    *)
CountInv ==
    /\ inbox \in Seq(OnLine) /\ packets \in 0..MaxPackets /\ enabled \in Nat
    /\ guaranteed \in Nat
    /\ enabled + Cardinality(Pending) + Len(inbox) <= packets

(* The fields of the heap, and whether it was misused. *)
HeapType(h) ==
    /\ DOMAIN h = {"currentBytesUsed", "live", "count", "maxAllocationsCount", "misused"}
    /\ h.misused \in 0..1

TypeInv ==
    /\ HeapType(heap)
    /\ age \in -1..(EXPIRY_SECONDS + 1) /\ since \in 0..(EXPIRY_SECONDS + 2)
    /\ serverLoggingEnabled \in 0..1 /\ ipstackCorrupted \in 0..1
    /\ handlerAttached \in 0..1 /\ unanswered \in 0..1
    /\ publishCount \in 0..(Interval - 1)
    /\ line \in {"up", "broken"}
    /\ contents \in 0..MaxPackets
    /\ lastPubTopic \in Block /\ lastPubPayload \in Block
    /\ waitingForPuback \in {"not", "waiting", "timeout"}
    /\ pubAckRecvAttempts \in 0..(MAX_CYCLES_TO_WAIT_FOR_PUBACK - 1)

(* The live blocks: those that no frame has to free, the last of which are *)
(* the topic and the payload of the message that waits, and then those of  *)
(* every frame.  Before frame i there are w[i] of them.                    *)
Tracking ==
    \/ handlerAttached = 1
    \/ \E i \in DOMAIN stack : stack[i].at = "acked"
    \/ \E i \in DOMAIN stack :
         Bottom(stack[i]) /\ stack[i].at \notin {"publish"} \cup Storing

Kept(p) == p >= 2 /\ heap.live[p] = lastPubPayload /\ heap.live[p - 1] = lastPubTopic

MessageOK(p) ==
    /\ Tracking => Kept(p) \/ (lastPubTopic = NULL /\ lastPubPayload = NULL)
    /\ \A i \in DOMAIN stack :
        LET at == stack[i].at IN
        /\ at \in Storing => ~Tracking
        /\ at = "payload" => lastPubTopic = NULL \/ (p >= 1 /\ heap.live[p] = lastPubTopic)
        /\ at = "track" => NULL \in {lastPubTopic, lastPubPayload} \/ Kept(p)

Layout(w) ==
    /\ w[Len(stack) + 1] = Len(heap.live)
    /\ \A i \in 1..(Len(stack) + 1) : w[i] \in Nat
    /\ \A i, j \in 1..(Len(stack) + 1) : i <= j => w[i] <= w[j]
    /\ \A i \in 1..(Len(stack) + 1) :
         w[i] # w[1] => \E j \in 1..(i - 1) : stack[j].mem # <<>>
    /\ \A i \in DOMAIN stack :
        LET m == stack[i].mem IN
        /\ w[i + 1] = w[i] + Len(m)
        /\ \A j \in DOMAIN m : heap.live[w[i] + j] = m[j]

IsHeap(h) ==
    /\ DOMAIN h = {"currentBytesUsed", "live", "count", "maxAllocationsCount", "misused"}
    /\ h.currentBytesUsed \in Nat /\ h.live \in Seq(Block)
    /\ Stacked(h)

Sound == IsHeap(heap) /\ \E w : Layout(w) /\ MessageOK(w[1])

HeapInv ==
    /\ heap.misused = 0 => Sound
    /\ heap.misused = 1 => lastPubPayload = NULL
                            /\ \E k \in DOMAIN stack : stack[k].mem # <<>>

(* Before the server asks for logs nothing is read while a handler looks   *)
(* at its packet.                                                          *)
PayloadInv ==
    enabled = 0 =>
        /\ serverLoggingEnabled = 0
        /\ \A i \in DOMAIN stack : stack[i].at \in Active =>
              /\ stack[i].n = contents
              /\ \A j \in DOMAIN stack : j > i => stack[j].at \in {"log", "emit"}

(* The seconds for which the server gets logs are counted; the first time  *)
(* that it asks for them what is published is within the time.  Below      *)
(* another call a log is only written after the last notice.               *)
Noticed == enabled # 0 /\ (enabled = 1 => serverLoggingEnabled = 0)

Counted ==
    serverLoggingEnabled = 1 =>
        \/ age = Capped(since, EXPIRY_SECONDS + 1)
        \/ age = FRESH_SERVER_LOGS_TIME /\ since = 0 /\ At("log")

InTime ==
    enabled = 1 =>
        /\ At("emit") /\ serverLoggingEnabled = 1 => since <= EXPIRY_SECONDS
        /\ At("publish") /\ Top.kind = "log" => since <= EXPIRY_SECONDS
        /\ At("send") /\ Top.kind = "log" => since <= EXPIRY_SECONDS + 1

WindowInv ==
    /\ enabled = 0 => serverLoggingEnabled = 0
    /\ \A i \in DOMAIN stack : stack[i].at = "emit" /\ i # Len(stack) => Noticed
    /\ Counted /\ InTime

(* Logs and notices whose publish has failed: each cost a second of the    *)
(* time for which the server gets logs, and the notice another.  Before    *)
(* the time of the last wish there was that of the earlier ones.           *)
Fails(f) == f.at \in {"failed", "corrupted"} /\ f.kind \in {"log", "notice"}

Reports(f) == f.at \in {"publish", "send"} /\ f.kind \in {"log", "notice"}

Below(s, i) == Cardinality({j \in 1..(i - 1) : Fails(s[j])})

Depth == Below(stack, Len(stack) + 1)

Earlier == (EXPIRY_SECONDS + 2) * (enabled - 1)

Spent == IF serverLoggingEnabled = 1 THEN Capped(since, EXPIRY_SECONDS + 1) ELSE since

(* The call at the top may fail, with d below it that have.                *)
MayFail(f, d) ==
    /\ (f.at = "emit" /\ serverLoggingEnabled = 1) \/ (f.at = "publish" /\ f.kind = "log")
         => d + 1 <= Earlier + Capped(since + 1, EXPIRY_SECONDS + 1)
    /\ f.at = "publish" /\ f.kind = "notice" =>
         serverLoggingEnabled = 0 /\ d + 1 <= Earlier + Capped(since + 1, EXPIRY_SECONDS + 2)
    /\ f.at = "send" /\ f.kind = "log" => d + 1 <= Earlier + Capped(since, EXPIRY_SECONDS + 1)
    /\ f.at = "send" /\ f.kind = "notice" =>
         serverLoggingEnabled = 0 /\ d + 1 <= Earlier + since

(* A log that waits for the last notice goes out when the server has asked *)
(* for logs again: those below it are of the earlier times.                *)
DepthInv ==
    /\ enabled = 0 => Depth = 0 /\ (stack # <<>> => ~Reports(Top))
    /\ enabled # 0 =>
         /\ Depth <= Earlier + Spent
         /\ stack # <<>> => MayFail(Top, Depth)
         /\ serverLoggingEnabled = 1 =>
              \A i \in DOMAIN stack :
                 i # Len(stack) /\ stack[i].at = "emit" => Below(stack, i) <= Earlier

-----------------------------------------------------------------------------
(* The heap.                                                               *)

LEMMA Fields ==
    ASSUME NEW h, IsHeap(h)
    PROVE  /\ \A n : LET g == DEFAULT_MALLOC(h, n) IN
                /\ ~HasRoom(h, n) => g = h
                /\ DOMAIN g = DOMAIN h /\ g.misused = h.misused
                /\ HasRoom(h, n) =>
                     /\ g.currentBytesUsed = h.currentBytesUsed + HEADER_SIZE + n
                     /\ g.live = Append(h.live, NewBlock(h, n))
           /\ \A b : LET g == DEFAULT_FREE(h, b) IN
                /\ DOMAIN g = DOMAIN h
                /\ g.currentBytesUsed = h.currentBytesUsed - b.size - HEADER_SIZE
                /\ IsLast(h, b) => g.live = Front(h.live) /\ g.misused = h.misused
                /\ ~IsLast(h, b) => g.misused = 1
BY DEF IsHeap, DEFAULT_MALLOC, DEFAULT_FREE

(* The blocks are stacked, so each is behind those before it.              *)
LEMMA InOrder ==
    ASSUME NEW h, IsHeap(h)
    PROVE  /\ Len(h.live) \in Nat /\ DOMAIN h.live = 1..Len(h.live)
           /\ \A j \in DOMAIN h.live :
                h.live[j] \in Block /\ h.live[j].at \in Nat /\ h.live[j].at >= HEADER_SIZE
                  /\ h.live[j].size \in Nat /\ h.live[j] # NULL
           /\ \A j, k \in DOMAIN h.live : j # k => h.live[j] # h.live[k]
<1>0. HEADER_SIZE \in Nat \ {0}
  BY HeapAssumption DEF HeapAssumption
<1>1. /\ Len(h.live) \in Nat /\ DOMAIN h.live = 1..Len(h.live)
      /\ \A j \in DOMAIN h.live : h.live[j] \in Block
  BY DEF IsHeap
<1>2. \A j \in DOMAIN h.live : h.live[j].at \in Nat /\ h.live[j].size \in Nat
  BY <1>1 DEF Block
<1>3. \A j, k \in DOMAIN h.live :
         j < k => h.live[j].at + h.live[j].size + HEADER_SIZE <= h.live[k].at
  BY <1>1 DEF IsHeap, Stacked, End
<1>4. h.live # <<>> => 1 \in DOMAIN h.live /\ h.live[1].at = HEADER_SIZE
  BY <1>1 DEF IsHeap, Stacked
<1>5. \A j \in DOMAIN h.live : h.live[j].at >= HEADER_SIZE
  <2> SUFFICES ASSUME NEW j \in DOMAIN h.live PROVE h.live[j].at >= HEADER_SIZE
    OBVIOUS
  <2>1. h.live # <<>>
    BY <1>1
  <2>2. CASE j = 1
    BY <1>0, <1>2, <1>4, <2>1, <2>2
  <2>3. CASE 1 < j
    BY <1>0, <1>2, <1>3, <1>4, <2>1, <2>3
  <2> QED
    BY <1>1, <2>2, <2>3
<1>6. \A j \in DOMAIN h.live : h.live[j] # NULL
  BY <1>0, <1>2, <1>5 DEF NULL
<1>7. ASSUME NEW j \in DOMAIN h.live, NEW k \in DOMAIN h.live, j # k, h.live[j] = h.live[k]
      PROVE  FALSE
  BY <1>0, <1>1, <1>2, <1>3, <1>7, SMTT(30)
<1> QED
  BY <1>1, <1>2, <1>5, <1>6, <1>7

LEMMA Allocated ==
    ASSUME NEW h, IsHeap(h), NEW n \in Nat, HasRoom(h, n)
    PROVE  LET g == DEFAULT_MALLOC(h, n) IN
           /\ IsHeap(g) /\ g.misused = h.misused
           /\ NewBlock(h, n) \in Block /\ NewBlock(h, n) # NULL
           /\ Len(g.live) = Len(h.live) + 1 /\ Len(h.live) \in Nat
           /\ DOMAIN g.live = 1..(Len(h.live) + 1) /\ DOMAIN h.live = 1..Len(h.live)
           /\ g.live[Len(h.live) + 1] = NewBlock(h, n)
           /\ \A j \in DOMAIN h.live : g.live[j] = h.live[j]
<1> DEFINE g == DEFAULT_MALLOC(h, n)
<1> DEFINE b == NewBlock(h, n)
<1> DEFINE m == Len(h.live)
<1>0. HEADER_SIZE \in Nat \ {0} /\ MAX_HEAP_SIZE \in Nat
  BY HeapAssumption DEF HeapAssumption
<1>1. /\ h.currentBytesUsed \in Nat /\ h.live \in Seq(Block)
      /\ m \in Nat /\ DOMAIN h.live = 1..m
  BY DEF IsHeap
<1>2. /\ DOMAIN g = DOMAIN h /\ g.misused = h.misused
      /\ g.currentBytesUsed = h.currentBytesUsed + HEADER_SIZE + n
      /\ g.live = Append(h.live, b)
  BY Fields
<1>3. b \in Block /\ b.at = h.currentBytesUsed + HEADER_SIZE /\ b.size = n /\ b # NULL
  BY <1>0, <1>1 DEF NewBlock, Block, NULL
<1>4. h.currentBytesUsed + n + HEADER_SIZE <= MAX_HEAP_SIZE
  BY DEF HasRoom
<1> HIDE DEF g, b
<1>5. /\ g.live \in Seq(Block) /\ Len(g.live) = m + 1 /\ DOMAIN g.live = 1..(m + 1)
      /\ g.live[m + 1] = b /\ g.live # <<>>
      /\ \A j \in 1..m : g.live[j] = h.live[j]
  BY <1>1, <1>2, <1>3
<1>6. \A j \in 1..m : h.live[j].at \in Nat /\ h.live[j].size \in Nat
  BY <1>1, InOrder
<1>7. m = Len(h.live)
  OBVIOUS
<1> HIDE DEF m
<1>8. Stacked(g)
  <2>1. /\ h.currentBytesUsed = IF h.live = <<>> THEN 0 ELSE h.live[m].at + h.live[m].size
        /\ h.live # <<>> => h.live[1].at = HEADER_SIZE
        /\ \A k \in 1..(m - 1) :
              h.live[k + 1].at = h.live[k].at + h.live[k].size + HEADER_SIZE
        /\ \A j, k \in 1..m :
              j < k => h.live[j].at + h.live[j].size + HEADER_SIZE <= h.live[k].at
        /\ h.live = <<>> <=> m = 0
    BY <1>1, <1>7 DEF IsHeap, Stacked, End
  <2>2. g.currentBytesUsed = End(g.live[m + 1]) /\ g.currentBytesUsed <= MAX_HEAP_SIZE
    BY <1>0, <1>1, <1>2, <1>3, <1>4, <1>5 DEF End
  <2>3. g.live[1].at = HEADER_SIZE
    <3>1. CASE m = 0
      BY <1>0, <1>3, <1>5, <2>1, <3>1
    <3>2. CASE m > 0
      BY <1>5, <1>7, <2>1, <3>2
    <3> QED
      BY <1>1, <3>1, <3>2
  <2>6. /\ \A k \in 1..m : /\ End(g.live[k]) = h.live[k].at + h.live[k].size
                             /\ End(g.live[k]) \in Nat /\ g.live[k].at = h.live[k].at
        /\ g.live[m + 1].at = h.currentBytesUsed + HEADER_SIZE
        /\ m # 0 => h.currentBytesUsed = End(g.live[m])
    <3>1. \A k \in 1..m : /\ End(g.live[k]) = h.live[k].at + h.live[k].size
                            /\ End(g.live[k]) \in Nat /\ g.live[k].at = h.live[k].at
      <4> SUFFICES ASSUME NEW k \in 1..m
                   PROVE  /\ End(g.live[k]) = h.live[k].at + h.live[k].size
                          /\ End(g.live[k]) \in Nat /\ g.live[k].at = h.live[k].at
        OBVIOUS
      <4>1. g.live[k] = h.live[k]
        BY <1>5
      <4>2. h.live[k].at \in Nat /\ h.live[k].size \in Nat
        BY <1>6
      <4> QED
        BY <4>1, <4>2 DEF End
    <3>2. m # 0 => m \in 1..m /\ h.currentBytesUsed = h.live[m].at + h.live[m].size
      BY <1>1, <2>1
    <3> QED
      BY <1>3, <1>5, <3>1, <3>2
  <2>4. \A k \in 1..m : g.live[k + 1].at = End(g.live[k]) + HEADER_SIZE
    <3> SUFFICES ASSUME NEW k \in 1..m
                 PROVE  g.live[k + 1].at = End(g.live[k]) + HEADER_SIZE
      OBVIOUS
    <3>1. CASE k = m
      BY <1>1, <2>6, <3>1
    <3>2. CASE k < m
      <4>1. k \in 1..(m - 1) /\ k + 1 \in 1..m
        BY <1>1, <3>2
      <4> QED
        BY <2>1, <2>6, <4>1
    <3> QED
      BY <1>1, <3>1, <3>2
  <2>5. \A j, k \in 1..(m + 1) : j < k => End(g.live[j]) + HEADER_SIZE <= g.live[k].at
    <3> SUFFICES ASSUME NEW j \in 1..(m + 1), NEW k \in 1..(m + 1), j < k
                 PROVE  End(g.live[j]) + HEADER_SIZE <= g.live[k].at
      OBVIOUS
    <3>1. CASE k <= m
      <4>1. j \in 1..m /\ k \in 1..m
        BY <1>1, <3>1
      <4> QED
        BY <2>1, <2>6, <4>1
    <3>2. CASE k = m + 1 /\ j = m
      BY <1>0, <1>1, <2>6, <3>2
    <3>3. CASE k = m + 1 /\ j < m
      <4>1. j \in 1..m /\ m \in 1..m
        BY <1>1, <3>3
      <4>2. End(g.live[j]) + HEADER_SIZE <= h.live[m].at
        BY <2>1, <2>6, <3>3, <4>1
      <4>3. h.live[m].at <= End(g.live[m]) /\ h.live[m].at \in Nat
        BY <1>6, <2>6, <4>1
      <4>4. End(g.live[m]) + HEADER_SIZE = g.live[k].at
        BY <1>1, <2>6, <3>3, <4>1
      <4> QED
        BY <1>0, <2>6, <4>1, <4>2, <4>3, <4>4
    <3> QED
      BY <1>1, <3>1, <3>2, <3>3
  <2> QED
    BY <1>1, <1>5, <2>2, <2>3, <2>4, <2>5 DEF Stacked
<1>9. DOMAIN g = {"currentBytesUsed", "live", "count", "maxAllocationsCount", "misused"}
      /\ g.currentBytesUsed \in Nat
  BY <1>0, <1>1, <1>2 DEF IsHeap
<1>10. IsHeap(g)
  BY <1>5, <1>8, <1>9 DEF IsHeap
<1> QED
  BY <1>1, <1>2, <1>3, <1>5, <1>7, <1>10 DEF g, b

(* Freeing the block that was allocated last is what it was before.        *)
LEMMA FreedLast ==
    ASSUME NEW h, IsHeap(h), h.live # <<>>
    PROVE  LET g == DEFAULT_FREE(h, h.live[Len(h.live)])
               m == Len(h.live)
           IN
           /\ IsHeap(g) /\ g.misused = h.misused
           /\ m \in Nat \ {0} /\ DOMAIN h.live = 1..m
           /\ Len(g.live) = m - 1 /\ DOMAIN g.live = 1..(m - 1)
           /\ \A j \in DOMAIN g.live : g.live[j] = h.live[j]
<1> DEFINE m == Len(h.live)
<1> DEFINE b == h.live[m]
<1> DEFINE g == DEFAULT_FREE(h, b)
<1>0. HEADER_SIZE \in Nat \ {0} /\ MAX_HEAP_SIZE \in Nat
  BY HeapAssumption DEF HeapAssumption
<1>1. /\ h.currentBytesUsed \in Nat /\ h.live \in Seq(Block)
      /\ m \in Nat \ {0} /\ DOMAIN h.live = 1..m
  BY DEF IsHeap
<1>2. IsLast(h, b)
  BY <1>1 DEF IsLast, Last
<1>3. /\ DOMAIN g = DOMAIN h /\ g.misused = h.misused
      /\ g.currentBytesUsed = h.currentBytesUsed - b.size - HEADER_SIZE
      /\ g.live = Front(h.live)
  BY <1>2, Fields
<1>4. \A j \in 1..m : h.live[j].at \in Nat /\ h.live[j].size \in Nat
  BY <1>1, InOrder
<1>5. /\ h.currentBytesUsed = h.live[m].at + h.live[m].size
      /\ h.currentBytesUsed <= MAX_HEAP_SIZE
      /\ h.live[1].at = HEADER_SIZE
      /\ \A k \in 1..(m - 1) :
            h.live[k + 1].at = h.live[k].at + h.live[k].size + HEADER_SIZE
      /\ \A j, k \in 1..m :
            j < k => h.live[j].at + h.live[j].size + HEADER_SIZE <= h.live[k].at
  BY DEF IsHeap, Stacked, End
<1>6. b = h.live[m] /\ m = Len(h.live)
  OBVIOUS
<1> HIDE DEF g, b
<1>7. /\ g.live \in Seq(Block) /\ Len(g.live) = m - 1 /\ DOMAIN g.live = 1..(m - 1)
      /\ \A j \in 1..(m - 1) : g.live[j] = h.live[j]
  BY <1>1, <1>3 DEF Front
<1> HIDE DEF m
<1>8. g.currentBytesUsed = IF m = 1 THEN 0 ELSE h.live[m - 1].at + h.live[m - 1].size
  <2>1. CASE m = 1
    BY <1>0, <1>1, <1>3, <1>4, <1>5, <1>6, <2>1
  <2>2. CASE m > 1
    <3>1. m - 1 \in 1..(m - 1) /\ (m - 1) + 1 = m /\ m - 1 \in 1..m /\ m \in 1..m
      BY <1>1, <2>2
    <3>2. h.live[m].at = h.live[m - 1].at + h.live[m - 1].size + HEADER_SIZE
      BY <1>5, <3>1
    <3> DEFINE x == h.live[m].at
    <3> DEFINE y == h.live[m].size
    <3> DEFINE z == h.live[m - 1].at + h.live[m - 1].size
    <3>3. x \in Nat /\ y \in Nat /\ z \in Nat /\ x = z + HEADER_SIZE
      <4>1. /\ h.live[m].at \in Nat /\ h.live[m].size \in Nat
            /\ h.live[m - 1].at \in Nat /\ h.live[m - 1].size \in Nat
        BY <1>4, <3>1
      <4>2. z \in Nat
        BY <4>1
      <4> QED
        BY <3>2, <4>1, <4>2
    <3>4. g.currentBytesUsed = (x + y) - y - HEADER_SIZE
      BY <1>3, <1>5, <1>6
    <3>5. m # 1
      BY <2>2
    <3> HIDE DEF x, y, z
    <3>6. (x + y) - y - HEADER_SIZE = z
      BY <1>0, <3>3
    <3> QED
      BY <3>4, <3>5, <3>6 DEF z
  <2> QED
    BY <1>1, <2>1, <2>2
<1>9. g.currentBytesUsed \in Nat /\ g.currentBytesUsed <= MAX_HEAP_SIZE
  <2>1. CASE m = 1
    BY <1>0, <1>8, <2>1
  <2>2. CASE m > 1
    <3>1. g.currentBytesUsed = h.live[m - 1].at + h.live[m - 1].size /\ m - 1 \in 1..m
      BY <1>1, <1>8, <2>2
    <3>2. b.size \in Nat /\ g.currentBytesUsed \in Nat
      BY <1>1, <1>4, <1>6, <3>1, SMTT(30)
    <3>3. g.currentBytesUsed <= h.currentBytesUsed
      BY <1>0, <1>1, <1>3, <3>2
    <3> QED
      BY <1>0, <1>1, <1>5, <3>2, <3>3
  <2> QED
    BY <1>1, <2>1, <2>2
<1>10. Stacked(g)
  <2>1. g.live = <<>> <=> m = 1
    BY <1>1, <1>7
  <2>2. g.currentBytesUsed = IF g.live = <<>> THEN 0 ELSE End(g.live[Len(g.live)])
    BY <1>1, <1>7, <1>8, <2>1 DEF End
  <2>3. QED
    <3>1. g.live # <<>> => g.live[1].at = HEADER_SIZE
      BY <1>1, <1>5, <1>7, <2>1
    <3>2. \A j \in 1..(m - 1) : End(g.live[j]) = h.live[j].at + h.live[j].size
      BY <1>7 DEF End
    <3>3. ASSUME NEW k \in 1..((m - 1) - 1)
          PROVE  g.live[k + 1].at = End(g.live[k]) + HEADER_SIZE
      <4>1. k \in 1..(m - 1) /\ k + 1 \in 1..(m - 1)
        BY <1>1
      <4>2. g.live[k + 1] = h.live[k + 1]
        BY <1>7, <4>1
      <4> QED
        BY <1>5, <3>2, <4>1, <4>2
    <3>4. ASSUME NEW j \in 1..(m - 1), NEW k \in 1..(m - 1), j < k
          PROVE  End(g.live[j]) + HEADER_SIZE <= g.live[k].at
      <4>1. j \in 1..m /\ k \in 1..m
        BY <1>1
      <4>2. g.live[k] = h.live[k]
        BY <1>7
      <4> QED
        BY <1>5, <3>2, <3>4, <4>1, <4>2
    <3> QED
      BY <1>7, <1>9, <2>2, <3>1, <3>3, <3>4 DEF Stacked
<1>11. DOMAIN g = {"currentBytesUsed", "live", "count", "maxAllocationsCount", "misused"}
  BY <1>3 DEF IsHeap
<1>12. IsHeap(g)
  BY <1>7, <1>9, <1>10, <1>11 DEF IsHeap
<1> QED
  BY <1>1, <1>3, <1>6, <1>7, <1>12 DEF g, b

-----------------------------------------------------------------------------
(* The stack.  The call at the top becomes k frames: f, g and e.           *)
Grown(k, f, g, e) ==
    /\ k \in 0..3 /\ stack' \in Seq(Frames)
    /\ Len(stack') = Len(stack) - 1 + k
    /\ \A i \in 1..(Len(stack) - 1) : stack'[i] = stack[i]
    /\ k >= 1 => stack'[Len(stack)] = f
    /\ k >= 2 => stack'[Len(stack) + 1] = g
    /\ k >= 3 => stack'[Len(stack) + 2] = e

LEMMA Replaced ==
    ASSUME stack \in Seq(Frames), stack # <<>>, NEW fs \in Seq(Frames), Becomes(fs)
    PROVE  /\ stack' \in Seq(Frames) /\ Len(stack) \in Nat \ {0} /\ Len(fs) \in Nat
           /\ Len(stack') = Len(stack) - 1 + Len(fs)
           /\ \A i \in 1..(Len(stack) - 1) : stack'[i] = stack[i]
           /\ \A j \in 1..Len(fs) : stack'[Len(stack) - 1 + j] = fs[j]
<1> DEFINE s == Front(stack)
<1> DEFINE n == Len(stack) - 1
<1>1. Len(stack) \in Nat \ {0} /\ n \in Nat
  OBVIOUS
<1>2. s \in Seq(Frames) /\ Len(s) = n
      /\ \A i \in 1..n : s[i] = stack[i]
  <2>1. s = SubSeq(stack, 1, n)
    BY DEF Front
  <2>2. n \in 0..Len(stack)
    BY <1>1
  <2> HIDE DEF s, n
  <2>3. /\ SubSeq(stack, 1, n) \in Seq(Frames)
        /\ Len(SubSeq(stack, 1, n)) = IF 1 <= n THEN n - 1 + 1 ELSE 0
        /\ \A i \in 1..(n - 1 + 1) : SubSeq(stack, 1, n)[i] = stack[1 + i - 1]
    BY <2>2, <1>1
  <2>4. \A i \in 1..n : i \in 1..(n - 1 + 1) /\ 1 + i - 1 = i
    BY <1>1
  <2> QED
    BY <1>1, <2>1, <2>3, <2>4
<1>3. stack' = s \o fs /\ Len(fs) \in Nat
  BY DEF Becomes
<1> HIDE DEF s, n
<1>4. s \o fs \in Seq(Frames) /\ Len(s \o fs) = n + Len(fs)
      /\ \A i \in 1..(n + Len(fs)) :
            (s \o fs)[i] = IF i <= n THEN s[i] ELSE fs[i - n]
  BY <1>1, <1>2, <1>3, ConcatProperties
<1>5. ASSUME NEW i \in 1..n PROVE stack'[i] = stack[i]
  <2>1. i \in 1..(n + Len(fs)) /\ i <= n
    BY <1>1, <1>3
  <2> QED
    BY <1>2, <1>3, <1>4, <2>1
<1>6. ASSUME NEW j \in 1..Len(fs) PROVE stack'[n + j] = fs[j]
  <2>1. n + j \in 1..(n + Len(fs)) /\ ~(n + j <= n) /\ (n + j) - n = j
    BY <1>1, <1>3
  <2> QED
    BY <1>3, <1>4, <2>1
<1> QED
  BY <1>1, <1>3, <1>4, <1>5, <1>6 DEF n

LEMMA Grow ==
    ASSUME stack \in Seq(Frames), stack # <<>>
    PROVE  /\ Becomes(<<>>) => Grown(0, Log, Log, Log)
           /\ \A f \in Frames : Becomes(<<f>>) => Grown(1, f, Log, Log)
           /\ \A f, g \in Frames : Becomes(<<f, g>>) => Grown(2, f, g, Log)
           /\ \A f, g, e \in Frames : Becomes(<<f, g, e>>) => Grown(3, f, g, e)
<1>1. ASSUME Becomes(<<>>) PROVE Grown(0, Log, Log, Log)
  <2>1. <<>> \in Seq(Frames) /\ Len(<<>>) = 0
    OBVIOUS
  <2>2. Len(stack) \in Nat \ {0} /\ stack' \in Seq(Frames)
        /\ Len(stack') = Len(stack) - 1 + 0
        /\ \A i \in 1..(Len(stack) - 1) : stack'[i] = stack[i]
    BY <1>1, <2>1, Replaced
  <2> QED
    BY <2>2 DEF Grown
<1>2. ASSUME NEW f \in Frames, Becomes(<<f>>) PROVE Grown(1, f, Log, Log)
  <2> DEFINE fs == <<f>>
  <2>1. fs \in Seq(Frames) /\ Len(fs) = 1 /\ fs[1] = f
    OBVIOUS
  <2>2. Becomes(fs)
    BY <1>2
  <2> HIDE DEF fs
  <2>3. /\ Len(stack) \in Nat \ {0} /\ stack' \in Seq(Frames)
        /\ Len(stack') = Len(stack) - 1 + 1
        /\ \A i \in 1..(Len(stack) - 1) : stack'[i] = stack[i]
        /\ \A j \in 1..1 : stack'[Len(stack) - 1 + j] = fs[j]
    BY <2>1, <2>2, Replaced
  <2>4. stack'[Len(stack)] = fs[1]
    BY <2>3
  <2> QED
    BY <2>1, <2>3, <2>4 DEF Grown
<1>3. ASSUME NEW f \in Frames, NEW g \in Frames, Becomes(<<f, g>>)
      PROVE  Grown(2, f, g, Log)
  <2> DEFINE fs == <<f, g>>
  <2>1. fs \in Seq(Frames) /\ Len(fs) = 2 /\ fs[1] = f /\ fs[2] = g
    OBVIOUS
  <2>2. Becomes(fs)
    BY <1>3
  <2> HIDE DEF fs
  <2>3. /\ Len(stack) \in Nat \ {0} /\ stack' \in Seq(Frames)
        /\ Len(stack') = Len(stack) - 1 + 2
        /\ \A i \in 1..(Len(stack) - 1) : stack'[i] = stack[i]
        /\ \A j \in 1..2 : stack'[Len(stack) - 1 + j] = fs[j]
    BY <2>1, <2>2, Replaced
  <2>4. stack'[Len(stack)] = fs[1] /\ stack'[Len(stack) + 1] = fs[2]
    BY <2>3
  <2> QED
    BY <2>1, <2>3, <2>4 DEF Grown
<1>4. ASSUME NEW f \in Frames, NEW g \in Frames, NEW e \in Frames, Becomes(<<f, g, e>>)
      PROVE  Grown(3, f, g, e)
  <2> DEFINE fs == <<f, g, e>>
  <2>1. fs \in Seq(Frames) /\ Len(fs) = 3 /\ fs[1] = f /\ fs[2] = g /\ fs[3] = e
    OBVIOUS
  <2>2. Becomes(fs)
    BY <1>4
  <2> HIDE DEF fs
  <2>3. /\ Len(stack) \in Nat \ {0} /\ stack' \in Seq(Frames)
        /\ Len(stack') = Len(stack) - 1 + 3
        /\ \A i \in 1..(Len(stack) - 1) : stack'[i] = stack[i]
        /\ \A j \in 1..3 : stack'[Len(stack) - 1 + j] = fs[j]
    BY <2>1, <2>2, Replaced
  <2>4. stack'[Len(stack)] = fs[1] /\ stack'[Len(stack) + 1] = fs[2] /\ stack'[Len(stack) + 2] = fs[3]
    BY <2>3
  <2> QED
    BY <2>1, <2>3, <2>4 DEF Grown
<1> QED
  BY <1>1, <1>2, <1>3, <1>4

LEMMA ConcatIs ==
    ASSUME NEW S, NEW s \in Seq(S), NEW t \in Seq(S), NEW v \in Seq(S),
           Len(v) = Len(s) + Len(t),
           \A i \in 1..Len(s) : v[i] = s[i],
           \A i \in 1..Len(t) : v[Len(s) + i] = t[i]
    PROVE  s \o t = v
<1>1. /\ s \o t \in Seq(S) /\ Len(s \o t) = Len(s) + Len(t)
      /\ Len(s) \in Nat /\ Len(t) \in Nat
      /\ \A i \in 1..(Len(s) + Len(t)) :
            (s \o t)[i] = IF i <= Len(s) THEN s[i] ELSE t[i - Len(s)]
  OBVIOUS
<1>2. ASSUME NEW i \in 1..Len(s \o t) PROVE (s \o t)[i] = v[i]
  <2>1. CASE i <= Len(s)
    <3>1. i \in 1..Len(s)
      BY <1>1, <2>1
    <3> QED
      BY <1>1, <2>1, <3>1
  <2>2. CASE i > Len(s)
    <3>1. i - Len(s) \in 1..Len(t) /\ Len(s) + (i - Len(s)) = i
      BY <1>1, <2>2
    <3> QED
      BY <1>1, <2>2, <3>1
  <2> QED
    BY <1>1, <2>1, <2>2
<1> QED
  BY <1>1, <1>2, SeqEqual

(* The forms in which the code's actions give the frames.                  *)
LEMMA Tuples ==
    /\ \A a : <<a>> \o <<>> = <<a>>
    /\ \A a, b : <<a>> \o <<b>> = <<a, b>> /\ <<>> \o <<a, b>> = <<a, b>>
                   /\ <<a, b>> \o <<>> = <<a, b>>
    /\ \A a, b, c : <<a, b>> \o <<c>> = <<a, b, c>> /\ <<a>> \o <<b, c>> = <<a, b, c>>
    /\ <<>> \o <<>> = <<>>
<1>1. ASSUME NEW a PROVE <<a>> \o <<>> = <<a>>
  <2>1. <<a>> \in Seq({a})
    OBVIOUS
  <2> QED
    BY <2>1, ConcatEmptySeq
<1>2. ASSUME NEW a, NEW b
      PROVE  <<a>> \o <<b>> = <<a, b>> /\ <<>> \o <<a, b>> = <<a, b>>
               /\ <<a, b>> \o <<>> = <<a, b>>
  <2>1. <<a, b>> \in Seq({a, b}) /\ <<a>> \in Seq({a, b}) /\ <<b>> \in Seq({a, b})
    OBVIOUS
  <2>2. /\ Len(<<a, b>>) = Len(<<a>>) + Len(<<b>>)
        /\ \A i \in 1..Len(<<a>>) : <<a, b>>[i] = <<a>>[i]
        /\ \A i \in 1..Len(<<b>>) : <<a, b>>[Len(<<a>>) + i] = <<b>>[i]
    <3>1. Len(<<a, b>>) = Len(<<a>>) + Len(<<b>>)
      OBVIOUS
    <3>2. \A i \in 1..Len(<<a>>) : <<a, b>>[i] = <<a>>[i]
      OBVIOUS
    <3>3. \A i \in 1..Len(<<b>>) : <<a, b>>[Len(<<a>>) + i] = <<b>>[i]
      OBVIOUS
    <3> QED
      BY <3>1, <3>2, <3>3
  <2>3. <<a>> \o <<b>> = <<a, b>>
    BY <2>1, <2>2, ConcatIs, Zenon
  <2> QED
    BY <2>1, <2>3, ConcatEmptySeq
<1>3. ASSUME NEW a, NEW b, NEW c
      PROVE  <<a, b>> \o <<c>> = <<a, b, c>> /\ <<a>> \o <<b, c>> = <<a, b, c>>
  <2> DEFINE S == {a, b, c}
  <2>0. a \in S /\ b \in S /\ c \in S
    OBVIOUS
  <2> HIDE DEF S
  <2>1. /\ <<a, b, c>> \in Seq(S) /\ <<a, b>> \in Seq(S)
        /\ <<a>> \in Seq(S) /\ <<b, c>> \in Seq(S) /\ <<c>> \in Seq(S)
    BY <2>0
  <2>2. /\ Len(<<a, b, c>>) = Len(<<a>>) + Len(<<b, c>>)
        /\ \A i \in 1..Len(<<a>>) : <<a, b, c>>[i] = <<a>>[i]
        /\ \A i \in 1..Len(<<b, c>>) : <<a, b, c>>[Len(<<a>>) + i] = <<b, c>>[i]
    OBVIOUS
  <2>3. /\ Len(<<a, b, c>>) = Len(<<a, b>>) + Len(<<c>>)
        /\ \A i \in 1..Len(<<a, b>>) : <<a, b, c>>[i] = <<a, b>>[i]
        /\ \A i \in 1..Len(<<c>>) : <<a, b, c>>[Len(<<a, b>>) + i] = <<c>>[i]
    <3>1. \A i \in 1..Len(<<a, b>>) : <<a, b, c>>[i] = <<a, b>>[i]
      <4>1. \A i \in 1..Len(<<a, b>>) : i = 1 \/ i = 2
        OBVIOUS
      <4> QED
        BY <4>1
    <3>2. Len(<<a, b, c>>) = Len(<<a, b>>) + Len(<<c>>)
      OBVIOUS
    <3>3. \A i \in 1..Len(<<c>>) : <<a, b, c>>[Len(<<a, b>>) + i] = <<c>>[i]
      OBVIOUS
    <3> QED
      BY <3>1, <3>2, <3>3
  <2>4. <<a>> \o <<b, c>> = <<a, b, c>>
    BY <2>1, <2>2, ConcatIs, Zenon
  <2>5. <<a, b>> \o <<c>> = <<a, b, c>>
    BY <2>1, <2>3, ConcatIs, Zenon
  <2> QED
    BY <2>4, <2>5
<1>4. <<>> \o <<>> = <<>>
  BY ConcatEmptySeq, EmptySeq
<1> QED
  BY <1>1, <1>2, <1>3, <1>4

LEMMA Positions ==
    ASSUME stack \in Seq(Frames), stack # <<>>, NEW k, NEW f, NEW g, NEW e,
           Grown(k, f, g, e)
    PROVE  /\ Len(stack) \in Nat \ {0} /\ DOMAIN stack = 1..Len(stack)
           /\ DOMAIN stack' = 1..Len(stack')
           /\ Len(stack') = Len(stack) - 1 + k /\ Len(stack') \in Nat
           /\ \A i \in DOMAIN stack' :
                 \/ i \in 1..(Len(stack) - 1) /\ i \in DOMAIN stack /\ stack'[i] = stack[i]
                 \/ k >= 1 /\ i = Len(stack) /\ stack'[i] = f
                 \/ k >= 2 /\ i = Len(stack) + 1 /\ stack'[i] = g
                 \/ k = 3 /\ i = Len(stack) + 2 /\ stack'[i] = e
           /\ \A i \in 1..(Len(stack) - 1) :
                 i \in DOMAIN stack /\ i \in DOMAIN stack' /\ stack'[i] = stack[i]
           /\ k >= 1 => Len(stack) \in DOMAIN stack' /\ stack'[Len(stack)] = f
           /\ k >= 2 => Len(stack) + 1 \in DOMAIN stack' /\ stack'[Len(stack) + 1] = g
           /\ k >= 3 => Len(stack) + 2 \in DOMAIN stack' /\ stack'[Len(stack) + 2] = e
           /\ k \in 0..3
<1>1. /\ Len(stack) \in Nat \ {0} /\ DOMAIN stack = 1..Len(stack)
      /\ DOMAIN stack' = 1..Len(stack') /\ Len(stack') \in Nat
  BY DEF Grown
<1>2. /\ k \in 0..3 /\ Len(stack') = Len(stack) - 1 + k
      /\ \A i \in 1..(Len(stack) - 1) : stack'[i] = stack[i]
      /\ k >= 1 => stack'[Len(stack)] = f
      /\ k >= 2 => stack'[Len(stack) + 1] = g
      /\ k >= 3 => stack'[Len(stack) + 2] = e
  BY DEF Grown
<1>3. ASSUME NEW i \in DOMAIN stack'
      PROVE  \/ i \in 1..(Len(stack) - 1) /\ i \in DOMAIN stack /\ stack'[i] = stack[i]
             \/ k >= 1 /\ i = Len(stack) /\ stack'[i] = f
             \/ k >= 2 /\ i = Len(stack) + 1 /\ stack'[i] = g
             \/ k = 3 /\ i = Len(stack) + 2 /\ stack'[i] = e
  <2>1. i \in Nat /\ i >= 1 /\ i <= Len(stack) - 1 + k
    BY <1>1, <1>2
  <2>2. \/ i \in 1..(Len(stack) - 1) /\ i \in 1..Len(stack)
        \/ k >= 1 /\ i = Len(stack)
        \/ k >= 2 /\ i = Len(stack) + 1
        \/ k = 3 /\ i = Len(stack) + 2
    BY <1>1, <1>2, <2>1
  <2> QED
    BY <1>1, <1>2, <2>2
<1>4. ASSUME NEW i \in 1..(Len(stack) - 1)
      PROVE  i \in DOMAIN stack /\ i \in DOMAIN stack' /\ stack'[i] = stack[i]
  BY <1>1, <1>2
<1>5. k >= 1 => Len(stack) \in DOMAIN stack'
  BY <1>1, <1>2
<1>6. k >= 2 => Len(stack) + 1 \in DOMAIN stack'
  BY <1>1, <1>2
<1>7. k >= 3 => Len(stack) + 2 \in DOMAIN stack'
  BY <1>1, <1>2
<1> QED
  BY <1>1, <1>2, <1>3, <1>4, <1>5, <1>6, <1>7

(* Which frames may follow the one at the top.                             *)
Fits(k, f, g, e) ==
    /\ FrameOK(f) /\ FrameOK(g) /\ FrameOK(e)
    /\ AtTop(f) => k = 1
    /\ AtTop(g) => k = 2
    /\ AtTop(e) => k = 3
    /\ Bottom(f) => Bottom(Top)
    /\ ~Bottom(g) /\ ~Bottom(e)

LEMMA TopFrame ==
    ASSUME StackOK, stack # <<>>
    PROVE  /\ Len(stack) \in Nat \ {0} /\ Len(stack) \in DOMAIN stack
           /\ Top = stack[Len(stack)] /\ Top \in Frames /\ FrameOK(Top)
           /\ Bottom(Top) => Len(stack) = 1
           /\ stack \in Seq(Frames)
<1>1. /\ stack \in Seq(Frames) /\ Len(stack) \in Nat \ {0}
      /\ Len(stack) \in DOMAIN stack /\ Top = stack[Len(stack)]
  BY DEF StackOK, Top, Last
<1>2. stack[Len(stack)] \in Frames
  BY <1>1
<1>3. FrameOK(stack[Len(stack)]) /\ (Bottom(stack[Len(stack)]) => Len(stack) = 1)
  BY <1>1 DEF StackOK
<1> QED
  BY <1>1, <1>2, <1>3

LEMMA StackKept ==
    ASSUME StackOK, stack # <<>>, NEW k, NEW f, NEW g, NEW e,
           Grown(k, f, g, e), Fits(k, f, g, e)
    PROVE  StackOK'
<1>1. stack' \in Seq(Frames) /\ stack \in Seq(Frames)
  BY DEF Grown, StackOK
<1>2. ASSUME NEW i \in DOMAIN stack', NEW t, t = stack'[i]
      PROVE  FrameOK(t) /\ (AtTop(t) => i = Len(stack')) /\ (Bottom(t) => i = 1)
  <2>1. Bottom(Top) => Len(stack) = 1
    BY TopFrame
  <2>2. CASE i \in 1..(Len(stack) - 1) /\ i \in DOMAIN stack /\ stack'[i] = stack[i]
    <3>1. t = stack[i] /\ i # Len(stack)
      BY <1>1, <1>2, <2>2
    <3> QED
      BY <2>2, <3>1 DEF StackOK
  <2>3. CASE k >= 1 /\ i = Len(stack) /\ stack'[i] = f
    BY <1>1, <1>2, <2>1, <2>3, Positions DEF Fits
  <2>4. CASE k >= 2 /\ i = Len(stack) + 1 /\ stack'[i] = g
    BY <1>1, <1>2, <2>4, Positions DEF Fits
  <2>5. CASE k = 3 /\ i = Len(stack) + 2 /\ stack'[i] = e
    BY <1>1, <1>2, <2>5, Positions DEF Fits
  <2> QED
    BY <1>1, <1>2, <2>2, <2>3, <2>4, <2>5, Positions
<1> QED
  BY <1>1, <1>2 DEF StackOK

(* The packets that the frames at the top stand for.                       *)
Counts(f, g, e) ==
    /\ packets' = packets /\ guaranteed' = guaranteed
    /\ e.at \notin Active
    /\ \/ /\ inbox' = inbox /\ enabled' = enabled /\ g.at \notin Active
          /\ f.at \in Active => Top.at \in Active
       \/ /\ inbox # <<>> /\ inbox' = Tail(inbox) /\ enabled' = enabled
          /\ f.at \notin Active
       \/ /\ inbox' = inbox /\ enabled' \in {enabled, enabled + 1}
          /\ Top.at \in Active /\ f.at \notin Active /\ g.at \notin Active

LEMMA PendingFinite ==
    ASSUME stack \in Seq(Frames)
    PROVE  IsFiniteSet(Pending) /\ Cardinality(Pending) \in Nat
<1>1. Pending \subseteq 1..Len(stack) /\ Len(stack) \in Nat
  BY DEF Pending
<1>2. IsFiniteSet(1..Len(stack))
  BY <1>1, FS_Interval
<1> QED
  BY <1>1, <1>2, FS_Subset, FS_CardinalityType

LEMMA CountKept ==
    ASSUME StackOK, CountInv, stack # <<>>, NEW k, NEW f, NEW g, NEW e,
           Grown(k, f, g, e), Counts(f, g, e)
    PROVE  CountInv'
<1> DEFINE n == Len(stack)
<1>1. stack' \in Seq(Frames) /\ stack \in Seq(Frames)
  BY DEF Grown, StackOK
<1>2. /\ IsFiniteSet(Pending) /\ Cardinality(Pending) \in Nat
      /\ IsFiniteSet(Pending') /\ Cardinality(Pending') \in Nat
  <2>1. /\ Pending \subseteq 1..Len(stack) /\ Len(stack) \in Nat
        /\ Pending' \subseteq 1..Len(stack') /\ Len(stack') \in Nat
    BY <1>1 DEF Pending
  <2>2. IsFiniteSet(1..Len(stack)) /\ IsFiniteSet(1..Len(stack'))
    BY <2>1, FS_Interval
  <2> QED
    BY <2>1, <2>2, FS_Subset, FS_CardinalityType
<1>3. \A i : i \in Pending <=> i \in DOMAIN stack /\ stack[i].at \in Active
  BY DEF Pending
<1>4. \A i : i \in Pending' <=> i \in DOMAIN stack' /\ stack'[i].at \in Active
  BY DEF Pending
<1>5. n \in Nat \ {0} /\ n \in DOMAIN stack /\ Top = stack[n]
  BY TopFrame
<1>6. /\ inbox \in Seq(OnLine) /\ packets \in 0..MaxPackets /\ enabled \in Nat
      /\ guaranteed \in Nat /\ Len(inbox) \in Nat
      /\ enabled + Cardinality(Pending) + Len(inbox) <= packets
  BY DEF CountInv
<1>6a. /\ \A i \in DOMAIN stack' :
            \/ i \in 1..(n - 1) /\ i \in DOMAIN stack /\ stack'[i] = stack[i]
            \/ k >= 1 /\ i = n /\ stack'[i] = f
            \/ k >= 2 /\ i = n + 1 /\ stack'[i] = g
            \/ k = 3 /\ i = n + 2 /\ stack'[i] = e
      /\ k \in 0..3
  <2>1. stack \in Seq(Frames)
    BY DEF StackOK
  <2> QED
    BY <2>1, Positions
<1> DEFINE c == Cardinality(Pending)
<1> DEFINE d == Cardinality(Pending')
<1>7. CASE /\ inbox' = inbox /\ enabled' = enabled /\ g.at \notin Active
           /\ f.at \in Active => Top.at \in Active
  <2>1. e.at \notin Active /\ packets' = packets /\ guaranteed' = guaranteed
    BY DEF Counts
  <2>2. Pending' \subseteq Pending
    <3> SUFFICES ASSUME NEW i \in Pending' PROVE i \in Pending
      OBVIOUS
    <3>1. i \in DOMAIN stack' /\ stack'[i].at \in Active
      BY <1>4
    <3> QED
      BY <1>3, <1>5, <1>7, <1>6a, <2>1, <3>1
  <2>3. d <= c
    BY <1>2, <2>2, FS_Subset
  <2> HIDE DEF c, d
  <2>4. c \in Nat /\ d \in Nat
    BY <1>2 DEF c, d
  <2>5. enabled + c + Len(inbox) <= packets
    BY <1>6 DEF c
  <2>6. enabled' + d + Len(inbox') <= packets'
    BY <1>6, <1>7, <2>1, <2>3, <2>4, <2>5
  <2> QED
    BY <1>6, <1>7, <2>1, <2>6 DEF CountInv, d
<1>8. CASE /\ inbox # <<>> /\ inbox' = Tail(inbox) /\ enabled' = enabled
           /\ f.at \notin Active
  <2>1. e.at \notin Active /\ packets' = packets /\ guaranteed' = guaranteed
    BY DEF Counts
  <2>2. Pending' \subseteq Pending \cup {n + 1}
    <3> SUFFICES ASSUME NEW i \in Pending' PROVE i \in Pending \/ i = n + 1
      OBVIOUS
    <3>1. i \in DOMAIN stack' /\ stack'[i].at \in Active
      BY <1>4
    <3> QED
      BY <1>3, <1>5, <1>8, <1>6a, <2>1, <3>1
  <2>3. /\ IsFiniteSet(Pending \cup {n + 1})
        /\ Cardinality(Pending \cup {n + 1}) \in {c, c + 1}
    BY <1>2, FS_AddElement
  <2>4. d <= Cardinality(Pending \cup {n + 1})
    BY <2>2, <2>3, FS_Subset
  <2> HIDE DEF c, d
  <2>5. c \in Nat /\ d \in Nat
    BY <1>2 DEF c, d
  <2>6. d <= c + 1
    BY <2>3, <2>4, <2>5
  <2>7. inbox' \in Seq(OnLine) /\ Len(inbox') = Len(inbox) - 1 /\ Len(inbox) >= 1
    BY <1>6, <1>8
  <2>8. enabled + c + Len(inbox) <= packets
    BY <1>6 DEF c
  <2>9. enabled' + d + Len(inbox') <= packets'
    BY <1>6, <1>8, <2>1, <2>5, <2>6, <2>7, <2>8
  <2> QED
    BY <1>6, <1>8, <2>1, <2>7, <2>9 DEF CountInv, d
<1>9. CASE /\ inbox' = inbox /\ enabled' \in {enabled, enabled + 1}
           /\ Top.at \in Active /\ f.at \notin Active /\ g.at \notin Active
  <2>1. e.at \notin Active /\ packets' = packets /\ guaranteed' = guaranteed
    BY DEF Counts
  <2>2. Pending' \subseteq Pending \ {n} /\ n \in Pending
    <3>1. ASSUME NEW i \in Pending' PROVE i \in Pending /\ i # n
      <4>1. i \in DOMAIN stack' /\ stack'[i].at \in Active
        BY <1>4
      <4>2. \A j \in 1..(n - 1) : j # n
        BY <1>5
      <4> QED
        BY <1>3, <1>9, <1>6a, <2>1, <4>1, <4>2
    <3> QED
      BY <1>3, <1>5, <1>9, <3>1
  <2>3. IsFiniteSet(Pending \ {n}) /\ Cardinality(Pending \ {n}) = c - 1
    BY <1>2, <2>2, FS_RemoveElement
  <2>4. d <= Cardinality(Pending \ {n})
    BY <2>2, <2>3, FS_Subset
  <2> HIDE DEF c, d
  <2>5. c \in Nat /\ d \in Nat
    BY <1>2 DEF c, d
  <2>6. d <= c - 1
    BY <2>3, <2>4
  <2>7. enabled + c + Len(inbox) <= packets
    BY <1>6 DEF c
  <2>8. enabled' \in Nat /\ enabled' <= enabled + 1
    BY <1>6, <1>9
  <2>9. enabled' + d + Len(inbox') <= packets'
    BY <1>6, <1>9, <2>1, <2>5, <2>6, <2>7, <2>8
  <2> QED
    BY <1>6, <1>9, <2>1, <2>8, <2>9 DEF CountInv, d
<1> QED
  BY <1>7, <1>8, <1>9 DEF Counts

(* What a handler finds in readbuf, before the server gets logs.           *)
Keeps(k, f, g, e) ==
    enabled = 0 /\ enabled' = 0 =>
        /\ serverLoggingEnabled = 0 => serverLoggingEnabled' = 0
        /\ contents' = contents \/ Top.at = "read"
        /\ Top.at \in {"log", "emit"} /\ serverLoggingEnabled = 0 =>
             k <= 1 /\ f.at \in {"log", "emit"}
        /\ f.at \in Active =>
             /\ f.n = Top.n /\ Top.at \in Active
             /\ g.at \in {"log", "emit"} /\ e.at \in {"log", "emit"}
        /\ g.at \in Active =>
             g.n = contents' /\ Top.at = "read" /\ e.at \in {"log", "emit"}
        /\ e.at \notin Active

LEMMA PayloadKept ==
    ASSUME StackOK, PayloadInv, stack # <<>>, NEW k, NEW f, NEW g, NEW e,
           Grown(k, f, g, e), Keeps(k, f, g, e), enabled' = 0 => enabled = 0
    PROVE  PayloadInv'
<1> DEFINE n == Len(stack)
<1> SUFFICES ASSUME enabled' = 0
             PROVE  /\ serverLoggingEnabled' = 0
                    /\ \A i \in DOMAIN stack' : stack'[i].at \in Active =>
                          /\ stack'[i].n = contents'
                          /\ \A j \in DOMAIN stack' : j > i => stack'[j].at \in {"log", "emit"}
  BY DEF PayloadInv
<1>1. /\ serverLoggingEnabled = 0
      /\ \A i \in DOMAIN stack : stack[i].at \in Active =>
            /\ stack[i].n = contents
            /\ \A j \in DOMAIN stack : j > i => stack[j].at \in {"log", "emit"}
  BY DEF PayloadInv
<1>2. /\ serverLoggingEnabled' = 0
      /\ contents' = contents \/ Top.at = "read"
      /\ Top.at \in {"log", "emit"} => k <= 1 /\ f.at \in {"log", "emit"}
      /\ f.at \in Active =>
           /\ f.n = Top.n /\ Top.at \in Active
           /\ g.at \in {"log", "emit"} /\ e.at \in {"log", "emit"}
      /\ g.at \in Active =>
           g.n = contents' /\ Top.at = "read" /\ e.at \in {"log", "emit"}
      /\ e.at \notin Active
  BY <1>1 DEF Keeps
<1>3. n \in Nat \ {0} /\ n \in DOMAIN stack /\ Top = stack[n] /\ "read" \notin Active
  BY TopFrame DEF Active
<1>6a. /\ \A i \in DOMAIN stack' :
            \/ i \in 1..(n - 1) /\ i \in DOMAIN stack /\ stack'[i] = stack[i]
            \/ k >= 1 /\ i = n /\ stack'[i] = f
            \/ k >= 2 /\ i = n + 1 /\ stack'[i] = g
            \/ k = 3 /\ i = n + 2 /\ stack'[i] = e
      /\ k \in 0..3
  <2>1. stack \in Seq(Frames)
    BY DEF StackOK
  <2> QED
    BY <2>1, Positions
<1>4. ASSUME NEW i \in DOMAIN stack', stack'[i].at \in Active
      PROVE  /\ stack'[i].n = contents'
             /\ \A j \in DOMAIN stack' : j > i => stack'[j].at \in {"log", "emit"}
  <2>1. CASE i \in 1..(n - 1) /\ i \in DOMAIN stack /\ stack'[i] = stack[i]
    <3>1. /\ stack[i].n = contents
          /\ \A j \in DOMAIN stack : j > i => stack[j].at \in {"log", "emit"}
      BY <1>1, <1>4, <2>1
    <3>2. n > i
      BY <1>3, <2>1
    <3>3. Top.at \in {"log", "emit"}
      BY <1>3, <3>1, <3>2
    <3>4. contents' = contents /\ k <= 1 /\ f.at \in {"log", "emit"}
      BY <1>2, <3>3
    <3>5. ASSUME NEW j \in DOMAIN stack', j > i PROVE stack'[j].at \in {"log", "emit"}
      <4>1. CASE j \in 1..(n - 1) /\ j \in DOMAIN stack /\ stack'[j] = stack[j]
        BY <3>1, <3>5, <4>1
      <4>2. CASE k >= 1 /\ j = n /\ stack'[j] = f
        BY <3>4, <4>2
      <4> QED
        BY <1>6a, <3>4, <4>1, <4>2
    <3> QED
      BY <2>1, <3>1, <3>4, <3>5
  <2>2. CASE k >= 1 /\ i = n /\ stack'[i] = f
    <3>1. /\ f.n = Top.n /\ Top.at \in Active
          /\ g.at \in {"log", "emit"} /\ e.at \in {"log", "emit"}
      BY <1>2, <1>4, <2>2
    <3>2. Top.n = contents /\ contents' = contents
      BY <1>1, <1>2, <1>3, <3>1
    <3>3. ASSUME NEW j \in DOMAIN stack', j > i PROVE stack'[j].at \in {"log", "emit"}
      <4>1. ~(j \in 1..(n - 1)) /\ j # n
        BY <1>3, <2>2, <3>3
      <4> QED
        BY <1>6a, <3>1, <4>1
    <3> QED
      BY <2>2, <3>1, <3>2, <3>3
  <2>3. CASE k >= 2 /\ i = n + 1 /\ stack'[i] = g
    <3>1. g.n = contents' /\ e.at \in {"log", "emit"}
      BY <1>2, <1>4, <2>3
    <3>2. ASSUME NEW j \in DOMAIN stack', j > i PROVE stack'[j].at \in {"log", "emit"}
      <4>1. ~(j \in 1..(n - 1)) /\ j # n /\ j # n + 1
        BY <1>3, <2>3, <3>2
      <4> QED
        BY <1>6a, <3>1, <4>1
    <3> QED
      BY <2>3, <3>1, <3>2
  <2>4. CASE k = 3 /\ i = n + 2 /\ stack'[i] = e
    BY <1>2, <1>4, <2>4
  <2> QED
    BY <1>6a, <2>1, <2>2, <2>3, <2>4
<1> QED
  BY <1>2, <1>4

(* What a step of the driver does to the stack.                            *)
Goes(k, f, g, e) ==
    Grown(k, f, g, e) /\ Fits(k, f, g, e) /\ Counts(f, g, e) /\ Keeps(k, f, g, e)

(* It has nothing to do with the heap or the message that waits.           *)
Sent1(f) == Bottom(f) /\ f.at \notin {"publish"} \cup Storing

Idle(k, f, g, e) ==
    /\ heap' = heap /\ lastPubTopic' = lastPubTopic
    /\ lastPubPayload' = lastPubPayload /\ handlerAttached' = handlerAttached
    /\ (k = 0 /\ Top.mem = <<>>) \/ (k >= 1 /\ f.mem = Top.mem)
    /\ g.mem = <<>> /\ e.mem = <<>>
    /\ \A x \in {f, g, e} : x.at \notin {"acked"} \cup Storing
    /\ Sent1(f) => Sent1(Top)

LEMMA FrameIs ==
    /\ \A s \in Steps : /\ Frame(s) \in Frames /\ Frame(s).at = s /\ Frame(s).kind = "none"
                        /\ Frame(s).n = 0 /\ Frame(s).mem = <<>>
    /\ \A s \in Kinds : /\ Publish(s) \in Frames /\ Publish(s).at = "publish"
                        /\ Publish(s).kind = s
                        /\ Publish(s).n = 0 /\ Publish(s).mem = <<>>
    /\ Log \in Frames /\ Log.at = "log" /\ Log.kind = "none" /\ Log.n = 0 /\ Log.mem = <<>>
    /\ ReadAndProcess \in Frames /\ ReadAndProcess.at = "read"
    /\ ReadAndProcess.kind = "none" /\ ReadAndProcess.n = 0 /\ ReadAndProcess.mem = <<>>
<1>1. 0 \in 0..MaxPackets /\ <<>> \in Seq(Block) /\ "none" \in Kinds
      /\ {"log", "read", "publish"} \subseteq Steps
  BY CallsAssumption DEF CallsAssumption, Kinds, Steps
<1>2. ASSUME NEW s \in Steps
      PROVE  /\ Frame(s) \in Frames /\ Frame(s).at = s /\ Frame(s).kind = "none"
             /\ Frame(s).n = 0 /\ Frame(s).mem = <<>>
  BY <1>1 DEF Frame, Frames
<1>3. ASSUME NEW s \in Kinds
      PROVE  /\ Publish(s) \in Frames /\ Publish(s).at = "publish" /\ Publish(s).kind = s
             /\ Publish(s).n = 0 /\ Publish(s).mem = <<>>
  <2>1. Publish(s) = [at |-> "publish", kind |-> s, n |-> 0, mem |-> <<>>]
    BY DEF Frame, Publish
  <2> QED
    BY <1>1, <2>1 DEF Frames
<1> QED
  BY <1>1, <1>2, <1>3 DEF Log, ReadAndProcess

LEMMA ThenIs ==
    ASSUME Top \in Frames
    PROVE  /\ \A s \in Steps : /\ Then(s) \in Frames /\ Then(s).at = s
                               /\ Then(s).kind = Top.kind /\ Then(s).n = Top.n
                               /\ Then(s).mem = Top.mem
           /\ Top.at \in Steps /\ Top.kind \in Kinds /\ Top.n \in 0..MaxPackets
           /\ Top.mem \in Seq(Block) /\ Len(Top.mem) \in Nat
BY DEF Then, Frames

(* Frames without a block, the announcements and reads among them.         *)
LEMMA Plain ==
    /\ \A f : f.mem = <<>> /\ f.at # "saved" => MemOK(f)
    /\ \A f : f = Log \/ f = ReadAndProcess =>
         FrameOK(f) /\ ~AtTop(f) /\ ~Bottom(f) /\ f.mem = <<>>
           /\ f.at \in {"log", "read"} /\ f.at \notin Active
<1>1. ASSUME NEW f, f.mem = <<>>, f.at # "saved" PROVE MemOK(f)
  <2>1. Len(f.mem) = 0
    BY <1>1
  <2> QED
    BY <1>1, <2>1 DEF MemOK
<1>2. ASSUME NEW f, f = Log \/ f = ReadAndProcess
      PROVE  FrameOK(f) /\ ~AtTop(f) /\ ~Bottom(f) /\ f.mem = <<>>
               /\ f.at \in {"log", "read"} /\ f.at \notin Active
  <2>1. f.at \in {"log", "read"} /\ f.kind = "none" /\ f.mem = <<>>
    BY <1>2, FrameIs
  <2>2. MemOK(f)
    BY <1>1, <2>1
  <2> QED
    BY <2>1, <2>2
       DEF FrameOK, AtTop, Bottom, Publishing, Storing, Waiting, Active, Handling
<1> QED
  BY <1>1, <1>2

(* Nor with the logs that go to the server.                                *)
Quiet(f, g, e) ==
    /\ UNCHANGED <<serverLoggingEnabled, age, since, enabled>>
    /\ Top.at # "log"
    /\ \A x \in {f, g, e} : /\ x.at # "emit"
                            /\ x.at \in {"publish", "send"} => x.kind \notin {"log", "notice"}
    /\ ~Fails(g) /\ ~Fails(e)
    /\ Fails(f) => Fails(Top) \/ (Top.at = "send" /\ Top.kind = f.kind)

(* Most steps neither log to the server nor take a packet off the line.    *)
Still ==
    /\ Top.at \notin {"log", "emit"}
    /\ UNCHANGED <<packets, guaranteed, inbox, enabled, serverLoggingEnabled>>
    /\ contents' = contents \/ Top.at = "read"

Follows(f) ==
    /\ FrameOK(f)
    /\ Bottom(f) => Bottom(Top)
    /\ f.at \in Active => Top.at \in Active /\ f.n = Top.n

LEMMA Pops ==
    ASSUME StackOK, stack # <<>>, Still, Becomes(<<>>)
    PROVE  Goes(0, Log, Log, Log)
<1>1. Grown(0, Log, Log, Log)
  BY TopFrame, Grow
<1>2. Fits(0, Log, Log, Log)
  BY Plain DEF Fits
<1>3. Counts(Log, Log, Log) /\ Keeps(0, Log, Log, Log)
  BY Plain DEF Counts, Keeps, Still
<1> QED
  BY <1>1, <1>2, <1>3 DEF Goes

LEMMA GoesOn ==
    ASSUME StackOK, stack # <<>>, Still, NEW f \in Frames, Follows(f), Becomes(<<f>>)
    PROVE  Goes(1, f, Log, Log)
<1>1. Grown(1, f, Log, Log)
  BY TopFrame, Grow
<1>2. Fits(1, f, Log, Log)
  BY Plain DEF Fits, Follows
<1>3. Log.at = "log" /\ Log.at \notin Active
  BY FrameIs, Plain
<1>4. Counts(f, Log, Log) /\ Keeps(1, f, Log, Log)
  BY <1>3 DEF Counts, Keeps, Still, Follows
<1> QED
  BY <1>1, <1>2, <1>4 DEF Goes

LEMMA GoesOnAndCalls ==
    ASSUME StackOK, stack # <<>>, Still, NEW f \in Frames, Follows(f), ~AtTop(f),
           NEW g \in Frames, FrameOK(g), ~Bottom(g), g.at \notin Active,
           f.at \in Active => g = Log, Becomes(<<f, g>>)
    PROVE  Goes(2, f, g, Log)
<1>1. Grown(2, f, g, Log)
  BY TopFrame, Grow
<1>2. Fits(2, f, g, Log)
  BY Plain DEF Fits, Follows
<1>3. Log.at = "log" /\ Log.at \notin Active
  BY FrameIs, Plain
<1>4. Counts(f, g, Log) /\ Keeps(2, f, g, Log)
  BY <1>3 DEF Counts, Keeps, Still, Follows
<1> QED
  BY <1>1, <1>2, <1>4 DEF Goes

LEMMA GoesOnAndLogs ==
    ASSUME StackOK, stack # <<>>, Still, NEW f \in Frames, Follows(f), ~AtTop(f),
           NEW g \in Frames, FrameOK(g), ~Bottom(g), g.at \notin Active, ~AtTop(g),
           f.at \notin Active, Becomes(<<f, g, Log>>)
    PROVE  Goes(3, f, g, Log)
<1>1. Grown(3, f, g, Log)
  BY TopFrame, FrameIs, Grow
<1>2. Fits(3, f, g, Log)
  BY Plain DEF Fits, Follows
<1>3. Log.at = "log" /\ Log.at \notin Active
  BY FrameIs, Plain
<1>4. Counts(f, g, Log) /\ Keeps(3, f, g, Log)
  BY <1>3 DEF Counts, Keeps, Still, Follows
<1> QED
  BY <1>1, <1>2, <1>4 DEF Goes

LEMMA WriteFailedStep ==
    ASSUME StackOK, TypeInv, CountInv, WriteFailed
    PROVE  TypeInv' /\ \E k, f, g, e : Goes(k, f, g, e) /\ Quiet(f, g, e) /\ Idle(k, f, g, e)
<1>1. /\ stack # <<>> /\ Top.at = "corrupted"
      /\ Becomes(<<Then("failed")>>)
  BY DEF WriteFailed, At
<1>2. UNCHANGED <<serverLoggingEnabled, age, since, enabled, publishCount, line,
                  inbox, contents, heap, lastPubTopic, lastPubPayload,
                  waitingForPuback, pubAckRecvAttempts, handlerAttached, packets,
                  guaranteed, unanswered>>
  BY DEF WriteFailed, At, loggingVars, lineVars, pubVars, serverVars
<1>3. /\ ipstackCorrupted' = 1
  BY DEF WriteFailed, At, loggingVars, lineVars, pubVars, serverVars
<1>4. TypeInv'
  BY <1>2, <1>3 DEF TypeInv
<1>5. Top \in Frames /\ FrameOK(Top) /\ Still
  BY <1>1, <1>2, <1>3, TopFrame DEF Still
<1> DEFINE f == Then("failed")
<1>6. f \in Frames /\ f.at = "failed" /\ f.kind = Top.kind /\ f.n = Top.n /\ f.mem = Top.mem
  <2>1. "failed" \in Steps
    BY Zenon DEF Steps
  <2> QED
    BY <1>5, <2>1, ThenIs
<1>7. Becomes(<<f>>)
  BY <1>1, <1>3
<1> HIDE DEF f
<1>8. Follows(f)
  BY <1>1, <1>5, <1>6, Plain, FrameIs, ThenIs
     DEF Follows, FrameOK, MemOK, AtTop, Bottom, Publishing, Storing, Waiting,
         Active, Handling
<1>9. Goes(1, f, Log, Log)
  BY <1>1, <1>5, <1>6, <1>7, <1>8, GoesOn
<1>10. Quiet(f, Log, Log)
  BY <1>1, <1>2, <1>5, <1>6, FrameIs DEF Quiet, Fails, FrameOK, Storing
<1>11. Idle(1, f, Log, Log)
  BY <1>1, <1>2, <1>3, <1>5, <1>6, FrameIs DEF Idle, Sent1, FrameOK, MemOK,
     Bottom, Publishing, Storing, Waiting, Active, Handling
<1> QED
  BY <1>4, <1>9, <1>10, <1>11

LEMMA WaitStep ==
    ASSUME StackOK, TypeInv, CountInv, Wait
    PROVE  TypeInv' /\ \E k, f, g, e : Goes(k, f, g, e) /\ Quiet(f, g, e) /\ Idle(k, f, g, e)
<1>1. /\ stack # <<>> /\ Top.at = "wait"
      /\ Becomes(<<Then("waited"), ReadAndProcess>>)
  BY DEF Wait, At
<1>2. UNCHANGED <<serverLoggingEnabled, age, since, enabled, publishCount,
                  ipstackCorrupted, line, inbox, contents, heap, lastPubTopic,
                  lastPubPayload, waitingForPuback, pubAckRecvAttempts,
                  handlerAttached, packets, guaranteed, unanswered>>
  BY DEF Wait, At, loggingVars, lineVars, pubVars, serverVars
<1>3. TypeInv'
  BY <1>2 DEF TypeInv
<1>4. Top \in Frames /\ FrameOK(Top) /\ Still
  BY <1>1, <1>2, TopFrame DEF Still
<1> DEFINE f == Then("waited")
<1> DEFINE g == ReadAndProcess
<1>5. f \in Frames /\ f.at = "waited" /\ f.kind = Top.kind /\ f.n = Top.n /\ f.mem = Top.mem
  <2>1. "waited" \in Steps
    BY Zenon DEF Steps
  <2> QED
    BY <1>4, <2>1, ThenIs
<1>6. g \in Frames /\ g.at = "read" /\ g.kind = "none" /\ g.n = 0 /\ g.mem = <<>>
  BY FrameIs DEF Steps
<1>7. Becomes(<<f, g>>)
  BY <1>1
<1> HIDE DEF f, g
<1>8. Follows(f) /\ ~AtTop(f)
  BY <1>1, <1>4, <1>5, <1>6, Plain, FrameIs, ThenIs
     DEF Follows, FrameOK, MemOK, AtTop, Bottom, Publishing, Storing, Waiting,
         Active, Handling
<1>9. g \in Frames /\ FrameOK(g) /\ ~Bottom(g) /\ g.at \notin Active
      /\ (f.at \in Active => g = Log)
  BY <1>5, <1>6, Plain, FrameIs
     DEF FrameOK, MemOK, AtTop, Bottom, Publishing, Storing, Waiting, Active,
         Handling
<1>10. Goes(2, f, g, Log)
  BY <1>1, <1>4, <1>5, <1>6, <1>7, <1>8, <1>9, GoesOnAndCalls
<1>11. Quiet(f, g, Log)
  BY <1>1, <1>2, <1>4, <1>5, <1>6, FrameIs DEF Quiet, Fails, FrameOK, Storing
<1>12. Idle(2, f, g, Log)
  BY <1>1, <1>2, <1>4, <1>5, <1>6, FrameIs DEF Idle, Sent1, FrameOK, MemOK,
     Bottom, Publishing, Storing, Waiting, Active, Handling
<1> QED
  BY <1>3, <1>10, <1>11, <1>12

LEMMA SentStep ==
    ASSUME StackOK, TypeInv, CountInv, Sent
    PROVE  TypeInv' /\ \E k, f, g, e : Goes(k, f, g, e) /\ Quiet(f, g, e) /\ Idle(k, f, g, e)
<1>1. /\ stack # <<>> /\ Top.at = "sent"
      /\ Becomes(IF Top.kind \in {"log", "notice"} THEN CompulsoryRead(<<>>)
                 ELSE <<Then("published"), Log>>)
  BY DEF Sent, At
<1>2. UNCHANGED <<serverLoggingEnabled, age, since, enabled, publishCount,
                  ipstackCorrupted, line, inbox, contents, heap, lastPubTopic,
                  lastPubPayload, waitingForPuback, pubAckRecvAttempts,
                  handlerAttached, packets, guaranteed, unanswered>>
  BY DEF Sent, At, loggingVars, lineVars, pubVars, serverVars
<1>3. TypeInv'
  BY <1>2 DEF TypeInv
<1>4. Top \in Frames /\ FrameOK(Top) /\ Still
  BY <1>1, <1>2, TopFrame DEF Still
<1>5. CASE Top.kind \in {"log", "notice"} /\ publishCount = 0
  <2> DEFINE f == ReadAndProcess
  <2>1. f \in Frames /\ f.at = "read" /\ f.kind = "none" /\ f.n = 0 /\ f.mem = <<>>
    BY FrameIs DEF Steps
  <2>2. Becomes(<<f>>)
    BY <1>1, <1>5, Tuples DEF CompulsoryRead
  <2> HIDE DEF f
  <2>3. Follows(f)
    BY <1>1, <1>4, <1>5, <2>1, Plain, FrameIs, ThenIs
       DEF Follows, FrameOK, MemOK, AtTop, Bottom, Publishing, Storing, Waiting,
           Active, Handling
  <2>4. Goes(1, f, Log, Log)
    BY <1>1, <1>4, <2>1, <2>2, <2>3, GoesOn
  <2>5. Quiet(f, Log, Log)
    BY <1>1, <1>2, <1>5, <1>4, <2>1, FrameIs DEF Quiet, Fails, FrameOK, Storing
  <2>6. Idle(1, f, Log, Log)
    BY <1>1, <1>2, <1>5, <1>4, <2>1, FrameIs DEF Idle, Sent1, FrameOK, MemOK,
       Bottom, Publishing, Storing, Waiting, Active, Handling
  <2> QED
    BY <1>3, <2>4, <2>5, <2>6
<1>6. CASE Top.kind \in {"log", "notice"} /\ publishCount # 0
  <2>1. Becomes(<<>>)
    BY <1>1, <1>6, Tuples DEF CompulsoryRead
  <2>2. Goes(0, Log, Log, Log)
    BY <1>1, <1>4, <2>1, Pops
  <2>3. Quiet(Log, Log, Log)
    BY <1>1, <1>2, <1>6, <1>4, FrameIs DEF Quiet, Fails, FrameOK, Storing
  <2>4. Idle(0, Log, Log, Log)
    BY <1>1, <1>2, <1>6, <1>4, FrameIs DEF Idle, Sent1, FrameOK, MemOK,
       Bottom, Publishing, Storing, Waiting, Active, Handling
  <2> QED
    BY <1>3, <2>2, <2>3, <2>4
<1>7. CASE Top.kind \notin {"log", "notice"}
  <2> DEFINE f == Then("published")
  <2>1. f \in Frames /\ f.at = "published" /\ f.kind = Top.kind /\ f.n = Top.n /\ f.mem = Top.mem
    <3>1. "published" \in Steps
      BY Zenon DEF Steps
    <3> QED
      BY <1>4, <3>1, ThenIs
  <2>2. Becomes(<<f, Log>>)
    BY <1>1, <1>7, Tuples DEF CompulsoryRead
  <2> HIDE DEF f
  <2>3. Follows(f) /\ ~AtTop(f)
    BY <1>1, <1>4, <1>7, <2>1, Plain, FrameIs, ThenIs
       DEF Follows, FrameOK, MemOK, AtTop, Bottom, Publishing, Storing, Waiting,
           Active, Handling
  <2>4. Log \in Frames /\ FrameOK(Log) /\ ~Bottom(Log) /\ Log.at \notin Active
        /\ (f.at \in Active => Log = Log)
    BY <1>7, <2>1, Plain, FrameIs
       DEF FrameOK, MemOK, AtTop, Bottom, Publishing, Storing, Waiting, Active,
           Handling
  <2>5. Goes(2, f, Log, Log)
    BY <1>1, <1>4, <2>1, <2>2, <2>3, <2>4, GoesOnAndCalls, FrameIs
  <2>6. Quiet(f, Log, Log)
    BY <1>1, <1>2, <1>7, <1>4, <2>1, FrameIs DEF Quiet, Fails, FrameOK, Storing
  <2>7. Idle(2, f, Log, Log)
    BY <1>1, <1>2, <1>7, <1>4, <2>1, FrameIs DEF Idle, Sent1, FrameOK, MemOK,
       Bottom, Publishing, Storing, Waiting, Active, Handling
  <2> QED
    BY <1>3, <2>5, <2>6, <2>7
<1> QED
  BY <1>1, <1>4, <1>5, <1>6, <1>7, TopFrame DEF FrameOK, Publishing, Storing

LEMMA PublishedStep ==
    ASSUME StackOK, TypeInv, CountInv, Published
    PROVE  TypeInv' /\ \E k, f, g, e : Goes(k, f, g, e) /\ Quiet(f, g, e) /\ Idle(k, f, g, e)
<1>1. /\ stack # <<>> /\ Top.at = "published"
      /\ Becomes((IF Top.kind = "sure" THEN <<Frame("wait")>> ELSE <<>>)
                   \o CompulsoryRead(<<Log>>))
  BY DEF Published, At
<1>2. UNCHANGED <<serverLoggingEnabled, age, since, enabled, publishCount,
                  ipstackCorrupted, line, inbox, contents, heap, lastPubTopic,
                  lastPubPayload, waitingForPuback, pubAckRecvAttempts,
                  handlerAttached, packets, guaranteed, unanswered>>
  BY DEF Published, At, loggingVars, lineVars, pubVars, serverVars
<1>3. TypeInv'
  BY <1>2 DEF TypeInv
<1>4. Top \in Frames /\ FrameOK(Top) /\ Still
  BY <1>1, <1>2, TopFrame DEF Still
<1>5. CASE Top.kind = "sure" /\ publishCount = 0
  <2> DEFINE f == Frame("wait")
  <2> DEFINE g == ReadAndProcess
  <2>1. f \in Frames /\ f.at = "wait" /\ f.kind = "none" /\ f.n = 0 /\ f.mem = <<>>
    BY FrameIs DEF Steps
  <2>2. g \in Frames /\ g.at = "read" /\ g.kind = "none" /\ g.n = 0 /\ g.mem = <<>>
    BY FrameIs DEF Steps
  <2>3. CompulsoryRead(<<Log>>) = <<ReadAndProcess, Log>>
    BY <1>5, Tuples DEF CompulsoryRead
  <2>4. <<Frame("wait")>> \o <<ReadAndProcess, Log>> = <<Frame("wait"), ReadAndProcess, Log>>
    BY Tuples
  <2>5. Becomes(<<f, g, Log>>)
    BY <1>1, <1>5, <2>3, <2>4, Tuples
  <2> HIDE DEF f, g
  <2>6. Follows(f) /\ ~AtTop(f) /\ f.at \notin Active
    BY <1>1, <1>4, <1>5, <2>1, <2>2, <2>3, <2>4, Plain, FrameIs, ThenIs
       DEF Follows, FrameOK, MemOK, AtTop, Bottom, Publishing, Storing, Waiting,
           Active, Handling
  <2>7. g \in Frames /\ FrameOK(g) /\ ~Bottom(g) /\ g.at \notin Active /\ ~AtTop(g)
    BY <1>5, <2>1, <2>2, Plain, FrameIs
       DEF FrameOK, MemOK, AtTop, Bottom, Publishing, Storing, Waiting, Active,
           Handling
  <2>8. Goes(3, f, g, Log)
    BY <1>1, <1>4, <2>1, <2>2, <2>5, <2>6, <2>7, GoesOnAndLogs, FrameIs
  <2>9. Quiet(f, g, Log)
    BY <1>1, <1>2, <1>5, <1>4, <2>1, <2>2, FrameIs DEF Quiet, Fails, FrameOK, Storing
  <2>10. Idle(3, f, g, Log)
    BY <1>1, <1>2, <1>5, <1>4, <2>1, <2>2, FrameIs DEF Idle, Sent1, FrameOK, MemOK,
       Bottom, Publishing, Storing, Waiting, Active, Handling
  <2> QED
    BY <1>3, <2>8, <2>9, <2>10
<1>6. CASE Top.kind = "sure" /\ publishCount # 0
  <2> DEFINE f == Frame("wait")
  <2>1. f \in Frames /\ f.at = "wait" /\ f.kind = "none" /\ f.n = 0 /\ f.mem = <<>>
    BY FrameIs DEF Steps
  <2>2. CompulsoryRead(<<Log>>) = <<>>
    BY <1>6 DEF CompulsoryRead
  <2>3. Becomes(<<f>>)
    BY <1>1, <1>6, <2>2, Tuples
  <2> HIDE DEF f
  <2>4. Follows(f)
    BY <1>1, <1>4, <1>6, <2>1, <2>2, Plain, FrameIs, ThenIs
       DEF Follows, FrameOK, MemOK, AtTop, Bottom, Publishing, Storing, Waiting,
           Active, Handling
  <2>5. Goes(1, f, Log, Log)
    BY <1>1, <1>4, <2>1, <2>3, <2>4, GoesOn
  <2>6. Quiet(f, Log, Log)
    BY <1>1, <1>2, <1>6, <1>4, <2>1, FrameIs DEF Quiet, Fails, FrameOK, Storing
  <2>7. Idle(1, f, Log, Log)
    BY <1>1, <1>2, <1>6, <1>4, <2>1, FrameIs DEF Idle, Sent1, FrameOK, MemOK,
       Bottom, Publishing, Storing, Waiting, Active, Handling
  <2> QED
    BY <1>3, <2>5, <2>6, <2>7
<1>7. CASE Top.kind # "sure" /\ publishCount = 0
  <2> DEFINE f == ReadAndProcess
  <2>1. f \in Frames /\ f.at = "read" /\ f.kind = "none" /\ f.n = 0 /\ f.mem = <<>>
    BY FrameIs DEF Steps
  <2>2. CompulsoryRead(<<Log>>) = <<ReadAndProcess, Log>>
    BY <1>7, Tuples DEF CompulsoryRead
  <2>3. Becomes(<<f, Log>>)
    BY <1>1, <1>7, <2>2, Tuples
  <2> HIDE DEF f
  <2>4. Follows(f) /\ ~AtTop(f)
    BY <1>1, <1>4, <1>7, <2>1, <2>2, Plain, FrameIs, ThenIs
       DEF Follows, FrameOK, MemOK, AtTop, Bottom, Publishing, Storing, Waiting,
           Active, Handling
  <2>5. Log \in Frames /\ FrameOK(Log) /\ ~Bottom(Log) /\ Log.at \notin Active
        /\ (f.at \in Active => Log = Log)
    BY <1>7, <2>1, Plain, FrameIs
       DEF FrameOK, MemOK, AtTop, Bottom, Publishing, Storing, Waiting, Active,
           Handling
  <2>6. Goes(2, f, Log, Log)
    BY <1>1, <1>4, <2>1, <2>3, <2>4, <2>5, GoesOnAndCalls, FrameIs
  <2>7. Quiet(f, Log, Log)
    BY <1>1, <1>2, <1>7, <1>4, <2>1, FrameIs DEF Quiet, Fails, FrameOK, Storing
  <2>8. Idle(2, f, Log, Log)
    BY <1>1, <1>2, <1>7, <1>4, <2>1, FrameIs DEF Idle, Sent1, FrameOK, MemOK,
       Bottom, Publishing, Storing, Waiting, Active, Handling
  <2> QED
    BY <1>3, <2>6, <2>7, <2>8
<1>8. CASE Top.kind # "sure" /\ publishCount # 0
  <2>1. CompulsoryRead(<<Log>>) = <<>>
    BY <1>8 DEF CompulsoryRead
  <2>2. Becomes(<<>>)
    BY <1>1, <1>8, <2>1, Tuples
  <2>3. Goes(0, Log, Log, Log)
    BY <1>1, <1>4, <2>2, Pops
  <2>4. Quiet(Log, Log, Log)
    BY <1>1, <1>2, <1>8, <1>4, FrameIs DEF Quiet, Fails, FrameOK, Storing
  <2>5. Idle(0, Log, Log, Log)
    BY <1>1, <1>2, <1>8, <1>4, FrameIs DEF Idle, Sent1, FrameOK, MemOK,
       Bottom, Publishing, Storing, Waiting, Active, Handling
  <2> QED
    BY <1>3, <2>3, <2>4, <2>5
<1> QED
  BY <1>1, <1>4, <1>5, <1>6, <1>7, <1>8, TopFrame DEF FrameOK, Publishing, Storing

LEMMA SecondType ==
    ASSUME TypeInv, ASecond
    PROVE  /\ age' \in -1..(EXPIRY_SECONDS + 1) /\ since' \in 0..(EXPIRY_SECONDS + 2)
           /\ UNCHANGED <<serverLoggingEnabled, enabled>>
BY CallsAssumption
   DEF TypeInv, ASecond, CallsAssumption, Capped, FRESH_SERVER_LOGS_TIME

LEMMA PublishFailedStep ==
    ASSUME StackOK, TypeInv, CountInv, PublishFailed
    PROVE  TypeInv' /\ \E k, f, g, e : Goes(k, f, g, e) /\ Quiet(f, g, e) /\ Idle(k, f, g, e)
<1>1. /\ stack # <<>> /\ Top.at = "failed"
      /\ Becomes(CASE Top.kind \in {"log", "notice"} -> <<>>
                   [] Top.kind = "app"  -> <<Log>>
                   [] Top.kind = "sure" -> <<Frame("save"), Log>>)
  BY DEF PublishFailed, At
<1>2. UNCHANGED <<serverLoggingEnabled, age, since, enabled, publishCount,
                  ipstackCorrupted, line, inbox, contents, heap, lastPubTopic,
                  lastPubPayload, waitingForPuback, pubAckRecvAttempts,
                  handlerAttached, packets, guaranteed, unanswered>>
  BY DEF PublishFailed, At, loggingVars, lineVars, pubVars, serverVars
<1>3. TypeInv'
  BY <1>2 DEF TypeInv
<1>4. Top \in Frames /\ FrameOK(Top) /\ Still
  BY <1>1, <1>2, TopFrame DEF Still
<1>5. CASE Top.kind \in {"log", "notice"}
  <2>1. Becomes(<<>>)
    BY <1>1, <1>5
  <2>2. Goes(0, Log, Log, Log)
    BY <1>1, <1>4, <2>1, Pops
  <2>3. Quiet(Log, Log, Log)
    BY <1>1, <1>2, <1>5, <1>4, FrameIs DEF Quiet, Fails, FrameOK, Storing
  <2>4. Idle(0, Log, Log, Log)
    BY <1>1, <1>2, <1>5, <1>4, FrameIs DEF Idle, Sent1, FrameOK, MemOK,
       Bottom, Publishing, Storing, Waiting, Active, Handling
  <2> QED
    BY <1>3, <2>2, <2>3, <2>4
<1>6. CASE Top.kind = "app"
  <2>1. Becomes(<<Log>>)
    BY <1>1, <1>6
  <2>2. Follows(Log)
    BY <1>1, <1>4, <1>6, Plain, FrameIs, ThenIs
       DEF Follows, FrameOK, MemOK, AtTop, Bottom, Publishing, Storing, Waiting,
           Active, Handling
  <2>3. Goes(1, Log, Log, Log)
    BY <1>1, <1>4, <2>1, <2>2, GoesOn, FrameIs
  <2>4. Quiet(Log, Log, Log)
    BY <1>1, <1>2, <1>6, <1>4, FrameIs DEF Quiet, Fails, FrameOK, Storing
  <2>5. Idle(1, Log, Log, Log)
    BY <1>1, <1>2, <1>6, <1>4, FrameIs DEF Idle, Sent1, FrameOK, MemOK,
       Bottom, Publishing, Storing, Waiting, Active, Handling
  <2> QED
    BY <1>3, <2>3, <2>4, <2>5
<1>7. CASE Top.kind = "sure"
  <2> DEFINE f == Frame("save")
  <2>1. f \in Frames /\ f.at = "save" /\ f.kind = "none" /\ f.n = 0 /\ f.mem = <<>>
    BY FrameIs DEF Steps
  <2>2. Becomes(<<f, Log>>)
    BY <1>1, <1>7
  <2> HIDE DEF f
  <2>3. Follows(f) /\ ~AtTop(f)
    BY <1>1, <1>4, <1>7, <2>1, Plain, FrameIs, ThenIs
       DEF Follows, FrameOK, MemOK, AtTop, Bottom, Publishing, Storing, Waiting,
           Active, Handling
  <2>4. Log \in Frames /\ FrameOK(Log) /\ ~Bottom(Log) /\ Log.at \notin Active
        /\ (f.at \in Active => Log = Log)
    BY <1>7, <2>1, Plain, FrameIs
       DEF FrameOK, MemOK, AtTop, Bottom, Publishing, Storing, Waiting, Active,
           Handling
  <2>5. Goes(2, f, Log, Log)
    BY <1>1, <1>4, <2>1, <2>2, <2>3, <2>4, GoesOnAndCalls, FrameIs
  <2>6. Quiet(f, Log, Log)
    BY <1>1, <1>2, <1>7, <1>4, <2>1, FrameIs DEF Quiet, Fails, FrameOK, Storing
  <2>7. Idle(2, f, Log, Log)
    BY <1>1, <1>2, <1>7, <1>4, <2>1, FrameIs DEF Idle, Sent1, FrameOK, MemOK,
       Bottom, Publishing, Storing, Waiting, Active, Handling
  <2> QED
    BY <1>3, <2>5, <2>6, <2>7
<1> QED
  BY <1>1, <1>4, <1>5, <1>6, <1>7, TopFrame DEF FrameOK, Publishing, Storing

LEMMA WaitedStep ==
    ASSUME StackOK, TypeInv, CountInv, Waited
    PROVE  TypeInv' /\ \E k, f, g, e : Goes(k, f, g, e) /\ Quiet(f, g, e) /\ Idle(k, f, g, e)
<1>1. /\ stack # <<>> /\ Top.at = "waited"
  BY DEF Waited, At
<1>2. UNCHANGED <<serverLoggingEnabled, age, since, enabled, publishCount,
                  ipstackCorrupted, line, inbox, contents, heap, lastPubTopic,
                  lastPubPayload, waitingForPuback, handlerAttached, packets,
                  guaranteed, unanswered>>
  BY DEF Waited, At, loggingVars, lineVars, pubVars, serverVars
<1>3. /\ \/ /\ waitingForPuback # "waiting" /\ Becomes(<<>>)
            /\ pubAckRecvAttempts' = pubAckRecvAttempts
         \/ /\ pubAckRecvAttempts + 1 >= MAX_CYCLES_TO_WAIT_FOR_PUBACK
            /\ Becomes(<<Then("save")>>) /\ pubAckRecvAttempts' = 0
         \/ /\ ~(pubAckRecvAttempts + 1 >= MAX_CYCLES_TO_WAIT_FOR_PUBACK)
            /\ Becomes(<<Then("wait")>>)
            /\ pubAckRecvAttempts' = pubAckRecvAttempts + 1
  BY DEF Waited, At, loggingVars, lineVars, pubVars, serverVars
<1>4. TypeInv'
  <2>1. /\ MAX_CYCLES_TO_WAIT_FOR_PUBACK \in Nat \ {0}
        /\ pubAckRecvAttempts \in 0..(MAX_CYCLES_TO_WAIT_FOR_PUBACK - 1)
    BY CallsAssumption DEF TypeInv, CallsAssumption
  <2>2. pubAckRecvAttempts' \in 0..(MAX_CYCLES_TO_WAIT_FOR_PUBACK - 1)
    BY <1>3, <2>1
  <2> QED
    BY <1>2, <2>2 DEF TypeInv
<1>5. Top \in Frames /\ FrameOK(Top) /\ Still
  BY <1>1, <1>2, <1>3, TopFrame DEF Still
<1>6. CASE waitingForPuback # "waiting" /\ Becomes(<<>>)
  <2>1. Becomes(<<>>)
    BY <1>1, <1>6, <1>3
  <2>2. Goes(0, Log, Log, Log)
    BY <1>1, <1>5, <2>1, Pops
  <2>3. Quiet(Log, Log, Log)
    BY <1>1, <1>2, <1>6, <1>5, FrameIs DEF Quiet, Fails, FrameOK, Storing
  <2>4. Idle(0, Log, Log, Log)
    BY <1>1, <1>2, <1>3, <1>6, <1>5, FrameIs DEF Idle, Sent1, FrameOK, MemOK,
       Bottom, Publishing, Storing, Waiting, Active, Handling
  <2> QED
    BY <1>4, <2>2, <2>3, <2>4
<1>7. CASE Becomes(<<Then("save")>>)
  <2> DEFINE f == Then("save")
  <2>1. f \in Frames /\ f.at = "save" /\ f.kind = Top.kind /\ f.n = Top.n /\ f.mem = Top.mem
    <3>1. "save" \in Steps
      BY Zenon DEF Steps
    <3> QED
      BY <1>5, <3>1, ThenIs
  <2>2. Becomes(<<f>>)
    BY <1>1, <1>7, <1>3
  <2> HIDE DEF f
  <2>3. Follows(f)
    BY <1>1, <1>5, <1>7, <2>1, Plain, FrameIs, ThenIs
       DEF Follows, FrameOK, MemOK, AtTop, Bottom, Publishing, Storing, Waiting,
           Active, Handling
  <2>4. Goes(1, f, Log, Log)
    BY <1>1, <1>5, <2>1, <2>2, <2>3, GoesOn
  <2>5. Quiet(f, Log, Log)
    BY <1>1, <1>2, <1>7, <1>5, <2>1, FrameIs DEF Quiet, Fails, FrameOK, Storing
  <2>6. Idle(1, f, Log, Log)
    BY <1>1, <1>2, <1>3, <1>7, <1>5, <2>1, FrameIs DEF Idle, Sent1, FrameOK, MemOK,
       Bottom, Publishing, Storing, Waiting, Active, Handling
  <2> QED
    BY <1>4, <2>4, <2>5, <2>6
<1>8. CASE Becomes(<<Then("wait")>>)
  <2> DEFINE f == Then("wait")
  <2>1. f \in Frames /\ f.at = "wait" /\ f.kind = Top.kind /\ f.n = Top.n /\ f.mem = Top.mem
    <3>1. "wait" \in Steps
      BY Zenon DEF Steps
    <3> QED
      BY <1>5, <3>1, ThenIs
  <2>2. Becomes(<<f>>)
    BY <1>1, <1>8, <1>3
  <2> HIDE DEF f
  <2>3. Follows(f)
    BY <1>1, <1>5, <1>8, <2>1, Plain, FrameIs, ThenIs
       DEF Follows, FrameOK, MemOK, AtTop, Bottom, Publishing, Storing, Waiting,
           Active, Handling
  <2>4. Goes(1, f, Log, Log)
    BY <1>1, <1>5, <2>1, <2>2, <2>3, GoesOn
  <2>5. Quiet(f, Log, Log)
    BY <1>1, <1>2, <1>8, <1>5, <2>1, FrameIs DEF Quiet, Fails, FrameOK, Storing
  <2>6. Idle(1, f, Log, Log)
    BY <1>1, <1>2, <1>3, <1>8, <1>5, <2>1, FrameIs DEF Idle, Sent1, FrameOK, MemOK,
       Bottom, Publishing, Storing, Waiting, Active, Handling
  <2> QED
    BY <1>4, <2>4, <2>5, <2>6
<1> QED
  BY <1>1, <1>5, <1>3, <1>6, <1>7, <1>8, TopFrame DEF FrameOK, Publishing, Storing

LEMMA ReadCorruptedStep ==
    ASSUME StackOK, TypeInv, CountInv, ReadCorrupted
    PROVE  TypeInv' /\ \E k, f, g, e : Goes(k, f, g, e) /\ Quiet(f, g, e) /\ Idle(k, f, g, e)
<1>1. /\ stack # <<>> /\ Top.at = "read"
      /\ Becomes(<<Log>>)
  BY DEF ReadCorrupted, At
<1>2. UNCHANGED <<serverLoggingEnabled, age, since, enabled, publishCount,
                  ipstackCorrupted, line, inbox, contents, heap, lastPubTopic,
                  lastPubPayload, waitingForPuback, pubAckRecvAttempts,
                  handlerAttached, packets, guaranteed, unanswered>>
  BY DEF ReadCorrupted, At, loggingVars, lineVars, pubVars, serverVars
<1>3. TypeInv'
  BY <1>2 DEF TypeInv
<1>4. Top \in Frames /\ FrameOK(Top) /\ Still
  BY <1>1, <1>2, TopFrame DEF Still
<1>5. Becomes(<<Log>>)
  BY <1>1
<1>6. Follows(Log)
  BY <1>1, <1>4, Plain, FrameIs, ThenIs
     DEF Follows, FrameOK, MemOK, AtTop, Bottom, Publishing, Storing, Waiting,
         Active, Handling
<1>7. Goes(1, Log, Log, Log)
  BY <1>1, <1>4, <1>5, <1>6, GoesOn, FrameIs
<1>8. Quiet(Log, Log, Log)
  BY <1>1, <1>2, <1>4, FrameIs DEF Quiet, Fails, FrameOK, Storing
<1>9. Idle(1, Log, Log, Log)
  BY <1>1, <1>2, <1>4, FrameIs DEF Idle, Sent1, FrameOK, MemOK,
     Bottom, Publishing, Storing, Waiting, Active, Handling
<1> QED
  BY <1>3, <1>7, <1>8, <1>9

LEMMA RecvErrorStep ==
    ASSUME StackOK, TypeInv, CountInv, RecvError
    PROVE  TypeInv' /\ \E k, f, g, e : Goes(k, f, g, e) /\ Quiet(f, g, e) /\ Idle(k, f, g, e)
<1>1. /\ stack # <<>> /\ Top.at = "read"
      /\ Becomes(<<Then("unreadable"), Log>>)
  BY DEF RecvError, At
<1>2. UNCHANGED <<serverLoggingEnabled, age, since, enabled, publishCount,
                  ipstackCorrupted, line, inbox, heap, lastPubTopic, lastPubPayload,
                  waitingForPuback, pubAckRecvAttempts, handlerAttached, packets,
                  guaranteed, unanswered>>
  BY DEF RecvError, At, loggingVars, lineVars, pubVars, serverVars
<1>3. /\ contents' = 0
  BY DEF RecvError, At, loggingVars, lineVars, pubVars, serverVars
<1>4. TypeInv'
  BY <1>2, <1>3, CallsAssumption
     DEF TypeInv, CallsAssumption, Capped, FRESH_SERVER_LOGS_TIME
<1>5. Top \in Frames /\ FrameOK(Top) /\ Still
  BY <1>1, <1>2, <1>3, TopFrame DEF Still
<1> DEFINE f == Then("unreadable")
<1>6. f \in Frames /\ f.at = "unreadable" /\ f.kind = Top.kind /\ f.n = Top.n /\ f.mem = Top.mem
  <2>1. "unreadable" \in Steps
    BY Zenon DEF Steps
  <2> QED
    BY <1>5, <2>1, ThenIs
<1>7. Becomes(<<f, Log>>)
  BY <1>1, <1>3
<1> HIDE DEF f
<1>8. Follows(f) /\ ~AtTop(f)
  BY <1>1, <1>5, <1>6, Plain, FrameIs, ThenIs
     DEF Follows, FrameOK, MemOK, AtTop, Bottom, Publishing, Storing, Waiting,
         Active, Handling
<1>9. Log \in Frames /\ FrameOK(Log) /\ ~Bottom(Log) /\ Log.at \notin Active
      /\ (f.at \in Active => Log = Log)
  BY <1>6, Plain, FrameIs
     DEF FrameOK, MemOK, AtTop, Bottom, Publishing, Storing, Waiting, Active,
         Handling
<1>10. Goes(2, f, Log, Log)
  BY <1>1, <1>5, <1>6, <1>7, <1>8, <1>9, GoesOnAndCalls, FrameIs
<1>11. Quiet(f, Log, Log)
  BY <1>1, <1>2, <1>5, <1>6, FrameIs DEF Quiet, Fails, FrameOK, Storing
<1>12. Idle(2, f, Log, Log)
  BY <1>1, <1>2, <1>3, <1>5, <1>6, FrameIs DEF Idle, Sent1, FrameOK, MemOK,
     Bottom, Publishing, Storing, Waiting, Active, Handling
<1> QED
  BY <1>4, <1>10, <1>11, <1>12

LEMMA ReadNothingStep ==
    ASSUME StackOK, TypeInv, CountInv, ReadNothing
    PROVE  TypeInv' /\ \E k, f, g, e : Goes(k, f, g, e) /\ Idle(k, f, g, e)
<1>1. /\ stack # <<>> /\ Top.at = "read"
      /\ Becomes(<<>>)
  BY DEF ReadNothing, At
<1>2. UNCHANGED <<publishCount, ipstackCorrupted, line, inbox, heap, lastPubTopic,
                  lastPubPayload, waitingForPuback, pubAckRecvAttempts,
                  handlerAttached, packets, guaranteed, unanswered>>
  BY DEF ReadNothing, At, ASecond, loggingVars, lineVars, pubVars, serverVars
<1>3. /\ contents' = 0
      /\ ASecond
      /\ UNCHANGED <<serverLoggingEnabled, enabled>>
  BY DEF ReadNothing, At, ASecond, loggingVars, lineVars, pubVars, serverVars
<1>4. TypeInv'
  BY <1>2, <1>3, CallsAssumption, SecondType DEF TypeInv, CallsAssumption
<1>5. Top \in Frames /\ FrameOK(Top) /\ Still
  BY <1>1, <1>2, <1>3, TopFrame DEF Still
<1>6. Becomes(<<>>)
  BY <1>1, <1>3
<1>7. Goes(0, Log, Log, Log)
  BY <1>1, <1>5, <1>6, Pops
<1>8. Idle(0, Log, Log, Log)
  BY <1>1, <1>2, <1>3, <1>5, FrameIs DEF Idle, Sent1, FrameOK, MemOK,
     Bottom, Publishing, Storing, Waiting, Active, Handling
<1> QED
  BY <1>4, <1>7, <1>8

LEMMA ReadFailedStep ==
    ASSUME StackOK, TypeInv, CountInv, ReadFailed
    PROVE  TypeInv' /\ \E k, f, g, e : Goes(k, f, g, e) /\ Quiet(f, g, e) /\ Idle(k, f, g, e)
<1>1. /\ stack # <<>> /\ Top.at = "unreadable"
      /\ Becomes(<<>>)
  BY DEF ReadFailed, At
<1>2. UNCHANGED <<serverLoggingEnabled, age, since, enabled, publishCount, line,
                  inbox, contents, heap, lastPubTopic, lastPubPayload,
                  waitingForPuback, pubAckRecvAttempts, handlerAttached, packets,
                  guaranteed, unanswered>>
  BY DEF ReadFailed, At, loggingVars, lineVars, pubVars, serverVars
<1>3. /\ ipstackCorrupted' = 1
  BY DEF ReadFailed, At, loggingVars, lineVars, pubVars, serverVars
<1>4. TypeInv'
  BY <1>2, <1>3 DEF TypeInv
<1>5. Top \in Frames /\ FrameOK(Top) /\ Still
  BY <1>1, <1>2, <1>3, TopFrame DEF Still
<1>6. Becomes(<<>>)
  BY <1>1, <1>3
<1>7. Goes(0, Log, Log, Log)
  BY <1>1, <1>5, <1>6, Pops
<1>8. Quiet(Log, Log, Log)
  BY <1>1, <1>2, <1>5, FrameIs DEF Quiet, Fails, FrameOK, Storing
<1>9. Idle(0, Log, Log, Log)
  BY <1>1, <1>2, <1>3, <1>5, FrameIs DEF Idle, Sent1, FrameOK, MemOK,
     Bottom, Publishing, Storing, Waiting, Active, Handling
<1> QED
  BY <1>4, <1>7, <1>8, <1>9

LEMMA TopicNameStep ==
    ASSUME StackOK, TypeInv, CountInv, TopicName
    PROVE  TypeInv' /\ \E k, f, g, e : Goes(k, f, g, e) /\ Quiet(f, g, e) /\ Idle(k, f, g, e)
<1>1. /\ stack # <<>> /\ Top.at = "topic name"
      /\ Becomes(<<Then(Top.kind)>>)
  BY DEF TopicName, At
<1>2. UNCHANGED <<serverLoggingEnabled, age, since, enabled, publishCount,
                  ipstackCorrupted, line, inbox, contents, heap, lastPubTopic,
                  lastPubPayload, waitingForPuback, pubAckRecvAttempts,
                  handlerAttached, packets, guaranteed, unanswered>>
  BY DEF TopicName, At, loggingVars, lineVars, pubVars, serverVars
<1>3. TypeInv'
  BY <1>2 DEF TypeInv
<1>4. Top \in Frames /\ FrameOK(Top) /\ Still
      /\ Top.kind \in {"message", "enable", "disable"}
  BY <1>1, <1>2, TopFrame DEF Still, FrameOK, Handling, Active
<1>5. CASE Top.kind = "message"
  <2> DEFINE f == Then("message")
  <2>1. f \in Frames /\ f.at = "message" /\ f.kind = Top.kind /\ f.n = Top.n /\ f.mem = Top.mem
    <3>1. "message" \in Steps
      BY Zenon DEF Steps
    <3> QED
      BY <1>4, <3>1, ThenIs
  <2>2. Top.mem = <<>>
    BY <1>1, <1>4 DEF FrameOK, MemOK, Handling, Active
  <2>3. MemOK(f)
    BY <2>1, <2>2, Plain
  <2>4. Becomes(<<f>>)
    BY <1>1, <1>5, <2>2, <2>3
  <2> HIDE DEF f
  <2>5. Follows(f)
    BY <1>1, <1>4, <1>5, <2>1, <2>2, <2>3, Plain, FrameIs, ThenIs
       DEF Follows, FrameOK, AtTop, Bottom, Publishing, Storing, Waiting, Active,
           Handling
  <2>6. Goes(1, f, Log, Log)
    BY <1>1, <1>4, <2>1, <2>4, <2>5, GoesOn
  <2>7. Quiet(f, Log, Log)
    BY <1>1, <1>2, <1>5, <1>4, <2>1, FrameIs DEF Quiet, Fails, FrameOK, Storing
  <2>8. ~Sent1(f)
    BY <1>4, <2>1, FrameIs DEF Sent1, Bottom, Storing, Waiting
  <2>9. \A x \in {f, Log, Log} : x.at \notin {"acked"} \cup Storing
    BY <2>1, FrameIs DEF Storing
  <2>10. f.mem = Top.mem /\ Log.mem = <<>> /\ Log.mem = <<>>
    BY <2>1, FrameIs
  <2>11. Idle(1, f, Log, Log)
    BY <1>2, <2>8, <2>9, <2>10 DEF Idle
  <2> QED
    BY <1>3, <2>6, <2>7, <2>11
<1>6. CASE Top.kind = "enable"
  <2> DEFINE f == Then("enable")
  <2>1. f \in Frames /\ f.at = "enable" /\ f.kind = Top.kind /\ f.n = Top.n /\ f.mem = Top.mem
    <3>1. "enable" \in Steps
      BY Zenon DEF Steps
    <3> QED
      BY <1>4, <3>1, ThenIs
  <2>2. Top.mem = <<>>
    BY <1>1, <1>4 DEF FrameOK, MemOK, Handling, Active
  <2>3. MemOK(f)
    BY <2>1, <2>2, Plain
  <2>4. Becomes(<<f>>)
    BY <1>1, <1>6, <2>2, <2>3
  <2> HIDE DEF f
  <2>5. Follows(f)
    BY <1>1, <1>4, <1>6, <2>1, <2>2, <2>3, Plain, FrameIs, ThenIs
       DEF Follows, FrameOK, AtTop, Bottom, Publishing, Storing, Waiting, Active,
           Handling
  <2>6. Goes(1, f, Log, Log)
    BY <1>1, <1>4, <2>1, <2>4, <2>5, GoesOn
  <2>7. Quiet(f, Log, Log)
    BY <1>1, <1>2, <1>6, <1>4, <2>1, FrameIs DEF Quiet, Fails, FrameOK, Storing
  <2>8. ~Sent1(f)
    BY <1>4, <2>1, FrameIs DEF Sent1, Bottom, Storing, Waiting
  <2>9. \A x \in {f, Log, Log} : x.at \notin {"acked"} \cup Storing
    BY <2>1, FrameIs DEF Storing
  <2>10. f.mem = Top.mem /\ Log.mem = <<>> /\ Log.mem = <<>>
    BY <2>1, FrameIs
  <2>11. Idle(1, f, Log, Log)
    BY <1>2, <2>8, <2>9, <2>10 DEF Idle
  <2> QED
    BY <1>3, <2>6, <2>7, <2>11
<1>7. CASE Top.kind = "disable"
  <2> DEFINE f == Then("disable")
  <2>1. f \in Frames /\ f.at = "disable" /\ f.kind = Top.kind /\ f.n = Top.n /\ f.mem = Top.mem
    <3>1. "disable" \in Steps
      BY Zenon DEF Steps
    <3> QED
      BY <1>4, <3>1, ThenIs
  <2>2. Top.mem = <<>>
    BY <1>1, <1>4 DEF FrameOK, MemOK, Handling, Active
  <2>3. MemOK(f)
    BY <2>1, <2>2, Plain
  <2>4. Becomes(<<f>>)
    BY <1>1, <1>7, <2>2, <2>3
  <2> HIDE DEF f
  <2>5. Follows(f)
    BY <1>1, <1>4, <1>7, <2>1, <2>2, <2>3, Plain, FrameIs, ThenIs
       DEF Follows, FrameOK, AtTop, Bottom, Publishing, Storing, Waiting, Active,
           Handling
  <2>6. Goes(1, f, Log, Log)
    BY <1>1, <1>4, <2>1, <2>4, <2>5, GoesOn
  <2>7. Quiet(f, Log, Log)
    BY <1>1, <1>2, <1>7, <1>4, <2>1, FrameIs DEF Quiet, Fails, FrameOK, Storing
  <2>8. ~Sent1(f)
    BY <1>4, <2>1, FrameIs DEF Sent1, Bottom, Storing, Waiting
  <2>9. \A x \in {f, Log, Log} : x.at \notin {"acked"} \cup Storing
    BY <2>1, FrameIs DEF Storing
  <2>10. f.mem = Top.mem /\ Log.mem = <<>> /\ Log.mem = <<>>
    BY <2>1, FrameIs
  <2>11. Idle(1, f, Log, Log)
    BY <1>2, <2>8, <2>9, <2>10 DEF Idle
  <2> QED
    BY <1>3, <2>6, <2>7, <2>11
<1> QED
  BY <1>1, <1>4, <1>5, <1>6, <1>7, TopFrame DEF FrameOK, Publishing, Storing

LEMMA OneToOneStep ==
    ASSUME StackOK, TypeInv, CountInv, OneToOne
    PROVE  TypeInv' /\ \E k, f, g, e : Goes(k, f, g, e) /\ Quiet(f, g, e) /\ Idle(k, f, g, e)
<1>1. /\ stack # <<>> /\ Top.at = "message"
      /\ Becomes(<<Then("peer message"), Log>>)
  BY DEF OneToOne, At
<1>2. UNCHANGED <<serverLoggingEnabled, age, since, enabled, publishCount,
                  ipstackCorrupted, line, inbox, contents, heap, lastPubTopic,
                  lastPubPayload, waitingForPuback, pubAckRecvAttempts,
                  handlerAttached, packets, guaranteed, unanswered>>
  BY DEF OneToOne, At, loggingVars, lineVars, pubVars, serverVars
<1>3. TypeInv'
  BY <1>2 DEF TypeInv
<1>4. Top \in Frames /\ FrameOK(Top) /\ Still
      /\ Top.kind \in {"message", "enable", "disable"}
  BY <1>1, <1>2, TopFrame DEF Still, FrameOK, Handling, Active
<1> DEFINE f == Then("peer message")
<1>5. f \in Frames /\ f.at = "peer message" /\ f.kind = Top.kind /\ f.n = Top.n /\ f.mem = Top.mem
  <2>1. "peer message" \in Steps
    BY Zenon DEF Steps
  <2> QED
    BY <1>4, <2>1, ThenIs
<1>6. Becomes(<<f, Log>>)
  BY <1>1
<1> HIDE DEF f
<1>7. Follows(f) /\ ~AtTop(f)
  BY <1>1, <1>4, <1>5, Plain, FrameIs, ThenIs
     DEF Follows, FrameOK, MemOK, AtTop, Bottom, Publishing, Storing, Waiting,
         Active, Handling
<1>8. Log \in Frames /\ FrameOK(Log) /\ ~Bottom(Log) /\ Log.at \notin Active
      /\ (f.at \in Active => Log = Log)
  BY <1>5, Plain, FrameIs
     DEF FrameOK, MemOK, AtTop, Bottom, Publishing, Storing, Waiting, Active,
         Handling
<1>9. Goes(2, f, Log, Log)
  BY <1>1, <1>4, <1>5, <1>6, <1>7, <1>8, GoesOnAndCalls, FrameIs
<1>10. Quiet(f, Log, Log)
  BY <1>1, <1>2, <1>4, <1>5, FrameIs DEF Quiet, Fails, FrameOK, Storing
<1>11. ~Sent1(f)
  BY <1>4, <1>5, FrameIs DEF Sent1, Bottom, Storing, Waiting
<1>12. \A x \in {f, Log, Log} : x.at \notin {"acked"} \cup Storing
  BY <1>5, FrameIs DEF Storing
<1>13. f.mem = Top.mem /\ Log.mem = <<>> /\ Log.mem = <<>>
  BY <1>5, FrameIs
<1>14. Idle(2, f, Log, Log)
  BY <1>2, <1>11, <1>12, <1>13 DEF Idle
<1> QED
  BY <1>3, <1>9, <1>10, <1>14

LEMMA NoMemoryStep ==
    ASSUME StackOK, TypeInv, CountInv, NoMemory
    PROVE  TypeInv' /\ \E k, f, g, e : Goes(k, f, g, e) /\ Quiet(f, g, e) /\ Idle(k, f, g, e)
<1>1. /\ stack # <<>> /\ Top.at = "no memory"
      /\ Becomes(<<Then("free"), Log>>)
  BY DEF NoMemory, At
<1>2. UNCHANGED <<serverLoggingEnabled, age, since, enabled, publishCount,
                  ipstackCorrupted, line, inbox, contents, heap, lastPubTopic,
                  lastPubPayload, waitingForPuback, pubAckRecvAttempts,
                  handlerAttached, packets, guaranteed, unanswered>>
  BY DEF NoMemory, At, loggingVars, lineVars, pubVars, serverVars
<1>3. TypeInv'
  BY <1>2 DEF TypeInv
<1>4. Top \in Frames /\ FrameOK(Top) /\ Still
      /\ Top.kind \in {"message", "enable", "disable"}
  BY <1>1, <1>2, TopFrame DEF Still, FrameOK, Handling, Active
<1> DEFINE f == Then("free")
<1>5. f \in Frames /\ f.at = "free" /\ f.kind = Top.kind /\ f.n = Top.n /\ f.mem = Top.mem
  <2>1. "free" \in Steps
    BY Zenon DEF Steps
  <2> QED
    BY <1>4, <2>1, ThenIs
<1>6. Becomes(<<f, Log>>)
  BY <1>1
<1> HIDE DEF f
<1>7. Follows(f) /\ ~AtTop(f)
  BY <1>1, <1>4, <1>5, Plain, FrameIs, ThenIs
     DEF Follows, FrameOK, MemOK, AtTop, Bottom, Publishing, Storing, Waiting,
         Active, Handling
<1>8. Log \in Frames /\ FrameOK(Log) /\ ~Bottom(Log) /\ Log.at \notin Active
      /\ (f.at \in Active => Log = Log)
  BY <1>5, Plain, FrameIs
     DEF FrameOK, MemOK, AtTop, Bottom, Publishing, Storing, Waiting, Active,
         Handling
<1>9. Goes(2, f, Log, Log)
  BY <1>1, <1>4, <1>5, <1>6, <1>7, <1>8, GoesOnAndCalls, FrameIs
<1>10. Quiet(f, Log, Log)
  BY <1>1, <1>2, <1>4, <1>5, FrameIs DEF Quiet, Fails, FrameOK, Storing
<1>11. ~Sent1(f)
  BY <1>4, <1>5, FrameIs DEF Sent1, Bottom, Storing, Waiting
<1>12. \A x \in {f, Log, Log} : x.at \notin {"acked"} \cup Storing
  BY <1>5, FrameIs DEF Storing
<1>13. f.mem = Top.mem /\ Log.mem = <<>> /\ Log.mem = <<>>
  BY <1>5, FrameIs
<1>14. Idle(2, f, Log, Log)
  BY <1>2, <1>11, <1>12, <1>13 DEF Idle
<1> QED
  BY <1>3, <1>9, <1>10, <1>14

LEMMA BodyStep ==
    ASSUME StackOK, TypeInv, CountInv, Body
    PROVE  TypeInv' /\ \E k, f, g, e : Goes(k, f, g, e) /\ Quiet(f, g, e) /\ Idle(k, f, g, e)
<1>1. /\ stack # <<>> /\ Top.at = "body"
      /\ \/ Becomes(<<Then("free")>>)
         \/ Becomes(<<Then("free"), Publish("app")>>)
         \/ Becomes(<<Then("free"), Log>>)
  BY DEF Body, At
<1>2. UNCHANGED <<serverLoggingEnabled, age, since, enabled, publishCount,
                  ipstackCorrupted, line, inbox, contents, heap, lastPubTopic,
                  lastPubPayload, waitingForPuback, pubAckRecvAttempts,
                  handlerAttached, packets, guaranteed, unanswered>>
  BY DEF Body, At, loggingVars, lineVars, pubVars, serverVars
<1>3. TypeInv'
  BY <1>2 DEF TypeInv
<1>4. Top \in Frames /\ FrameOK(Top) /\ Still
      /\ Top.kind \in {"message", "enable", "disable"}
  BY <1>1, <1>2, TopFrame DEF Still, FrameOK, Handling, Active
<1>5. CASE Becomes(<<Then("free")>>)
  <2> DEFINE f == Then("free")
  <2>1. f \in Frames /\ f.at = "free" /\ f.kind = Top.kind /\ f.n = Top.n /\ f.mem = Top.mem
    <3>1. "free" \in Steps
      BY Zenon DEF Steps
    <3> QED
      BY <1>4, <3>1, ThenIs
  <2>2. Becomes(<<f>>)
    BY <1>1, <1>5
  <2> HIDE DEF f
  <2>3. Follows(f)
    BY <1>1, <1>4, <1>5, <2>1, Plain, FrameIs, ThenIs
       DEF Follows, FrameOK, MemOK, AtTop, Bottom, Publishing, Storing, Waiting,
           Active, Handling
  <2>4. Goes(1, f, Log, Log)
    BY <1>1, <1>4, <2>1, <2>2, <2>3, GoesOn
  <2>5. Quiet(f, Log, Log)
    BY <1>1, <1>2, <1>5, <1>4, <2>1, FrameIs DEF Quiet, Fails, FrameOK, Storing
  <2>6. ~Sent1(f)
    BY <1>4, <2>1, FrameIs DEF Sent1, Bottom, Storing, Waiting
  <2>7. \A x \in {f, Log, Log} : x.at \notin {"acked"} \cup Storing
    BY <2>1, FrameIs DEF Storing
  <2>8. f.mem = Top.mem /\ Log.mem = <<>> /\ Log.mem = <<>>
    BY <2>1, FrameIs
  <2>9. Idle(1, f, Log, Log)
    BY <1>2, <2>6, <2>7, <2>8 DEF Idle
  <2> QED
    BY <1>3, <2>4, <2>5, <2>9
<1>6. CASE Becomes(<<Then("free"), Publish("app")>>)
  <2> DEFINE f == Then("free")
  <2> DEFINE g == Publish("app")
  <2>1. f \in Frames /\ f.at = "free" /\ f.kind = Top.kind /\ f.n = Top.n /\ f.mem = Top.mem
    <3>1. "free" \in Steps
      BY Zenon DEF Steps
    <3> QED
      BY <1>4, <3>1, ThenIs
  <2>2. g \in Frames /\ g.at = "publish" /\ g.kind = "app" /\ g.n = 0 /\ g.mem = <<>>
    BY FrameIs DEF Kinds
  <2>3. Becomes(<<f, g>>)
    BY <1>1, <1>6
  <2> HIDE DEF f, g
  <2>4. Follows(f) /\ ~AtTop(f)
    BY <1>1, <1>4, <1>6, <2>1, <2>2, Plain, FrameIs, ThenIs
       DEF Follows, FrameOK, MemOK, AtTop, Bottom, Publishing, Storing, Waiting,
           Active, Handling
  <2>5. g \in Frames /\ FrameOK(g) /\ ~Bottom(g) /\ g.at \notin Active
        /\ (f.at \in Active => g = Log)
    BY <1>6, <2>1, <2>2, Plain, FrameIs
       DEF FrameOK, MemOK, AtTop, Bottom, Publishing, Storing, Waiting, Active,
           Handling
  <2>6. Goes(2, f, g, Log)
    BY <1>1, <1>4, <2>1, <2>2, <2>3, <2>4, <2>5, GoesOnAndCalls
  <2>7. Quiet(f, g, Log)
    BY <1>1, <1>2, <1>6, <1>4, <2>1, <2>2, FrameIs DEF Quiet, Fails, FrameOK, Storing
  <2>8. ~Sent1(f)
    BY <1>4, <2>1, <2>2, FrameIs DEF Sent1, Bottom, Storing, Waiting
  <2>9. \A x \in {f, g, Log} : x.at \notin {"acked"} \cup Storing
    BY <2>1, <2>2, FrameIs DEF Storing
  <2>10. f.mem = Top.mem /\ g.mem = <<>> /\ Log.mem = <<>>
    BY <2>1, <2>2, FrameIs
  <2>11. Idle(2, f, g, Log)
    BY <1>2, <2>8, <2>9, <2>10 DEF Idle
  <2> QED
    BY <1>3, <2>6, <2>7, <2>11
<1>7. CASE Becomes(<<Then("free"), Log>>)
  <2> DEFINE f == Then("free")
  <2>1. f \in Frames /\ f.at = "free" /\ f.kind = Top.kind /\ f.n = Top.n /\ f.mem = Top.mem
    <3>1. "free" \in Steps
      BY Zenon DEF Steps
    <3> QED
      BY <1>4, <3>1, ThenIs
  <2>2. Becomes(<<f, Log>>)
    BY <1>1, <1>7
  <2> HIDE DEF f
  <2>3. Follows(f) /\ ~AtTop(f)
    BY <1>1, <1>4, <1>7, <2>1, Plain, FrameIs, ThenIs
       DEF Follows, FrameOK, MemOK, AtTop, Bottom, Publishing, Storing, Waiting,
           Active, Handling
  <2>4. Log \in Frames /\ FrameOK(Log) /\ ~Bottom(Log) /\ Log.at \notin Active
        /\ (f.at \in Active => Log = Log)
    BY <1>7, <2>1, Plain, FrameIs
       DEF FrameOK, MemOK, AtTop, Bottom, Publishing, Storing, Waiting, Active,
           Handling
  <2>5. Goes(2, f, Log, Log)
    BY <1>1, <1>4, <2>1, <2>2, <2>3, <2>4, GoesOnAndCalls, FrameIs
  <2>6. Quiet(f, Log, Log)
    BY <1>1, <1>2, <1>7, <1>4, <2>1, FrameIs DEF Quiet, Fails, FrameOK, Storing
  <2>7. ~Sent1(f)
    BY <1>4, <2>1, FrameIs DEF Sent1, Bottom, Storing, Waiting
  <2>8. \A x \in {f, Log, Log} : x.at \notin {"acked"} \cup Storing
    BY <2>1, FrameIs DEF Storing
  <2>9. f.mem = Top.mem /\ Log.mem = <<>> /\ Log.mem = <<>>
    BY <2>1, FrameIs
  <2>10. Idle(2, f, Log, Log)
    BY <1>2, <2>7, <2>8, <2>9 DEF Idle
  <2> QED
    BY <1>3, <2>5, <2>6, <2>10
<1> QED
  BY <1>1, <1>4, <1>5, <1>6, <1>7, TopFrame DEF FrameOK, Publishing, Storing

LEMMA TrackStep ==
    ASSUME StackOK, TypeInv, CountInv, Track
    PROVE  TypeInv' /\ \E k, f, g, e : Goes(k, f, g, e) /\ Quiet(f, g, e)
<1>1. /\ stack # <<>> /\ Top.at = "track"
  BY DEF Track, At
<1>2. UNCHANGED <<serverLoggingEnabled, age, since, enabled, publishCount,
                  ipstackCorrupted, line, inbox, contents, heap, lastPubTopic,
                  lastPubPayload, waitingForPuback, pubAckRecvAttempts, packets,
                  guaranteed, unanswered>>
  BY DEF Track, At, loggingVars, lineVars, pubVars, serverVars
<1>3. /\ \/ Becomes(<<Log>>) /\ handlerAttached' = handlerAttached
         \/ Becomes(<<Then("send"), Log>>) /\ handlerAttached' = 1
  BY DEF Track, At, loggingVars, lineVars, pubVars, serverVars
<1>4. TypeInv'
  BY <1>2, <1>3 DEF TypeInv
<1>5. Top \in Frames /\ FrameOK(Top) /\ Still
  BY <1>1, <1>2, <1>3, TopFrame DEF Still
<1>6. CASE Becomes(<<Log>>) /\ handlerAttached' = handlerAttached
  <2>1. Becomes(<<Log>>)
    BY <1>1, <1>6, <1>3
  <2>2. Follows(Log)
    BY <1>1, <1>5, <1>6, Plain, FrameIs, ThenIs
       DEF Follows, FrameOK, MemOK, AtTop, Bottom, Publishing, Storing, Waiting,
           Active, Handling
  <2>3. Goes(1, Log, Log, Log)
    BY <1>1, <1>5, <2>1, <2>2, GoesOn, FrameIs
  <2>4. Quiet(Log, Log, Log)
    BY <1>1, <1>2, <1>6, <1>5, FrameIs DEF Quiet, Fails, FrameOK, Storing
  <2> QED
    BY <1>4, <2>3, <2>4
<1>7. CASE Becomes(<<Then("send"), Log>>)
  <2> DEFINE f == Then("send")
  <2>1. f \in Frames /\ f.at = "send" /\ f.kind = Top.kind /\ f.n = Top.n /\ f.mem = Top.mem
    <3>1. "send" \in Steps
      BY Zenon DEF Steps
    <3> QED
      BY <1>5, <3>1, ThenIs
  <2>2. Becomes(<<f, Log>>)
    BY <1>1, <1>7, <1>3
  <2> HIDE DEF f
  <2>3. Follows(f) /\ ~AtTop(f)
    BY <1>1, <1>5, <1>7, <2>1, Plain, FrameIs, ThenIs
       DEF Follows, FrameOK, MemOK, AtTop, Bottom, Publishing, Storing, Waiting,
           Active, Handling
  <2>4. Log \in Frames /\ FrameOK(Log) /\ ~Bottom(Log) /\ Log.at \notin Active
        /\ (f.at \in Active => Log = Log)
    BY <1>7, <2>1, Plain, FrameIs
       DEF FrameOK, MemOK, AtTop, Bottom, Publishing, Storing, Waiting, Active,
           Handling
  <2>5. Goes(2, f, Log, Log)
    BY <1>1, <1>5, <2>1, <2>2, <2>3, <2>4, GoesOnAndCalls, FrameIs
  <2>6. Quiet(f, Log, Log)
    BY <1>1, <1>2, <1>7, <1>5, <2>1, FrameIs DEF Quiet, Fails, FrameOK, Storing
  <2> QED
    BY <1>4, <2>5, <2>6
<1> QED
  BY <1>1, <1>5, <1>3, <1>6, <1>7, TopFrame DEF FrameOK, Publishing, Storing

LEMMA SendStep ==
    ASSUME StackOK, TypeInv, CountInv, Send
    PROVE  TypeInv' /\ \E k, f, g, e : Goes(k, f, g, e) /\ Quiet(f, g, e) /\ Idle(k, f, g, e)
<1>1. /\ stack # <<>> /\ Top.at = "send"
  BY DEF Send, At
<1>2. UNCHANGED <<serverLoggingEnabled, age, since, enabled, ipstackCorrupted, line,
                  inbox, contents, heap, lastPubTopic, lastPubPayload,
                  waitingForPuback, pubAckRecvAttempts, handlerAttached, packets,
                  guaranteed>>
  BY DEF Send, At, loggingVars, lineVars, pubVars, serverVars
<1>3. /\ \/ /\ Becomes(<<Then("failed"), Log>>)
            /\ publishCount' = publishCount /\ unanswered' = unanswered
         \/ /\ Becomes(<<Then("sent")>>)
            /\ publishCount' = (publishCount + 1) % Interval
            /\ unanswered' \in {1, unanswered}
         \/ /\ Becomes(<<Then("corrupted"), Log>>)
            /\ publishCount' = publishCount /\ unanswered' = unanswered
  BY DEF Send, At, loggingVars, lineVars, pubVars, serverVars
<1>4. TypeInv'
  <2>1. publishCount' \in 0..(Interval - 1)
    <3>1. publishCount \in 0..(Interval - 1) /\ Interval \in Nat \ {0}
      BY CallsAssumption DEF TypeInv, CallsAssumption
    <3>2. (publishCount + 1) % Interval \in 0..(Interval - 1)
      BY <3>1
    <3> QED
      BY <1>3, <3>1, <3>2
  <2>2. unanswered' \in 0..1
    BY <1>3 DEF TypeInv
  <2> QED
    BY <1>2, <2>1, <2>2 DEF TypeInv
<1>5. Top \in Frames /\ FrameOK(Top) /\ Still
  BY <1>1, <1>2, <1>3, TopFrame DEF Still
<1>6. CASE Becomes(<<Then("failed"), Log>>)
  <2> DEFINE f == Then("failed")
  <2>1. f \in Frames /\ f.at = "failed" /\ f.kind = Top.kind /\ f.n = Top.n /\ f.mem = Top.mem
    <3>1. "failed" \in Steps
      BY Zenon DEF Steps
    <3> QED
      BY <1>5, <3>1, ThenIs
  <2>2. Becomes(<<f, Log>>)
    BY <1>1, <1>6, <1>3
  <2> HIDE DEF f
  <2>3. Follows(f) /\ ~AtTop(f)
    BY <1>1, <1>5, <1>6, <2>1, Plain, FrameIs, ThenIs
       DEF Follows, FrameOK, MemOK, AtTop, Bottom, Publishing, Storing, Waiting,
           Active, Handling
  <2>4. Log \in Frames /\ FrameOK(Log) /\ ~Bottom(Log) /\ Log.at \notin Active
        /\ (f.at \in Active => Log = Log)
    BY <1>6, <2>1, Plain, FrameIs
       DEF FrameOK, MemOK, AtTop, Bottom, Publishing, Storing, Waiting, Active,
           Handling
  <2>5. Goes(2, f, Log, Log)
    BY <1>1, <1>5, <2>1, <2>2, <2>3, <2>4, GoesOnAndCalls, FrameIs
  <2>6. Quiet(f, Log, Log)
    BY <1>1, <1>2, <1>6, <1>5, <2>1, FrameIs DEF Quiet, Fails, FrameOK, Storing
  <2>7. Idle(2, f, Log, Log)
    BY <1>1, <1>2, <1>3, <1>6, <1>5, <2>1, FrameIs DEF Idle, Sent1, FrameOK, MemOK,
       Bottom, Publishing, Storing, Waiting, Active, Handling
  <2> QED
    BY <1>4, <2>5, <2>6, <2>7
<1>7. CASE Becomes(<<Then("sent")>>)
  <2> DEFINE f == Then("sent")
  <2>1. f \in Frames /\ f.at = "sent" /\ f.kind = Top.kind /\ f.n = Top.n /\ f.mem = Top.mem
    <3>1. "sent" \in Steps
      BY Zenon DEF Steps
    <3> QED
      BY <1>5, <3>1, ThenIs
  <2>2. Becomes(<<f>>)
    BY <1>1, <1>7, <1>3
  <2> HIDE DEF f
  <2>3. Follows(f)
    BY <1>1, <1>5, <1>7, <2>1, Plain, FrameIs, ThenIs
       DEF Follows, FrameOK, MemOK, AtTop, Bottom, Publishing, Storing, Waiting,
           Active, Handling
  <2>4. Goes(1, f, Log, Log)
    BY <1>1, <1>5, <2>1, <2>2, <2>3, GoesOn
  <2>5. Quiet(f, Log, Log)
    BY <1>1, <1>2, <1>7, <1>5, <2>1, FrameIs DEF Quiet, Fails, FrameOK, Storing
  <2>6. Idle(1, f, Log, Log)
    BY <1>1, <1>2, <1>3, <1>7, <1>5, <2>1, FrameIs DEF Idle, Sent1, FrameOK, MemOK,
       Bottom, Publishing, Storing, Waiting, Active, Handling
  <2> QED
    BY <1>4, <2>4, <2>5, <2>6
<1>8. CASE Becomes(<<Then("corrupted"), Log>>)
  <2> DEFINE f == Then("corrupted")
  <2>1. f \in Frames /\ f.at = "corrupted" /\ f.kind = Top.kind /\ f.n = Top.n /\ f.mem = Top.mem
    <3>1. "corrupted" \in Steps
      BY Zenon DEF Steps
    <3> QED
      BY <1>5, <3>1, ThenIs
  <2>2. Becomes(<<f, Log>>)
    BY <1>1, <1>8, <1>3
  <2> HIDE DEF f
  <2>3. Follows(f) /\ ~AtTop(f)
    BY <1>1, <1>5, <1>8, <2>1, Plain, FrameIs, ThenIs
       DEF Follows, FrameOK, MemOK, AtTop, Bottom, Publishing, Storing, Waiting,
           Active, Handling
  <2>4. Log \in Frames /\ FrameOK(Log) /\ ~Bottom(Log) /\ Log.at \notin Active
        /\ (f.at \in Active => Log = Log)
    BY <1>8, <2>1, Plain, FrameIs
       DEF FrameOK, MemOK, AtTop, Bottom, Publishing, Storing, Waiting, Active,
           Handling
  <2>5. Goes(2, f, Log, Log)
    BY <1>1, <1>5, <2>1, <2>2, <2>3, <2>4, GoesOnAndCalls, FrameIs
  <2>6. Quiet(f, Log, Log)
    BY <1>1, <1>2, <1>8, <1>5, <2>1, FrameIs DEF Quiet, Fails, FrameOK, Storing
  <2>7. Idle(2, f, Log, Log)
    BY <1>1, <1>2, <1>3, <1>8, <1>5, <2>1, FrameIs DEF Idle, Sent1, FrameOK, MemOK,
       Bottom, Publishing, Storing, Waiting, Active, Handling
  <2> QED
    BY <1>4, <2>5, <2>6, <2>7
<1> QED
  BY <1>1, <1>5, <1>3, <1>6, <1>7, <1>8, TopFrame DEF FrameOK, Publishing, Storing

LEMMA HeapTypeKept ==
    ASSUME NEW h, HeapType(h)
    PROVE  /\ \A n : HeapType(DEFAULT_MALLOC(h, n))
           /\ \A b : HeapType(DEFAULT_FREE(h, b))
<1>1. ASSUME NEW n PROVE HeapType(DEFAULT_MALLOC(h, n))
  BY DEF HeapType, DEFAULT_MALLOC
<1>2. ASSUME NEW b PROVE HeapType(DEFAULT_FREE(h, b))
  BY DEF HeapType, DEFAULT_FREE
<1> QED
  BY <1>1, <1>2

LEMMA PointerIs ==
    ASSUME IsHeap(heap), NEW n \in Nat
    PROVE  /\ Pointer(n) \in Block
           /\ HasRoom(heap, n) => Pointer(n) = NewBlock(heap, n) /\ Pointer(n) # NULL
           /\ ~HasRoom(heap, n) => Pointer(n) = NULL /\ DEFAULT_MALLOC(heap, n) = heap
<1>1. HEADER_SIZE \in Nat \ {0} /\ heap.currentBytesUsed \in Nat
  BY HeapAssumption DEF HeapAssumption, IsHeap
<1>2. NewBlock(heap, n) \in Block /\ NewBlock(heap, n) # NULL /\ NULL \in Block
  BY <1>1 DEF NewBlock, NULL, Block
<1> QED
  BY <1>2 DEF Pointer, DEFAULT_MALLOC

LEMMA Sizes == SMALL \in Nat /\ LARGE \in Nat
BY CallsAssumption DEF CallsAssumption

LEMMA EmitStep ==
    ASSUME StackOK, TypeInv, CountInv, Emit
    PROVE  TypeInv' /\ \E k, f, g, e : Goes(k, f, g, e) /\ Idle(k, f, g, e)
<1>1. /\ stack # <<>> /\ Top.at = "emit"
      /\ Becomes(IF serverLoggingEnabled = 1 THEN <<Publish("log")>> ELSE <<>>)
  BY DEF Emit, At
<1>2. UNCHANGED <<serverLoggingEnabled, age, since, enabled, publishCount,
                  ipstackCorrupted, line, inbox, contents, heap, lastPubTopic,
                  lastPubPayload, waitingForPuback, pubAckRecvAttempts,
                  handlerAttached, packets, guaranteed, unanswered>>
  BY DEF Emit, At, loggingVars, lineVars, pubVars, serverVars
<1>3. TypeInv'
  BY <1>2 DEF TypeInv
<1>4. Top \in Frames /\ FrameOK(Top)
  BY <1>1, <1>2, TopFrame DEF Still
<1>5. CASE serverLoggingEnabled = 1
  <2> DEFINE f == Publish("log")
  <2>1. f \in Frames /\ f.at = "publish" /\ f.kind = "log" /\ f.n = 0 /\ f.mem = <<>>
    BY FrameIs DEF Kinds
  <2>2. Becomes(<<f>>)
    BY <1>1, <1>5
  <2> HIDE DEF f
  <2>3. Follows(f)
    BY <1>1, <1>4, <1>5, <2>1, Plain, FrameIs, ThenIs
       DEF Follows, FrameOK, MemOK, AtTop, Bottom, Publishing, Storing, Waiting,
           Active, Handling
  <2>4. Goes(1, f, Log, Log)
    <3>1. Grown(1, f, Log, Log)
      BY <1>1, <2>1, <2>2, TopFrame, Grow
    <3>2. Fits(1, f, Log, Log)
      BY <2>1, <2>3, Plain DEF Fits, Follows, AtTop
    <3>3. Counts(f, Log, Log) /\ Keeps(1, f, Log, Log)
      BY <1>1, <1>2, <1>5,
                                                                <2>1,
                                                                FrameIs DEF Counts, Keeps, Active
    <3> QED
      BY <3>1, <3>2, <3>3 DEF Goes
  <2>5. Idle(1, f, Log, Log)
    BY <1>1, <1>2, <1>5, <1>4, <2>1, FrameIs DEF Idle, Sent1, FrameOK, MemOK,
       Bottom, Publishing, Storing, Waiting, Active, Handling
  <2> QED
    BY <1>3, <2>4, <2>5
<1>6. CASE serverLoggingEnabled # 1
  <2>1. Becomes(<<>>)
    BY <1>1, <1>6
  <2>2. Goes(0, Log, Log, Log)
    <3>1. Grown(0, Log, Log, Log)
      BY <1>1, <2>1, TopFrame, Grow
    <3>2. Fits(0, Log, Log, Log)
      BY Plain DEF Fits, Follows, AtTop
    <3>3. Counts(Log, Log, Log) /\ Keeps(0, Log, Log, Log)
      BY <1>1, <1>2,
                                                                    <1>6,
                                                                    FrameIs DEF Counts, Keeps, Active
    <3> QED
      BY <3>1, <3>2, <3>3 DEF Goes
  <2>3. Idle(0, Log, Log, Log)
    BY <1>1, <1>2, <1>6, <1>4, FrameIs DEF Idle, Sent1, FrameOK, MemOK,
       Bottom, Publishing, Storing, Waiting, Active, Handling
  <2> QED
    BY <1>3, <2>2, <2>3
<1> QED
  BY <1>1, <1>4, <1>5, <1>6, TopFrame DEF FrameOK, Publishing, Storing

LEMMA MetadataStep ==
    ASSUME StackOK, TypeInv, CountInv, Metadata
    PROVE  TypeInv' /\ \E k, f, g, e : Goes(k, f, g, e) /\ Idle(k, f, g, e)
<1>1. /\ stack # <<>> /\ Top.at = "log"
  BY DEF Metadata, At
<1>2. UNCHANGED <<since, enabled, publishCount, ipstackCorrupted, line, inbox,
                  contents, heap, lastPubTopic, lastPubPayload, waitingForPuback,
                  pubAckRecvAttempts, handlerAttached, packets, guaranteed,
                  unanswered>>
  BY DEF Metadata, At, loggingVars, lineVars, pubVars, serverVars
<1>3. /\ age' \in {age, 0, FRESH_SERVER_LOGS_TIME} /\ serverLoggingEnabled' \in {0, serverLoggingEnabled}
      /\ \/ Becomes(<<Then("emit"), Publish("notice")>>) /\ serverLoggingEnabled = 1
         \/ Becomes(<<Then("emit")>>)
  BY DEF Metadata, At, loggingVars, lineVars, pubVars, serverVars
<1>4. TypeInv'
  BY <1>2, <1>3, CallsAssumption DEF TypeInv, CallsAssumption, FRESH_SERVER_LOGS_TIME
<1>5. Top \in Frames /\ FrameOK(Top)
  BY <1>1, <1>2, <1>3, TopFrame DEF Still
<1>6. CASE Becomes(<<Then("emit"), Publish("notice")>>) /\ serverLoggingEnabled = 1
  <2> DEFINE f == Then("emit")
  <2> DEFINE g == Publish("notice")
  <2>1. f \in Frames /\ f.at = "emit" /\ f.kind = Top.kind /\ f.n = Top.n /\ f.mem = Top.mem
    <3>1. "emit" \in Steps
      BY Zenon DEF Steps
    <3> QED
      BY <1>5, <3>1, ThenIs
  <2>2. g \in Frames /\ g.at = "publish" /\ g.kind = "notice" /\ g.n = 0 /\ g.mem = <<>>
    BY FrameIs DEF Kinds
  <2>3. Becomes(<<f, g>>)
    BY <1>1, <1>6, <1>3
  <2> HIDE DEF f, g
  <2>4. Follows(f) /\ ~AtTop(f)
    BY <1>1, <1>5, <1>6, <2>1, <2>2, Plain, FrameIs, ThenIs
       DEF Follows, FrameOK, MemOK, AtTop, Bottom, Publishing, Storing, Waiting,
           Active, Handling
  <2>5. g \in Frames /\ FrameOK(g) /\ ~Bottom(g) /\ g.at \notin Active
        /\ (f.at \in Active => g = Log)
    BY <1>6, <2>1, <2>2, Plain, FrameIs
       DEF FrameOK, MemOK, AtTop, Bottom, Publishing, Storing, Waiting, Active,
           Handling
  <2>6. Goes(2, f, g, Log)
    <3>1. Grown(2, f, g, Log)
      BY <1>1, <2>1, <2>2, <2>3, TopFrame, Grow
    <3>2. Fits(2, f, g, Log)
      BY <2>1, <2>2, <2>4, <2>5,
                                      Plain DEF Fits, Follows, AtTop
    <3>3. Counts(f, g, Log) /\ Keeps(2, f, g, Log)
      BY <1>1, <1>2, <1>3, <1>6,
                                                            <2>1, <2>2,
                                                            FrameIs DEF Counts, Keeps, Active
    <3> QED
      BY <3>1, <3>2, <3>3 DEF Goes
  <2>7. Idle(2, f, g, Log)
    BY <1>1, <1>2, <1>3, <1>6, <1>5, <2>1, <2>2, FrameIs DEF Idle, Sent1, FrameOK, MemOK,
       Bottom, Publishing, Storing, Waiting, Active, Handling
  <2> QED
    BY <1>4, <2>6, <2>7
<1>7. CASE Becomes(<<Then("emit")>>)
  <2> DEFINE f == Then("emit")
  <2>1. f \in Frames /\ f.at = "emit" /\ f.kind = Top.kind /\ f.n = Top.n /\ f.mem = Top.mem
    <3>1. "emit" \in Steps
      BY Zenon DEF Steps
    <3> QED
      BY <1>5, <3>1, ThenIs
  <2>2. Becomes(<<f>>)
    BY <1>1, <1>7, <1>3
  <2> HIDE DEF f
  <2>3. Follows(f)
    BY <1>1, <1>5, <1>7, <2>1, Plain, FrameIs, ThenIs
       DEF Follows, FrameOK, MemOK, AtTop, Bottom, Publishing, Storing, Waiting,
           Active, Handling
  <2>4. Goes(1, f, Log, Log)
    <3>1. Grown(1, f, Log, Log)
      BY <1>1, <2>1, <2>2, TopFrame, Grow
    <3>2. Fits(1, f, Log, Log)
      BY <2>1, <2>3, Plain DEF Fits, Follows, AtTop
    <3>3. Counts(f, Log, Log) /\ Keeps(1, f, Log, Log)
      BY <1>1, <1>2, <1>3,
                                                                <1>7, <2>1,
                                                                FrameIs DEF Counts, Keeps, Active
    <3> QED
      BY <3>1, <3>2, <3>3 DEF Goes
  <2>5. Idle(1, f, Log, Log)
    BY <1>1, <1>2, <1>3, <1>7, <1>5, <2>1, FrameIs DEF Idle, Sent1, FrameOK, MemOK,
       Bottom, Publishing, Storing, Waiting, Active, Handling
  <2> QED
    BY <1>4, <2>4, <2>5
<1> QED
  BY <1>1, <1>5, <1>3, <1>6, <1>7, TopFrame DEF FrameOK, Publishing, Storing

LEMMA PublishStartShortStep ==
    ASSUME StackOK, TypeInv, CountInv, PublishStart, Top.kind # "sure"
    PROVE  TypeInv' /\ \E k, f, g, e : Goes(k, f, g, e) /\ Idle(k, f, g, e)
<1>1. /\ stack # <<>> /\ Top.at = "publish"
      /\ Becomes(IF Top.kind \in {"log", "notice"} THEN <<Then("send")>>
                 ELSE <<Then("send"), Log>>)
  <2>1. stack # <<>> /\ Top.at = "publish"
    BY DEF PublishStart, At
  <2>2. Top.kind \in {"log", "notice", "app"}
    BY <2>1, TopFrame DEF FrameOK, Publishing
  <2> QED
    BY <2>1, <2>2 DEF PublishStart
<1>2. UNCHANGED <<publishCount, ipstackCorrupted, line, inbox, contents, heap,
                  lastPubTopic, lastPubPayload, pubAckRecvAttempts, handlerAttached,
                  packets, guaranteed, unanswered>>
  BY DEF PublishStart, At, ASecond, loggingVars, lineVars, pubVars, serverVars
<1>3. /\ ASecond /\ waitingForPuback' \in {"waiting", waitingForPuback}
      /\ UNCHANGED <<serverLoggingEnabled, enabled>>
  BY DEF PublishStart, At, ASecond, loggingVars, lineVars, pubVars, serverVars
<1>4. TypeInv'
  BY <1>2, <1>3, CallsAssumption, SecondType DEF TypeInv, CallsAssumption
<1>5. Top \in Frames /\ FrameOK(Top) /\ Still
  BY <1>1, <1>2, <1>3, TopFrame DEF Still
<1>6. CASE Top.kind \in {"log", "notice"}
  <2> DEFINE f == Then("send")
  <2>1. f \in Frames /\ f.at = "send" /\ f.kind = Top.kind /\ f.n = Top.n /\ f.mem = Top.mem
    <3>1. "send" \in Steps
      BY Zenon DEF Steps
    <3> QED
      BY <1>5, <3>1, ThenIs
  <2>2. Becomes(<<f>>)
    BY <1>1, <1>6, <1>3
  <2> HIDE DEF f
  <2>3. Follows(f)
    BY <1>1, <1>5, <1>6, <2>1, Plain, FrameIs, ThenIs
       DEF Follows, FrameOK, MemOK, AtTop, Bottom, Publishing, Storing, Waiting,
           Active, Handling
  <2>4. Goes(1, f, Log, Log)
    BY <1>1, <1>5, <2>1, <2>2, <2>3, GoesOn
  <2>5. Idle(1, f, Log, Log)
    BY <1>1, <1>2, <1>3, <1>6, <1>5, <2>1, FrameIs DEF Idle, Sent1, FrameOK, MemOK,
       Bottom, Publishing, Storing, Waiting, Active, Handling
  <2> QED
    BY <1>4, <2>4, <2>5
<1>7. CASE Top.kind \notin {"log", "notice"}
  <2> DEFINE f == Then("send")
  <2>1. f \in Frames /\ f.at = "send" /\ f.kind = Top.kind /\ f.n = Top.n /\ f.mem = Top.mem
    <3>1. "send" \in Steps
      BY Zenon DEF Steps
    <3> QED
      BY <1>5, <3>1, ThenIs
  <2>2. Becomes(<<f, Log>>)
    BY <1>1, <1>7, <1>3
  <2> HIDE DEF f
  <2>3. Follows(f) /\ ~AtTop(f)
    BY <1>1, <1>5, <1>7, <2>1, Plain, FrameIs, ThenIs
       DEF Follows, FrameOK, MemOK, AtTop, Bottom, Publishing, Storing, Waiting,
           Active, Handling
  <2>4. Log \in Frames /\ FrameOK(Log) /\ ~Bottom(Log) /\ Log.at \notin Active
        /\ (f.at \in Active => Log = Log)
    BY <1>7, <2>1, Plain, FrameIs
       DEF FrameOK, MemOK, AtTop, Bottom, Publishing, Storing, Waiting, Active,
           Handling
  <2>5. Goes(2, f, Log, Log)
    BY <1>1, <1>5, <2>1, <2>2, <2>3, <2>4, GoesOnAndCalls, FrameIs
  <2>6. Idle(2, f, Log, Log)
    BY <1>1, <1>2, <1>3, <1>7, <1>5, <2>1, FrameIs DEF Idle, Sent1, FrameOK, MemOK,
       Bottom, Publishing, Storing, Waiting, Active, Handling
  <2> QED
    BY <1>4, <2>5, <2>6
<1> QED
  BY <1>1, <1>5, <1>3, <1>6, <1>7, TopFrame DEF FrameOK, Publishing, Storing

LEMMA PublishStartSureStep ==
    ASSUME StackOK, TypeInv, CountInv, PublishStart, Top.kind = "sure"
    PROVE  TypeInv' /\ handlerAttached' = 0
           /\ UNCHANGED <<heap, lastPubTopic, lastPubPayload>>
           /\ Goes(1, Then("topic"), Log, Log)
<1>1. /\ stack # <<>> /\ Top.at = "publish"
      /\ Becomes(<<Then("topic")>>)
  BY DEF PublishStart, At
<1>2. UNCHANGED <<publishCount, ipstackCorrupted, line, inbox, contents, heap,
                  lastPubTopic, lastPubPayload, pubAckRecvAttempts, packets,
                  guaranteed>>
  BY DEF PublishStart, At, ASecond, loggingVars, lineVars, pubVars, serverVars
<1>3. /\ ASecond /\ waitingForPuback' \in {"waiting", waitingForPuback}
      /\ UNCHANGED <<serverLoggingEnabled, enabled>>
      /\ handlerAttached' = 0 /\ unanswered' = 0
  BY DEF PublishStart, At, ASecond, loggingVars, lineVars, pubVars, serverVars
<1>4. TypeInv'
  BY <1>2, <1>3, CallsAssumption, SecondType DEF TypeInv, CallsAssumption
<1>5. Top \in Frames /\ FrameOK(Top) /\ Still
  BY <1>1, <1>2, <1>3, TopFrame DEF Still
<1> DEFINE f == Then("topic")
<1>6. f \in Frames /\ f.at = "topic" /\ f.kind = Top.kind /\ f.n = Top.n /\ f.mem = Top.mem
  <2>1. "topic" \in Steps
    BY Zenon DEF Steps
  <2> QED
    BY <1>5, <2>1, ThenIs
<1>7. Becomes(<<f>>)
  BY <1>1, <1>3
<1> HIDE DEF f
<1>8. Follows(f)
  BY <1>1, <1>5, <1>6, Plain, FrameIs, ThenIs
     DEF Follows, FrameOK, MemOK, AtTop, Bottom, Publishing, Storing, Waiting,
         Active, Handling
<1>9. Goes(1, f, Log, Log)
  BY <1>1, <1>5, <1>6, <1>7, <1>8, GoesOn
<1> QED
  BY <1>4, <1>9, <1>2, <1>3 DEF f

LEMMA AllocateTopicStep ==
    ASSUME StackOK, TypeInv, CountInv, AllocateTopic, IsHeap(heap)
    PROVE  TypeInv' /\ \E k \in 1..2 : /\ Goes(k, Then("payload"), Log, Log)
                                  /\ Quiet(Then("payload"), Log, Log)
<1>1. /\ stack # <<>> /\ Top.at = "topic"
      /\ Becomes(<<Then("payload")>> \o LogIf(Announces(heap, SMALL)))
  BY DEF AllocateTopic, At
<1>2. UNCHANGED <<serverLoggingEnabled, age, since, enabled, publishCount,
                  ipstackCorrupted, line, inbox, contents, lastPubPayload,
                  waitingForPuback, pubAckRecvAttempts, handlerAttached, packets,
                  guaranteed, unanswered>>
  BY DEF AllocateTopic, At, Malloc, loggingVars, lineVars, pubVars, serverVars
<1>3. /\ heap' = DEFAULT_MALLOC(heap, SMALL) /\ lastPubTopic' = Pointer(SMALL)
  BY DEF AllocateTopic, At, Malloc, loggingVars, lineVars, pubVars, serverVars
<1>4. TypeInv'
  BY <1>2, <1>3, HeapTypeKept, PointerIs, Sizes DEF TypeInv
<1>5. Top \in Frames /\ FrameOK(Top) /\ Still
  BY <1>1, <1>2, <1>3, TopFrame DEF Still
<1>6. CASE Announces(heap, SMALL)
  <2> DEFINE f == Then("payload")
  <2>1. f \in Frames /\ f.at = "payload" /\ f.kind = Top.kind /\ f.n = Top.n /\ f.mem = Top.mem
    <3>1. "payload" \in Steps
      BY Zenon DEF Steps
    <3> QED
      BY <1>5, <3>1, ThenIs
  <2>2. Becomes(<<f, Log>>)
    BY <1>1, <1>6, Tuples, <1>3 DEF LogIf
  <2> HIDE DEF f
  <2>3. Follows(f) /\ ~AtTop(f)
    BY <1>1, <1>5, <1>6, <2>1, Plain, FrameIs, ThenIs
       DEF Follows, FrameOK, MemOK, AtTop, Bottom, Publishing, Storing, Waiting,
           Active, Handling
  <2>4. Log \in Frames /\ FrameOK(Log) /\ ~Bottom(Log) /\ Log.at \notin Active
        /\ (f.at \in Active => Log = Log)
    BY <1>6, <2>1, Plain, FrameIs
       DEF FrameOK, MemOK, AtTop, Bottom, Publishing, Storing, Waiting, Active,
           Handling
  <2>5. Goes(2, f, Log, Log)
    BY <1>1, <1>5, <2>1, <2>2, <2>3, <2>4, GoesOnAndCalls, FrameIs
  <2>6. Quiet(f, Log, Log)
    BY <1>1, <1>2, <1>6, <1>5, <2>1, FrameIs DEF Quiet, Fails, FrameOK, Storing
  <2> QED
    BY <1>4, <2>5, <2>6 DEF f
<1>7. CASE ~Announces(heap, SMALL)
  <2> DEFINE f == Then("payload")
  <2>1. f \in Frames /\ f.at = "payload" /\ f.kind = Top.kind /\ f.n = Top.n /\ f.mem = Top.mem
    <3>1. "payload" \in Steps
      BY Zenon DEF Steps
    <3> QED
      BY <1>5, <3>1, ThenIs
  <2>2. Becomes(<<f>>)
    BY <1>1, <1>7, Tuples, <1>3 DEF LogIf
  <2> HIDE DEF f
  <2>3. Follows(f)
    BY <1>1, <1>5, <1>7, <2>1, Plain, FrameIs, ThenIs
       DEF Follows, FrameOK, MemOK, AtTop, Bottom, Publishing, Storing, Waiting,
           Active, Handling
  <2>4. Goes(1, f, Log, Log)
    BY <1>1, <1>5, <2>1, <2>2, <2>3, GoesOn
  <2>5. Quiet(f, Log, Log)
    BY <1>1, <1>2, <1>7, <1>5, <2>1, FrameIs DEF Quiet, Fails, FrameOK, Storing
  <2> QED
    BY <1>4, <2>4, <2>5 DEF f
<1> QED
  BY <1>1, <1>5, <1>3, <1>6, <1>7, TopFrame DEF FrameOK, Publishing, Storing

LEMMA AllocatePayloadStep ==
    ASSUME StackOK, TypeInv, CountInv, AllocatePayload, IsHeap(heap)
    PROVE  TypeInv' /\ \E k \in 1..2 : /\ Goes(k, Then("track"), Log, Log)
                                  /\ Quiet(Then("track"), Log, Log)
<1>1. /\ stack # <<>> /\ Top.at = "payload"
      /\ Becomes(<<Then("track")>> \o LogIf(Announces(heap, LARGE)))
  BY DEF AllocatePayload, At
<1>2. UNCHANGED <<serverLoggingEnabled, age, since, enabled, publishCount,
                  ipstackCorrupted, line, inbox, contents, lastPubTopic,
                  waitingForPuback, pubAckRecvAttempts, handlerAttached, packets,
                  guaranteed, unanswered>>
  BY DEF AllocatePayload, At, Malloc, loggingVars, lineVars, pubVars, serverVars
<1>3. /\ heap' = DEFAULT_MALLOC(heap, LARGE) /\ lastPubPayload' = Pointer(LARGE)
  BY DEF AllocatePayload, At, Malloc, loggingVars, lineVars, pubVars, serverVars
<1>4. TypeInv'
  BY <1>2, <1>3, HeapTypeKept, PointerIs, Sizes DEF TypeInv
<1>5. Top \in Frames /\ FrameOK(Top) /\ Still
  BY <1>1, <1>2, <1>3, TopFrame DEF Still
<1>6. CASE Announces(heap, LARGE)
  <2> DEFINE f == Then("track")
  <2>1. f \in Frames /\ f.at = "track" /\ f.kind = Top.kind /\ f.n = Top.n /\ f.mem = Top.mem
    <3>1. "track" \in Steps
      BY Zenon DEF Steps
    <3> QED
      BY <1>5, <3>1, ThenIs
  <2>2. Becomes(<<f, Log>>)
    BY <1>1, <1>6, Tuples, <1>3 DEF LogIf
  <2> HIDE DEF f
  <2>3. Follows(f) /\ ~AtTop(f)
    BY <1>1, <1>5, <1>6, <2>1, Plain, FrameIs, ThenIs
       DEF Follows, FrameOK, MemOK, AtTop, Bottom, Publishing, Storing, Waiting,
           Active, Handling
  <2>4. Log \in Frames /\ FrameOK(Log) /\ ~Bottom(Log) /\ Log.at \notin Active
        /\ (f.at \in Active => Log = Log)
    BY <1>6, <2>1, Plain, FrameIs
       DEF FrameOK, MemOK, AtTop, Bottom, Publishing, Storing, Waiting, Active,
           Handling
  <2>5. Goes(2, f, Log, Log)
    BY <1>1, <1>5, <2>1, <2>2, <2>3, <2>4, GoesOnAndCalls, FrameIs
  <2>6. Quiet(f, Log, Log)
    BY <1>1, <1>2, <1>6, <1>5, <2>1, FrameIs DEF Quiet, Fails, FrameOK, Storing
  <2> QED
    BY <1>4, <2>5, <2>6 DEF f
<1>7. CASE ~Announces(heap, LARGE)
  <2> DEFINE f == Then("track")
  <2>1. f \in Frames /\ f.at = "track" /\ f.kind = Top.kind /\ f.n = Top.n /\ f.mem = Top.mem
    <3>1. "track" \in Steps
      BY Zenon DEF Steps
    <3> QED
      BY <1>5, <3>1, ThenIs
  <2>2. Becomes(<<f>>)
    BY <1>1, <1>7, Tuples, <1>3 DEF LogIf
  <2> HIDE DEF f
  <2>3. Follows(f)
    BY <1>1, <1>5, <1>7, <2>1, Plain, FrameIs, ThenIs
       DEF Follows, FrameOK, MemOK, AtTop, Bottom, Publishing, Storing, Waiting,
           Active, Handling
  <2>4. Goes(1, f, Log, Log)
    BY <1>1, <1>5, <2>1, <2>2, <2>3, GoesOn
  <2>5. Quiet(f, Log, Log)
    BY <1>1, <1>2, <1>7, <1>5, <2>1, FrameIs DEF Quiet, Fails, FrameOK, Storing
  <2> QED
    BY <1>4, <2>4, <2>5 DEF f
<1> QED
  BY <1>1, <1>5, <1>3, <1>6, <1>7, TopFrame DEF FrameOK, Publishing, Storing

LEMMA SavedStep ==
    ASSUME StackOK, TypeInv, CountInv, Saved
    PROVE  TypeInv' /\ Goes(2, Frame("give up"), Log, Log) /\ Quiet(Frame("give up"), Log, Log)
<1>1. /\ stack # <<>> /\ Top.at = "saved"
      /\ Becomes(<<Frame("give up"), Log>>)
  BY DEF Saved, At
<1>2. UNCHANGED <<serverLoggingEnabled, age, since, enabled, publishCount,
                  ipstackCorrupted, line, inbox, contents, lastPubTopic,
                  lastPubPayload, waitingForPuback, pubAckRecvAttempts,
                  handlerAttached, packets, guaranteed, unanswered>>
  BY DEF Saved, At, loggingVars, lineVars, pubVars, serverVars
<1>3. /\ heap' = DEFAULT_FREE(heap, Top.mem[1])
  BY DEF Saved, At, loggingVars, lineVars, pubVars, serverVars
<1>4. TypeInv'
  BY <1>2, <1>3, HeapTypeKept DEF TypeInv
<1>5. Top \in Frames /\ FrameOK(Top) /\ Still
  BY <1>1, <1>2, <1>3, TopFrame DEF Still
<1> DEFINE f == Frame("give up")
<1>6. f \in Frames /\ f.at = "give up" /\ f.kind = "none" /\ f.n = 0 /\ f.mem = <<>>
  BY FrameIs DEF Steps
<1>7. Becomes(<<f, Log>>)
  BY <1>1, <1>3
<1> HIDE DEF f
<1>8. Follows(f) /\ ~AtTop(f)
  BY <1>1, <1>5, <1>6, Plain, FrameIs, ThenIs
     DEF Follows, FrameOK, MemOK, AtTop, Bottom, Publishing, Storing, Waiting,
         Active, Handling
<1>9. Log \in Frames /\ FrameOK(Log) /\ ~Bottom(Log) /\ Log.at \notin Active
      /\ (f.at \in Active => Log = Log)
  BY <1>6, Plain, FrameIs
     DEF FrameOK, MemOK, AtTop, Bottom, Publishing, Storing, Waiting, Active,
         Handling
<1>10. Goes(2, f, Log, Log)
  BY <1>1, <1>5, <1>6, <1>7, <1>8, <1>9, GoesOnAndCalls, FrameIs
<1>11. Quiet(f, Log, Log)
  BY <1>1, <1>2, <1>5, <1>6, FrameIs DEF Quiet, Fails, FrameOK, Storing
<1> QED
  BY <1>4, <1>10, <1>11 DEF f

LEMMA GiveUpStep ==
    ASSUME StackOK, TypeInv, CountInv, GiveUp
    PROVE  TypeInv' /\ Goes(0, Log, Log, Log) /\ Quiet(Log, Log, Log)
<1>1. /\ stack # <<>> /\ Top.at = "give up"
      /\ Becomes(<<>>)
  BY DEF GiveUp, At
<1>2. UNCHANGED <<serverLoggingEnabled, age, since, enabled, publishCount,
                  ipstackCorrupted, line, inbox, contents, pubAckRecvAttempts,
                  handlerAttached, packets, guaranteed, unanswered>>
  BY DEF GiveUp, At, loggingVars, lineVars, pubVars, serverVars
<1>3. /\ FreeLastPubMessageResources /\ waitingForPuback' = "timeout"
  BY DEF GiveUp, At, loggingVars, lineVars, pubVars, serverVars
<1>4. TypeInv'
  <2>1. HeapType(heap) /\ NULL \in Block
    BY DEF TypeInv, Block, NULL
  <2>2. HeapType(heap')
    BY <1>3, <2>1, HeapTypeKept DEF FreeLastPubMessageResources, FreeIf
  <2>3. lastPubTopic' \in Block /\ lastPubPayload' \in Block
    BY <1>3, <2>1 DEF FreeLastPubMessageResources
  <2> QED
    BY <1>2, <1>3, <2>2, <2>3, CallsAssumption DEF TypeInv, CallsAssumption
<1>5. Top \in Frames /\ FrameOK(Top) /\ Still
  BY <1>1, <1>2, <1>3, TopFrame DEF Still
<1>6. Becomes(<<>>)
  BY <1>1, <1>3
<1>7. Goes(0, Log, Log, Log)
  BY <1>1, <1>5, <1>6, Pops
<1>8. Quiet(Log, Log, Log)
  BY <1>1, <1>2, <1>5, FrameIs DEF Quiet, Fails, FrameOK, Storing
<1> QED
  BY <1>4, <1>7, <1>8

LEMMA AckedStep ==
    ASSUME StackOK, TypeInv, CountInv, Acked
    PROVE  TypeInv' /\ Goes(0, Log, Log, Log) /\ Quiet(Log, Log, Log)
<1>1. /\ stack # <<>> /\ Top.at = "acked"
      /\ Becomes(<<>>)
  BY DEF Acked, At
<1>2. UNCHANGED <<serverLoggingEnabled, age, since, enabled, publishCount,
                  ipstackCorrupted, line, inbox, contents, handlerAttached, packets,
                  guaranteed, unanswered>>
  BY DEF Acked, At, loggingVars, lineVars, pubVars, serverVars
<1>3. /\ FreeLastPubMessageResources /\ waitingForPuback' = "not" /\ pubAckRecvAttempts' = 0
  BY DEF Acked, At, loggingVars, lineVars, pubVars, serverVars
<1>4. TypeInv'
  <2>1. HeapType(heap) /\ NULL \in Block
    BY DEF TypeInv, Block, NULL
  <2>2. HeapType(heap')
    BY <1>3, <2>1, HeapTypeKept DEF FreeLastPubMessageResources, FreeIf
  <2>3. lastPubTopic' \in Block /\ lastPubPayload' \in Block
    BY <1>3, <2>1 DEF FreeLastPubMessageResources
  <2> QED
    BY <1>2, <1>3, <2>2, <2>3, CallsAssumption DEF TypeInv, CallsAssumption
<1>5. Top \in Frames /\ FrameOK(Top) /\ Still
  BY <1>1, <1>2, <1>3, TopFrame DEF Still
<1>6. Becomes(<<>>)
  BY <1>1, <1>3
<1>7. Goes(0, Log, Log, Log)
  BY <1>1, <1>5, <1>6, Pops
<1>8. Quiet(Log, Log, Log)
  BY <1>1, <1>2, <1>5, FrameIs DEF Quiet, Fails, FrameOK, Storing
<1> QED
  BY <1>4, <1>7, <1>8

LEMMA FreeStep ==
    ASSUME StackOK, TypeInv, CountInv, Free
    PROVE  TypeInv' /\ Goes(0, Log, Log, Log) /\ Quiet(Log, Log, Log)
<1>1. /\ stack # <<>> /\ Top.at = "free"
      /\ Becomes(<<>>)
  BY DEF Free, At
<1>2. UNCHANGED <<serverLoggingEnabled, age, since, enabled, publishCount,
                  ipstackCorrupted, line, inbox, contents, lastPubTopic,
                  lastPubPayload, waitingForPuback, pubAckRecvAttempts,
                  handlerAttached, packets, guaranteed, unanswered>>
  BY DEF Free, At, loggingVars, lineVars, pubVars, serverVars
<1>3. /\ heap' = FreeAll(heap, Top.mem)
  BY DEF Free, At, loggingVars, lineVars, pubVars, serverVars
<1>4. TypeInv'
  <2>1. HeapType(heap)
    BY DEF TypeInv
  <2>2. \A k, h, blocks : HeapType(h) => HeapType(FreeNth(k, h, blocks))
    BY HeapTypeKept DEF FreeNth
  <2>3. HeapType(heap')
    BY <1>3, <2>1, <2>2 DEF FreeAll
  <2> QED
    BY <1>2, <2>3 DEF TypeInv
<1>5. Top \in Frames /\ FrameOK(Top) /\ Still
  BY <1>1, <1>2, <1>3, TopFrame DEF Still
<1>6. Becomes(<<>>)
  BY <1>1, <1>3
<1>7. Goes(0, Log, Log, Log)
  BY <1>1, <1>5, <1>6, Pops
<1>8. Quiet(Log, Log, Log)
  BY <1>1, <1>2, <1>5, FrameIs DEF Quiet, Fails, FrameOK, Storing
<1> QED
  BY <1>4, <1>7, <1>8

(* The frame of a call that has allocated one block more.                  *)
Carrying(s, m) == [Then(s) EXCEPT !.mem = m]

LEMMA CarryingIs ==
    ASSUME Top \in Frames, NEW s \in Steps, NEW m \in Seq(Block)
    PROVE  /\ Carrying(s, m) \in Frames /\ Carrying(s, m).at = s
           /\ Carrying(s, m).kind = Top.kind /\ Carrying(s, m).n = Top.n
           /\ Carrying(s, m).mem = m
<1>1. Then(s) \in Frames /\ Then(s).at = s /\ Then(s).kind = Top.kind /\ Then(s).n = Top.n
  BY ThenIs
<1> QED
  BY <1>1 DEF Carrying, Frames

LEMMA SaveStep ==
    ASSUME StackOK, TypeInv, CountInv, IsHeap(heap), Save
    PROVE  /\ TypeInv' /\ heap' = DEFAULT_MALLOC(heap, LARGE)
           /\ UNCHANGED <<lastPubTopic, lastPubPayload, handlerAttached>>
           /\ \/ /\ HasRoom(heap, LARGE)
                 /\ \E k \in 1..2 : \E f :
                      /\ f = Carrying("saved", <<Pointer(LARGE)>>)
                      /\ Goes(k, f, Log, Log) /\ Quiet(f, Log, Log)
              \/ ~HasRoom(heap, LARGE) /\ Goes(2, Log, Log, Log) /\ Quiet(Log, Log, Log)
<1> DEFINE f == Carrying("saved", <<Pointer(LARGE)>>)
<1>1. /\ stack # <<>> /\ Top.at = "save" /\ heap' = DEFAULT_MALLOC(heap, LARGE)
      /\ HasRoom(heap, LARGE) => Becomes(<<f>> \o LogIf(Announces(heap, LARGE)))
      /\ ~HasRoom(heap, LARGE) => Becomes(<<Log, Log>>)
  BY DEF Save, At, Malloc, Carrying
<1>2. UNCHANGED <<serverLoggingEnabled, age, since, enabled, publishCount,
                  ipstackCorrupted, line, inbox, contents, lastPubTopic,
                  lastPubPayload, waitingForPuback, pubAckRecvAttempts,
                  handlerAttached, packets, guaranteed, unanswered>>
  BY DEF Save, loggingVars, lineVars, serverVars
<1>3. TypeInv'
  BY <1>1, <1>2, HeapTypeKept DEF TypeInv
<1>4. Top \in Frames /\ FrameOK(Top) /\ Still
  BY <1>1, <1>2, TopFrame DEF Still
<1>5. /\ f \in Frames /\ f.at = "saved" /\ f.kind = Top.kind /\ f.n = Top.n
      /\ f.mem = <<Pointer(LARGE)>>
  <2>1. <<Pointer(LARGE)>> \in Seq(Block)
    BY PointerIs, Sizes
  <2> QED
    <3> DEFINE m == <<Pointer(LARGE)>>
    <3>1. "saved" \in Steps /\ m \in Seq(Block)
      BY <2>1 DEF Steps
    <3> HIDE DEF m
    <3>2. /\ Carrying("saved", m) \in Frames /\ Carrying("saved", m).at = "saved"
          /\ Carrying("saved", m).kind = Top.kind /\ Carrying("saved", m).n = Top.n
          /\ Carrying("saved", m).mem = m
      BY <1>4, <3>1, CarryingIs
    <3> QED
      BY <3>2 DEF m
<1> HIDE DEF f
<1>6. Follows(f) /\ ~AtTop(f) /\ f.at \notin Active
  <2>1. Len(f.mem) = 1
    BY <1>5
  <2>2. MemOK(f)
    BY <1>5, <2>1 DEF MemOK
  <2>3. FrameOK(f)
    BY <1>5, <2>2 DEF FrameOK, Publishing, Storing, Active, Handling
  <2> QED
    BY <1>1, <1>5, <2>3 DEF Follows, Bottom, Waiting, Active, AtTop
<1>7. /\ Log \in Frames /\ FrameOK(Log) /\ ~Bottom(Log) /\ ~AtTop(Log)
      /\ Log.at \notin Active /\ Follows(Log)
  BY FrameIs, Plain DEF Follows
<1>8. CASE HasRoom(heap, LARGE) /\ Announces(heap, LARGE)
  <2>1. Becomes(<<f, Log>>)
    BY <1>1, <1>8, Tuples DEF LogIf
  <2>2. Goes(2, f, Log, Log)
    BY <1>1, <1>4, <1>5, <1>6, <1>7, <2>1, GoesOnAndCalls
  <2>3. Quiet(f, Log, Log)
    BY <1>1, <1>2, <1>5, FrameIs DEF Quiet, Fails
  <2> QED
    BY <1>1, <1>2, <1>3, <1>8, <2>2, <2>3 DEF f
<1>9. CASE HasRoom(heap, LARGE) /\ ~Announces(heap, LARGE)
  <2>1. Becomes(<<f>>)
    BY <1>1, <1>9, Tuples DEF LogIf
  <2>2. Goes(1, f, Log, Log)
    BY <1>1, <1>4, <1>5, <1>6, <2>1, GoesOn
  <2>3. Quiet(f, Log, Log)
    BY <1>1, <1>2, <1>5, FrameIs DEF Quiet, Fails
  <2> QED
    BY <1>1, <1>2, <1>3, <1>9, <2>2, <2>3 DEF f
<1>10. CASE ~HasRoom(heap, LARGE)
  <2>1. Goes(2, Log, Log, Log)
    BY <1>1, <1>4, <1>7, <1>10, GoesOnAndCalls
  <2>2. Quiet(Log, Log, Log)
    BY <1>1, <1>2, FrameIs DEF Quiet, Fails
  <2> QED
    BY <1>1, <1>2, <1>3, <1>10, <2>1, <2>2
<1> QED
  BY <1>8, <1>9, <1>10

(* What the allocation of a handler changes besides the stack.             *)
LEMMA AllocateRest ==
    ASSUME TypeInv, NEW n, NEW next, NEW otherwise, Allocate(n, next, otherwise)
    PROVE  /\ TypeInv' /\ heap' = DEFAULT_MALLOC(heap, n)
           /\ UNCHANGED <<serverLoggingEnabled, age, since, enabled, inbox, contents,
                          lastPubTopic, lastPubPayload, handlerAttached, packets,
                          guaranteed>>
           /\ Becomes((IF HasRoom(heap, n)
                       THEN <<Carrying(next, Append(Top.mem, Pointer(n)))>>
                       ELSE otherwise) \o LogIf(Announces(heap, n)))
<1>1. /\ heap' = DEFAULT_MALLOC(heap, n)
      /\ UNCHANGED <<serverLoggingEnabled, age, since, enabled, publishCount,
                     ipstackCorrupted, line, inbox, contents, lastPubTopic,
                     lastPubPayload, waitingForPuback, pubAckRecvAttempts,
                     handlerAttached, packets, guaranteed, unanswered>>
  BY DEF Allocate, Malloc, loggingVars, lineVars, serverVars
<1>2. TypeInv'
  BY <1>1, HeapTypeKept DEF TypeInv
<1>3. Becomes((IF HasRoom(heap, n)
               THEN <<[Then(next) EXCEPT !.mem = Append(@, Pointer(n))]>>
               ELSE otherwise) \o LogIf(Announces(heap, n)))
  BY DEF Allocate
<1>4. [Then(next) EXCEPT !.mem = Append(@, Pointer(n))]
        = Carrying(next, Append(Top.mem, Pointer(n)))
  BY DEF Carrying, Then
<1> QED
  BY <1>1, <1>2, <1>3, <1>4

LEMMA AllocateRoom ==
    ASSUME StackOK, TypeInv, IsHeap(heap), stack # <<>>, Top.at \in Handling,
           NEW n \in Nat, NEW next \in Handling, NEW otherwise,
           Allocate(n, next, otherwise), HasRoom(heap, n),
           next \in Active => Top.at \in Active,
           \A f : f.at = next /\ Len(f.mem) = Len(Top.mem) + 1 => MemOK(f)
    PROVE  \E k \in 1..2 : \E f :
              /\ f = Carrying(next, Append(Top.mem, Pointer(n)))
              /\ Goes(k, f, Log, Log) /\ Quiet(f, Log, Log)
<1> DEFINE m == Append(Top.mem, Pointer(n))
<1> DEFINE f == Carrying(next, m)
<1>1. /\ UNCHANGED <<serverLoggingEnabled, age, since, enabled, inbox, contents,
                     packets, guaranteed>>
      /\ Becomes(<<f>> \o LogIf(Announces(heap, n)))
  BY AllocateRest
<1>2. Top \in Frames /\ FrameOK(Top) /\ Still /\ Top.at \notin {"log", "emit"}
  <2>1. Top.at \notin {"log", "emit"}
    BY DEF Handling, Active
  <2> QED
    BY <1>1, <2>1, TopFrame DEF Still
<1>3. m \in Seq(Block) /\ Len(m) = Len(Top.mem) + 1
  <2>1. Top.mem \in Seq(Block) /\ Pointer(n) \in Block
    BY <1>2, ThenIs, PointerIs
  <2> QED
    BY <2>1
<1>4. next \in Steps
  BY DEF Handling, Active, Steps
<1> HIDE DEF m
<1>5. f \in Frames /\ f.at = next /\ f.kind = Top.kind /\ f.n = Top.n /\ f.mem = m
  BY <1>2, <1>3, <1>4, CarryingIs
<1> HIDE DEF f
<1>6. Follows(f) /\ ~AtTop(f)
  <2>1. MemOK(f)
    BY <1>3, <1>5
  <2>2. Top.kind \in {"message", "enable", "disable"}
    BY <1>2 DEF FrameOK
  <2>3. FrameOK(f) /\ ~Bottom(f) /\ ~AtTop(f)
    BY <1>5, <2>1, <2>2
       DEF FrameOK, Bottom, AtTop, Publishing, Storing, Waiting, Active, Handling
  <2> QED
    BY <1>5, <2>3 DEF Follows
<1>7. Log \in Frames /\ FrameOK(Log) /\ ~Bottom(Log) /\ Log.at \notin Active
  BY FrameIs, Plain
<1>8. Quiet(f, Log, Log)
  <2>1. f.at \notin {"emit", "publish", "send", "failed", "corrupted"}
    BY <1>5 DEF Handling, Active
  <2> QED
    BY <1>1, <1>2, <2>1, FrameIs DEF Quiet, Fails
<1>9. CASE Announces(heap, n)
  <2>1. Becomes(<<f, Log>>)
    BY <1>1, <1>9, Tuples DEF LogIf
  <2>2. Goes(2, f, Log, Log)
    BY <1>2, <1>5, <1>6, <1>7, <2>1, GoesOnAndCalls
  <2> QED
    BY <1>8, <2>2 DEF f, m
<1>10. CASE ~Announces(heap, n)
  <2>1. Becomes(<<f>>)
    BY <1>1, <1>10, Tuples DEF LogIf
  <2>2. Goes(1, f, Log, Log)
    BY <1>2, <1>5, <1>6, <2>1, GoesOn
  <2> QED
    BY <1>8, <2>2 DEF f, m
<1> QED
  BY <1>9, <1>10

(* Without room it goes on with what its caller says, and a log.           *)
LEMMA AllocateNot ==
    ASSUME StackOK, TypeInv, IsHeap(heap), stack # <<>>, Top.at \in Handling,
           NEW n \in Nat, NEW next, NEW otherwise,
           Allocate(n, next, otherwise), ~HasRoom(heap, n)
    PROVE  /\ Becomes(otherwise \o <<Log>>) /\ Still /\ heap' = heap
           /\ Top \in Frames /\ FrameOK(Top) /\ Top.kind \in {"message", "enable", "disable"}
           /\ UNCHANGED <<serverLoggingEnabled, age, since, enabled, lastPubTopic,
                          lastPubPayload, handlerAttached>>
<1>1. /\ UNCHANGED <<serverLoggingEnabled, age, since, enabled, inbox, contents,
                     lastPubTopic, lastPubPayload, handlerAttached, packets, guaranteed>>
      /\ heap' = DEFAULT_MALLOC(heap, n)
      /\ Becomes(otherwise \o LogIf(Announces(heap, n)))
  BY AllocateRest
<1>2. Announces(heap, n) /\ heap' = heap
  BY <1>1, PointerIs DEF Announces
<1>3. Top.at \notin {"log", "emit"}
  BY DEF Handling, Active
<1>4. Top \in Frames /\ FrameOK(Top)
  BY TopFrame
<1>5. Top.kind \in {"message", "enable", "disable"}
  BY <1>4 DEF FrameOK
<1> QED
  BY <1>1, <1>2, <1>3, <1>4, <1>5 DEF LogIf, Still

(* Then the frame keeps what it has, or the handler is left.               *)
LEMMA AllocateEnds ==
    ASSUME StackOK, TypeInv, IsHeap(heap), stack # <<>>, Top.at \in Handling,
           NEW n \in Nat, NEW next, NEW otherwise,
           Allocate(n, next, otherwise), ~HasRoom(heap, n)
    PROVE  \/ otherwise = <<Log>> /\ Top.mem = <<>>
           \/ otherwise = <<Then("free"), Log>>
           \/ otherwise = <<Then("only logging")>> /\ Top.at \in Active /\ Len(Top.mem) <= 1
           \/ otherwise = <<Then("no memory")>> /\ Len(Top.mem) <= 2
           => \E k, f, g, e : Goes(k, f, g, e) /\ Quiet(f, g, e) /\ Idle(k, f, g, e)
<1>1. /\ Becomes(otherwise \o <<Log>>) /\ Still /\ heap' = heap
      /\ Top \in Frames /\ FrameOK(Top) /\ Top.kind \in {"message", "enable", "disable"}
      /\ UNCHANGED <<serverLoggingEnabled, age, since, enabled, lastPubTopic,
                     lastPubPayload, handlerAttached>>
  BY AllocateNot
<1>2. /\ Log \in Frames /\ FrameOK(Log) /\ ~Bottom(Log) /\ Log.at \notin Active
      /\ ~AtTop(Log) /\ Follows(Log) /\ Log.mem = <<>> /\ Log.at = "log"
  BY FrameIs, Plain DEF Follows
<1>3. Top.at # "log" /\ Top.at \in Handling
  BY DEF Handling, Active
<1>4. CASE otherwise = <<Log>> /\ Top.mem = <<>>
  <2>1. Becomes(<<Log, Log>>)
    BY <1>1, <1>4, Tuples
  <2>2. Goes(2, Log, Log, Log)
    BY <1>1, <1>2, <2>1, GoesOnAndCalls
  <2>3. Quiet(Log, Log, Log)
    BY <1>1, <1>2, <1>3 DEF Quiet, Fails
  <2>4. Idle(2, Log, Log, Log)
    BY <1>1, <1>2, <1>4 DEF Idle, Storing, Sent1
  <2> QED
    BY <2>2, <2>3, <2>4
<1>5. ASSUME NEW s \in {"free", "only logging", "no memory"},
             s = "only logging" => Top.at \in Active /\ Len(Top.mem) <= 1,
             s = "no memory" => Len(Top.mem) <= 2
      PROVE  /\ Then(s) \in Frames /\ Follows(Then(s)) /\ ~AtTop(Then(s))
             /\ Quiet(Then(s), Log, Log)
             /\ \A k : k >= 1 => Idle(k, Then(s), Log, Log)
  <2> DEFINE f == Then(s)
  <2>1. s \in Steps
    BY DEF Steps
  <2>2. /\ f \in Frames /\ f.at = s /\ f.kind = Top.kind /\ f.n = Top.n
        /\ f.mem = Top.mem /\ Len(Top.mem) \in Nat
    BY <1>1, <2>1, ThenIs
  <2> HIDE DEF f
  <2>3. MemOK(f)
    <3>1. Len(Top.mem) <= 3 /\ MemOK(Top)
      BY <1>1 DEF FrameOK, MemOK
    <3>2. s \in (Handling \ {"topic name"})
      BY DEF Handling, Active
    <3> QED
      BY <1>5, <2>2, <3>1, <3>2 DEF MemOK
  <2>4. FrameOK(f) /\ ~Bottom(f) /\ ~AtTop(f)
    BY <1>1, <2>2, <2>3
       DEF FrameOK, Bottom, AtTop, Publishing, Storing, Waiting, Active, Handling
  <2>5. Follows(f)
    BY <1>5, <2>2, <2>4 DEF Follows, Active
  <2>6. Quiet(f, Log, Log)
    BY <1>1, <1>2, <1>3, <2>2 DEF Quiet, Fails
  <2>7. \A x \in {f, Log, Log} : x.at \notin {"acked"} \cup Storing
    BY <1>2, <2>2 DEF Storing
  <2>8. \A k : k >= 1 => Idle(k, f, Log, Log)
    BY <1>1, <1>2, <2>2, <2>4, <2>7 DEF Idle, Sent1
  <2> QED
    BY <2>2, <2>4, <2>5, <2>6, <2>8 DEF f
<1>6. CASE otherwise = <<Then("free"), Log>>
  <2>1. Becomes(<<Then("free"), Log, Log>>)
    <3>1. ASSUME NEW a, NEW b PROVE <<a, b>> \o <<b>> = <<a, b, b>>
      BY Tuples
    <3> QED
      BY <1>1, <1>6, <3>1, Zenon
  <2>2. /\ Then("free") \in Frames /\ Follows(Then("free")) /\ ~AtTop(Then("free"))
        /\ Quiet(Then("free"), Log, Log) /\ Idle(3, Then("free"), Log, Log)
    <3>1. "free" # "only logging" /\ "free" # "no memory"
      BY Zenon
    <3>2. 3 >= 1
      BY SMT
    <3> QED
      BY <1>5, <3>1, <3>2, Zenon
  <2>3. Then("free").at \notin Active
    BY <1>1, ThenIs DEF Steps, Active
  <2>4. Goes(3, Then("free"), Log, Log)
    BY <1>1, <1>2, <2>1, <2>2, <2>3, GoesOnAndLogs
  <2> QED
    BY <2>2, <2>4
<1>7. CASE otherwise = <<Then("only logging")>> /\ Top.at \in Active /\ Len(Top.mem) <= 1
  <2> DEFINE f == Then("only logging")
  <2>1. Becomes(<<f, Log>>)
    BY <1>1, <1>7, Tuples
  <2>2. f \in Frames /\ Follows(f) /\ ~AtTop(f) /\ Quiet(f, Log, Log) /\ Idle(2, f, Log, Log)
    <3>1. "only logging" # "no memory"
      BY Zenon
    <3>2. 2 >= 1
      BY SMT
    <3> QED
      BY <1>5, <1>7, <3>1, <3>2, Zenon
  <2> HIDE DEF f
  <2>3. Goes(2, f, Log, Log)
    BY <1>1, <1>2, <2>1, <2>2, GoesOnAndCalls
  <2> QED
    BY <2>2, <2>3
<1>8. CASE otherwise = <<Then("no memory")>> /\ Len(Top.mem) <= 2
  <2> DEFINE f == Then("no memory")
  <2>1. Becomes(<<f, Log>>)
    BY <1>1, <1>8, Tuples
  <2>2. f \in Frames /\ Follows(f) /\ ~AtTop(f) /\ Quiet(f, Log, Log) /\ Idle(2, f, Log, Log)
    <3>1. "no memory" # "only logging"
      BY Zenon
    <3>2. 2 >= 1
      BY SMT
    <3> QED
      BY <1>5, <1>8, <3>1, <3>2, Zenon
  <2> HIDE DEF f
  <2>3. Goes(2, f, Log, Log)
    BY <1>1, <1>2, <2>1, <2>2, GoesOnAndCalls
  <2> QED
    BY <2>2, <2>3
<1> QED
  BY <1>4, <1>6, <1>7, <1>8

(* A handler that has allocated a block, or has not.                       *)
Allocates(n) ==
    /\ n \in Nat /\ stack # <<>> /\ Top.at \in Handling
    /\ heap' = DEFAULT_MALLOC(heap, n)
    /\ UNCHANGED <<lastPubTopic, lastPubPayload, handlerAttached>>
    /\ \/ /\ HasRoom(heap, n)
          /\ \E k \in 1..2 : \E f :
               /\ f.at \in Handling /\ f.kind = Top.kind
               /\ f.mem = Append(Top.mem, NewBlock(heap, n))
               /\ Goes(k, f, Log, Log) /\ Quiet(f, Log, Log)
       \/ \E k, f, g, e : Goes(k, f, g, e) /\ Quiet(f, g, e) /\ Idle(k, f, g, e)

LEMMA AllocatesOne ==
    ASSUME StackOK, TypeInv, CountInv, IsHeap(heap), stack # <<>>,
           NEW n \in Nat, NEW next \in Handling, NEW otherwise,
           Allocate(n, next, otherwise), Top.at \in Handling,
           next \in Active => Top.at \in Active,
           \A f : f.at = next /\ Len(f.mem) = Len(Top.mem) + 1 => MemOK(f)
    PROVE  \/ otherwise = <<Log>> /\ Top.mem = <<>>
           \/ otherwise = <<Then("free"), Log>>
           \/ otherwise = <<Then("only logging")>> /\ Top.at \in Active /\ Len(Top.mem) <= 1
           \/ otherwise = <<Then("no memory")>> /\ Len(Top.mem) <= 2
           => TypeInv' /\ Allocates(n)
<1>1. /\ TypeInv' /\ heap' = DEFAULT_MALLOC(heap, n)
      /\ UNCHANGED <<lastPubTopic, lastPubPayload, handlerAttached>>
  BY AllocateRest
<1>2. Top \in Frames
  BY TopFrame
<1>3. ASSUME HasRoom(heap, n) PROVE Allocates(n)
  <2>1. PICK k, f : /\ k \in 1..2 /\ f = Carrying(next, Append(Top.mem, Pointer(n)))
                     /\ Goes(k, f, Log, Log) /\ Quiet(f, Log, Log)
    BY <1>3, AllocateRoom
  <2>2. Append(Top.mem, Pointer(n)) \in Seq(Block) /\ next \in Steps
    <3>1. Top.mem \in Seq(Block) /\ Pointer(n) \in Block
      BY <1>2, ThenIs, PointerIs
    <3>2. Append(Top.mem, Pointer(n)) \in Seq(Block)
      BY <3>1
    <3>3. next \in Steps
      BY DEF Handling, Active, Steps
    <3> QED
      BY <3>2, <3>3
  <2>3. f.at = next /\ f.kind = Top.kind /\ f.mem = Append(Top.mem, Pointer(n))
    BY <1>2, <2>1, <2>2, CarryingIs
  <2>4. f.mem = Append(Top.mem, NewBlock(heap, n))
    BY <1>3, <2>3, PointerIs
  <2> QED
    BY <1>1, <1>3, <2>1, <2>3, <2>4 DEF Allocates
<1>4. ASSUME ~HasRoom(heap, n),
             \/ otherwise = <<Log>> /\ Top.mem = <<>>
             \/ otherwise = <<Then("free"), Log>>
             \/ otherwise = <<Then("only logging")>> /\ Top.at \in Active /\ Len(Top.mem) <= 1
             \/ otherwise = <<Then("no memory")>> /\ Len(Top.mem) <= 2
      PROVE  Allocates(n)
  <2>1. \E k, f, g, e : Goes(k, f, g, e) /\ Quiet(f, g, e) /\ Idle(k, f, g, e)
    BY <1>4, AllocateEnds, Zenon
  <2> QED
    BY <1>1, <2>1 DEF Allocates
<1> QED
  BY <1>1, <1>3, <1>4

LEMMA MayCarry ==
    ASSUME NEW f, NEW m \in Nat, Len(f.mem) = m + 1
    PROVE  /\ f.at \in {"message", "enable", "disable"} /\ m = 0 => MemOK(f)
           /\ f.at \in {"peer", "logging", "no memory"} /\ m <= 1 => MemOK(f)
           /\ f.at \in {"body", "switch"} /\ m <= 2 => MemOK(f)
<1> DEFINE n == Len(f.mem)
<1>1. /\ m = 0 => n <= 1 /\ n <= 2 /\ n <= 3
      /\ m <= 1 => n <= 2 /\ n <= 3
      /\ m <= 2 => n <= 3
  OBVIOUS
<1> HIDE DEF n
<1>2. ASSUME n <= 3, f.at \in (Handling \ {"topic name"}), f.at # "saved",
             f.at \in {"message", "peer message", "enable", "disable", "only logging"} => n <= 1,
             f.at \in {"peer", "logging", "no memory"} => n <= 2
      PROVE  MemOK(f)
  BY <1>2, Zenon DEF MemOK, n
<1>3. /\ f.at \in {"message", "enable", "disable", "peer", "logging", "no memory", "body", "switch"}
           => f.at \in (Handling \ {"topic name"}) /\ f.at # "saved"
      /\ f.at \in {"message", "enable", "disable"} => f.at \notin {"peer", "logging", "no memory"}
      /\ f.at \in {"peer", "logging", "no memory", "body", "switch"}
           => f.at \notin {"message", "peer message", "enable", "disable", "only logging"}
      /\ f.at \in {"body", "switch"} => f.at \notin {"peer", "logging", "no memory"}
  <2> DEFINE at == f.at
  <2> HIDE DEF at
  <2>1. /\ at \in {"message", "enable", "disable", "peer", "logging", "no memory", "body", "switch"}
             => at \in (Handling \ {"topic name"}) /\ at # "saved"
        /\ at \in {"message", "enable", "disable"} => at \notin {"peer", "logging", "no memory"}
        /\ at \in {"peer", "logging", "no memory", "body", "switch"}
             => at \notin {"message", "peer message", "enable", "disable", "only logging"}
        /\ at \in {"body", "switch"} => at \notin {"peer", "logging", "no memory"}
    BY DEF Handling, Active
  <2> QED
    BY <2>1 DEF at
<1>4. /\ {"message", "enable", "disable"} \subseteq {"message", "enable", "disable", "peer", "logging", "no memory", "body", "switch"}
      /\ {"peer", "logging", "no memory"} \subseteq {"message", "enable", "disable", "peer", "logging", "no memory", "body", "switch"}
      /\ {"body", "switch"} \subseteq {"message", "enable", "disable", "peer", "logging", "no memory", "body", "switch"}
      /\ {"peer", "logging", "no memory"} \subseteq {"peer", "logging", "no memory", "body", "switch"}
      /\ {"body", "switch"} \subseteq {"peer", "logging", "no memory", "body", "switch"}
  BY Zenon
<1>5. ASSUME f.at \in {"message", "enable", "disable"}, m = 0 PROVE MemOK(f)
  BY <1>1, <1>2, <1>3, <1>4, <1>5, Zenon
<1>6. ASSUME f.at \in {"peer", "logging", "no memory"}, m <= 1 PROVE MemOK(f)
  BY <1>1, <1>2, <1>3, <1>4, <1>6, Zenon
<1>7. ASSUME f.at \in {"body", "switch"}, m <= 2 PROVE MemOK(f)
  BY <1>1, <1>2, <1>3, <1>4, <1>7, Zenon
<1> QED
  BY <1>5, <1>6, <1>7

LEMMA CopyTopicNameStep ==
    ASSUME StackOK, TypeInv, CountInv, IsHeap(heap), CopyTopicName
    PROVE  TypeInv' /\ \E n : Allocates(n)
<1>1. stack # <<>> /\ Top.at = "topic name" /\ Allocate(LARGE, Top.kind, <<Log>>)
  BY DEF CopyTopicName, At
<1>2. Top \in Frames /\ FrameOK(Top) /\ LARGE \in Nat
  BY <1>1, TopFrame, Sizes
<1>3. MemOK(Top) /\ Len(Top.mem) \in Nat
  BY <1>2, ThenIs DEF FrameOK
<1>4. Top.mem = <<>> /\ Len(Top.mem) = 0
  BY <1>1, <1>3 DEF MemOK, Handling, Active
<1>5. Top.at \in Handling /\ Top.at \in Active
  BY <1>1 DEF Handling, Active
<1>6. Top.kind \in Handling /\ Top.kind \notin {"topic name", "saved"}
  BY <1>1, <1>2 DEF FrameOK, Handling, Active
<1>7. \A f : f.at = Top.kind /\ Len(f.mem) = Len(Top.mem) + 1 => MemOK(f)
  <2> SUFFICES ASSUME NEW f, f.at = Top.kind, Len(f.mem) = Len(Top.mem) + 1
               PROVE  MemOK(f)
    OBVIOUS
  <2>1. f.at \in {"message", "enable", "disable"}
    BY <1>1, <1>2 DEF FrameOK, Handling, Active
  <2> QED
    BY <1>3, <1>4, <2>1, MayCarry
<1>8. \/ <<Log>> = <<Log>> /\ Top.mem = <<>>
      \/ <<Log>> = <<Then("free"), Log>>
      \/ <<Log>> = <<Then("only logging")>> /\ Top.at \in Active /\ Len(Top.mem) <= 1
      \/ <<Log>> = <<Then("no memory")>> /\ Len(Top.mem) <= 2
  BY <1>4, <1>5
<1>9. TypeInv' /\ Allocates(LARGE)
  BY <1>1, <1>2, <1>5, <1>6, <1>7, <1>8, AllocatesOne, Zenon
<1> QED
  BY <1>9

LEMMA AllocatePeerMessageStep ==
    ASSUME StackOK, TypeInv, CountInv, IsHeap(heap), AllocatePeerMessage
    PROVE  TypeInv' /\ \E n : Allocates(n)
<1>1. stack # <<>> /\ Top.at = "peer message" /\ Allocate(LARGE, "peer", <<Then("free"), Log>>)
  BY DEF AllocatePeerMessage, At
<1>2. Top \in Frames /\ FrameOK(Top) /\ LARGE \in Nat
  BY <1>1, TopFrame, Sizes
<1>3. MemOK(Top) /\ Len(Top.mem) \in Nat
  BY <1>2, ThenIs DEF FrameOK
<1>4. Len(Top.mem) <= 1
  BY <1>1, <1>3 DEF MemOK, Handling, Active
<1>5. Top.at \in Handling /\ Top.at \in Active
  BY <1>1 DEF Handling, Active
<1>6. "peer" \in Handling /\ "peer" \notin {"topic name", "saved"}
  BY <1>1, <1>2 DEF FrameOK, Handling, Active
<1>7. \A f : f.at = "peer" /\ Len(f.mem) = Len(Top.mem) + 1 => MemOK(f)
  <2> SUFFICES ASSUME NEW f, f.at = "peer", Len(f.mem) = Len(Top.mem) + 1
               PROVE  MemOK(f)
    OBVIOUS
  <2>1. f.at \in {"peer", "logging", "no memory"}
    OBVIOUS
  <2> QED
    BY <1>3, <1>4, <2>1, MayCarry
<1>8. \/ <<Then("free"), Log>> = <<Log>> /\ Top.mem = <<>>
      \/ <<Then("free"), Log>> = <<Then("free"), Log>>
      \/ <<Then("free"), Log>> = <<Then("only logging")>> /\ Top.at \in Active /\ Len(Top.mem) <= 1
      \/ <<Then("free"), Log>> = <<Then("no memory")>> /\ Len(Top.mem) <= 2
  BY <1>4, <1>5
<1>9. TypeInv' /\ Allocates(LARGE)
  BY <1>1, <1>2, <1>5, <1>6, <1>7, <1>8, AllocatesOne, Zenon
<1> QED
  BY <1>9

LEMMA AllocatePeerStep ==
    ASSUME StackOK, TypeInv, CountInv, IsHeap(heap), AllocatePeer
    PROVE  TypeInv' /\ \E n : Allocates(n)
<1>1. stack # <<>> /\ Top.at = "peer" /\ Allocate(SMALL, "body", <<Then("free"), Log>>)
  BY DEF AllocatePeer, At
<1>2. Top \in Frames /\ FrameOK(Top) /\ SMALL \in Nat
  BY <1>1, TopFrame, Sizes
<1>3. MemOK(Top) /\ Len(Top.mem) \in Nat
  BY <1>2, ThenIs DEF FrameOK
<1>4. Len(Top.mem) <= 2
  BY <1>1, <1>3 DEF MemOK, Handling, Active
<1>5. Top.at \in Handling /\ Top.at \in Active
  BY <1>1 DEF Handling, Active
<1>6. "body" \in Handling /\ "body" \notin {"topic name", "saved"}
  BY <1>1, <1>2 DEF FrameOK, Handling, Active
<1>7. \A f : f.at = "body" /\ Len(f.mem) = Len(Top.mem) + 1 => MemOK(f)
  <2> SUFFICES ASSUME NEW f, f.at = "body", Len(f.mem) = Len(Top.mem) + 1
               PROVE  MemOK(f)
    OBVIOUS
  <2>1. f.at \in {"body", "switch"}
    OBVIOUS
  <2> QED
    BY <1>3, <1>4, <2>1, MayCarry
<1>8. \/ <<Then("free"), Log>> = <<Log>> /\ Top.mem = <<>>
      \/ <<Then("free"), Log>> = <<Then("free"), Log>>
      \/ <<Then("free"), Log>> = <<Then("only logging")>> /\ Top.at \in Active /\ Len(Top.mem) <= 1
      \/ <<Then("free"), Log>> = <<Then("no memory")>> /\ Len(Top.mem) <= 2
  BY <1>4, <1>5
<1>9. TypeInv' /\ Allocates(SMALL)
  BY <1>1, <1>2, <1>5, <1>6, <1>7, <1>8, AllocatesOne, Zenon
<1> QED
  BY <1>9

LEMMA AllocateClientIdStep ==
    ASSUME StackOK, TypeInv, CountInv, IsHeap(heap), AllocateClientId
    PROVE  TypeInv' /\ \E n : Allocates(n)
<1>1. CASE At("enable")
  <2>1. stack # <<>> /\ Top.at = "enable" /\ Allocate(LARGE, "logging", <<Then("only logging")>>)
    BY <1>1 DEF AllocateClientId, At
  <2>2. Top \in Frames /\ FrameOK(Top) /\ LARGE \in Nat
    BY <2>1, TopFrame, Sizes
  <2>3. MemOK(Top) /\ Len(Top.mem) \in Nat
    BY <2>2, ThenIs DEF FrameOK
  <2>4. Len(Top.mem) <= 1
    BY <2>1, <2>3 DEF MemOK, Handling, Active
  <2>5. Top.at \in Handling /\ Top.at \in Active
    BY <2>1 DEF Handling, Active
  <2>6. "logging" \in Handling /\ "logging" \notin {"topic name", "saved"}
    BY <2>1, <2>2 DEF FrameOK, Handling, Active
  <2>7. \A f : f.at = "logging" /\ Len(f.mem) = Len(Top.mem) + 1 => MemOK(f)
    <3> SUFFICES ASSUME NEW f, f.at = "logging", Len(f.mem) = Len(Top.mem) + 1
                 PROVE  MemOK(f)
      OBVIOUS
    <3>1. f.at \in {"peer", "logging", "no memory"}
      OBVIOUS
    <3> QED
      BY <2>3, <2>4, <3>1, MayCarry
  <2>8. \/ <<Then("only logging")>> = <<Log>> /\ Top.mem = <<>>
        \/ <<Then("only logging")>> = <<Then("free"), Log>>
        \/ <<Then("only logging")>> = <<Then("only logging")>> /\ Top.at \in Active /\ Len(Top.mem) <= 1
        \/ <<Then("only logging")>> = <<Then("no memory")>> /\ Len(Top.mem) <= 2
    BY <2>4, <2>5
  <2>9. TypeInv' /\ Allocates(LARGE)
    BY <2>1, <2>2, <2>5, <2>6, <2>7, <2>8, AllocatesOne, Zenon
  <2> QED
    BY <2>9
<1>2. CASE At("disable")
  <2>1. stack # <<>> /\ Top.at = "disable" /\ Allocate(LARGE, "logging", <<Then("only logging")>>)
    BY <1>2 DEF AllocateClientId, At
  <2>2. Top \in Frames /\ FrameOK(Top) /\ LARGE \in Nat
    BY <2>1, TopFrame, Sizes
  <2>3. MemOK(Top) /\ Len(Top.mem) \in Nat
    BY <2>2, ThenIs DEF FrameOK
  <2>4. Len(Top.mem) <= 1
    BY <2>1, <2>3 DEF MemOK, Handling, Active
  <2>5. Top.at \in Handling /\ Top.at \in Active
    BY <2>1 DEF Handling, Active
  <2>6. "logging" \in Handling /\ "logging" \notin {"topic name", "saved"}
    BY <2>1, <2>2 DEF FrameOK, Handling, Active
  <2>7. \A f : f.at = "logging" /\ Len(f.mem) = Len(Top.mem) + 1 => MemOK(f)
    <3> SUFFICES ASSUME NEW f, f.at = "logging", Len(f.mem) = Len(Top.mem) + 1
                 PROVE  MemOK(f)
      OBVIOUS
    <3>1. f.at \in {"peer", "logging", "no memory"}
      OBVIOUS
    <3> QED
      BY <2>3, <2>4, <3>1, MayCarry
  <2>8. \/ <<Then("only logging")>> = <<Log>> /\ Top.mem = <<>>
        \/ <<Then("only logging")>> = <<Then("free"), Log>>
        \/ <<Then("only logging")>> = <<Then("only logging")>> /\ Top.at \in Active /\ Len(Top.mem) <= 1
        \/ <<Then("only logging")>> = <<Then("no memory")>> /\ Len(Top.mem) <= 2
    BY <2>4, <2>5
  <2>9. TypeInv' /\ Allocates(LARGE)
    BY <2>1, <2>2, <2>5, <2>6, <2>7, <2>8, AllocatesOne, Zenon
  <2> QED
    BY <2>9
<1> QED
  BY <1>1, <1>2 DEF AllocateClientId

LEMMA AllocateLoggingStep ==
    ASSUME StackOK, TypeInv, CountInv, IsHeap(heap), AllocateLogging
    PROVE  TypeInv' /\ \E n : Allocates(n)
<1>1. CASE At("logging") /\ Allocate(LARGE, "switch", <<Then("no memory")>>)
  <2>1. stack # <<>> /\ Top.at = "logging" /\ Allocate(LARGE, "switch", <<Then("no memory")>>)
    BY <1>1 DEF At
  <2>2. Top \in Frames /\ FrameOK(Top) /\ LARGE \in Nat
    BY <2>1, TopFrame, Sizes
  <2>3. MemOK(Top) /\ Len(Top.mem) \in Nat
    BY <2>2, ThenIs DEF FrameOK
  <2>4. Len(Top.mem) <= 2
    BY <2>1, <2>3 DEF MemOK, Handling, Active
  <2>5. Top.at \in Handling /\ Top.at \in Active
    BY <2>1 DEF Handling, Active
  <2>6. "switch" \in Handling /\ "switch" \notin {"topic name", "saved"}
    BY <2>1, <2>2 DEF FrameOK, Handling, Active
  <2>7. \A f : f.at = "switch" /\ Len(f.mem) = Len(Top.mem) + 1 => MemOK(f)
    <3> SUFFICES ASSUME NEW f, f.at = "switch", Len(f.mem) = Len(Top.mem) + 1
                 PROVE  MemOK(f)
      OBVIOUS
    <3>1. f.at \in {"body", "switch"}
      OBVIOUS
    <3> QED
      BY <2>3, <2>4, <3>1, MayCarry
  <2>8. \/ <<Then("no memory")>> = <<Log>> /\ Top.mem = <<>>
        \/ <<Then("no memory")>> = <<Then("free"), Log>>
        \/ <<Then("no memory")>> = <<Then("only logging")>> /\ Top.at \in Active /\ Len(Top.mem) <= 1
        \/ <<Then("no memory")>> = <<Then("no memory")>> /\ Len(Top.mem) <= 2
    BY <2>4, <2>5
  <2>9. TypeInv' /\ Allocates(LARGE)
    BY <2>1, <2>2, <2>5, <2>6, <2>7, <2>8, AllocatesOne, Zenon
  <2> QED
    BY <2>9
<1>2. CASE At("only logging") /\ Allocate(LARGE, "no memory", <<Then("no memory")>>)
  <2>1. stack # <<>> /\ Top.at = "only logging" /\ Allocate(LARGE, "no memory", <<Then("no memory")>>)
    BY <1>2 DEF At
  <2>2. Top \in Frames /\ FrameOK(Top) /\ LARGE \in Nat
    BY <2>1, TopFrame, Sizes
  <2>3. MemOK(Top) /\ Len(Top.mem) \in Nat
    BY <2>2, ThenIs DEF FrameOK
  <2>4. Len(Top.mem) <= 1 /\ Len(Top.mem) <= 2
    <3>1. Len(Top.mem) <= 1
      BY <2>1, <2>3 DEF MemOK, Handling, Active
    <3> QED
      BY <2>3, <3>1
  <2>5. Top.at \in Handling /\ Top.at \in Active
    BY <2>1 DEF Handling, Active
  <2>6. "no memory" \in Handling /\ "no memory" \notin {"topic name", "saved"}
    BY <2>1, <2>2 DEF FrameOK, Handling, Active
  <2>7. \A f : f.at = "no memory" /\ Len(f.mem) = Len(Top.mem) + 1 => MemOK(f)
    <3> SUFFICES ASSUME NEW f, f.at = "no memory", Len(f.mem) = Len(Top.mem) + 1
                 PROVE  MemOK(f)
      OBVIOUS
    <3>1. f.at \in {"peer", "logging", "no memory"}
      OBVIOUS
    <3> QED
      BY <2>3, <2>4, <3>1, MayCarry
  <2>8. \/ <<Then("no memory")>> = <<Log>> /\ Top.mem = <<>>
        \/ <<Then("no memory")>> = <<Then("free"), Log>>
        \/ <<Then("no memory")>> = <<Then("only logging")>> /\ Top.at \in Active /\ Len(Top.mem) <= 1
        \/ <<Then("no memory")>> = <<Then("no memory")>> /\ Len(Top.mem) <= 2
    BY <2>4, <2>5
  <2>9. TypeInv' /\ Allocates(LARGE)
    BY <2>1, <2>2, <2>5, <2>6, <2>7, <2>8, AllocatesOne, Zenon
  <2> QED
    BY <2>9
<1> QED
  BY <1>1, <1>2 DEF AllocateLogging

(* The handler switches the logs on or off, or finds nothing to do.        *)
LEMMA SwitchCases ==
    Switch => \/ SwitchTo(TRUE)
              \/ SwitchTo(FALSE)
              \/ Becomes(<<Then("free")>>) /\ UNCHANGED loggingVars
<1>1. ASSUME NEW on \in BOOLEAN, SwitchTo(on)
      PROVE  SwitchTo(TRUE) \/ SwitchTo(FALSE)
  BY <1>1
<1>2. (Top.kind = "enable") \in BOOLEAN
  OBVIOUS
<1> QED
  BY <1>1, <1>2, Zenon DEF Switch

LEMMA SwitchStep ==
    ASSUME StackOK, TypeInv, CountInv, Switch
    PROVE  TypeInv' /\ \E k, f, g, e : Goes(k, f, g, e) /\ Idle(k, f, g, e)
<1>1. /\ stack # <<>> /\ Top.at = "switch"
      /\ Becomes(<<Then("free"), Log>>) \/ Becomes(<<Then("free")>>)
  BY SwitchCases DEF Switch, At, SwitchTo
<1>2. UNCHANGED <<publishCount, ipstackCorrupted, line, inbox, contents, heap,
                  lastPubTopic, lastPubPayload, waitingForPuback, pubAckRecvAttempts,
                  handlerAttached, packets, guaranteed, unanswered>>
  BY DEF Switch, lineVars, pubVars, serverVars
<1>3. /\ serverLoggingEnabled' \in {0, 1, serverLoggingEnabled}
      /\ age' \in {age, FRESH_SERVER_LOGS_TIME} /\ since' \in {since, 0}
      /\ enabled' \in {enabled, enabled + 1}
  BY SwitchCases DEF SwitchTo, loggingVars
<1>4. enabled' = enabled => serverLoggingEnabled' \in {0, serverLoggingEnabled}
  <2>1. enabled + 1 # enabled
    BY DEF CountInv
  <2> QED
    BY <2>1, SwitchCases DEF SwitchTo, loggingVars
<1>5. TypeInv'
  BY <1>2, <1>3, CallsAssumption DEF TypeInv, CallsAssumption, FRESH_SERVER_LOGS_TIME
<1>6. Top \in Frames /\ FrameOK(Top)
  BY <1>1, TopFrame
<1> DEFINE f == Then("free")
<1>7. f \in Frames /\ f.at = "free" /\ f.kind = Top.kind /\ f.n = Top.n /\ f.mem = Top.mem
  <2>1. "free" \in Steps
    BY Zenon DEF Steps
  <2> QED
    BY <1>6, <2>1, ThenIs
<1>8. Becomes(<<f, Log>>) \/ Becomes(<<f>>)
  BY <1>1
<1> HIDE DEF f
<1>10. FrameOK(f) /\ ~AtTop(f) /\ ~Bottom(f) /\ f.at \notin Active
  <2>1. MemOK(f)
    <3>1. MemOK(Top) /\ Top.at # "topic name" /\ Len(Top.mem) <= 3
      BY <1>1, <1>6 DEF FrameOK, MemOK
    <3>2. f.at \in Handling \ {"topic name"} /\ f.at # "saved"
      BY <1>7 DEF Handling, Active
    <3> QED
      BY <1>7, <3>1, <3>2 DEF MemOK
  <2>2. f.kind \in {"message", "enable", "disable"}
    BY <1>1, <1>6, <1>7 DEF FrameOK, Handling, Active
  <2> QED
    BY <1>7, <2>1, <2>2
       DEF FrameOK, AtTop, Bottom, Publishing, Storing, Waiting, Active, Handling
<1>11. Log \in Frames /\ FrameOK(Log) /\ ~Bottom(Log) /\ ~AtTop(Log) /\ Log.at = "log"
       /\ Log.at \notin Active /\ Log.mem = <<>>
  BY FrameIs, Plain
<1>12. \A k : Fits(k, f, Log, Log)
  BY <1>10, <1>11 DEF Fits
<1>13. Counts(f, Log, Log)
  BY <1>1, <1>2, <1>3, <1>10, <1>11 DEF Counts, Active
<1>14. \A k : Keeps(k, f, Log, Log)
  BY <1>1, <1>2, <1>4, <1>10, <1>11 DEF Keeps
<1>15. \A k : k >= 1 => Idle(k, f, Log, Log)
  <2>1. f.at \notin {"acked"} \cup Storing /\ Log.at \notin {"acked"} \cup Storing
    BY <1>7, <1>11 DEF Storing
  <2>2. ~Sent1(f)
    BY <1>10 DEF Sent1
  <2> QED
    BY <1>2, <1>7, <1>11, <2>1, <2>2 DEF Idle
<1>16. CASE Becomes(<<f, Log>>)
  <2>1. Grown(2, f, Log, Log)
    BY <1>1, <1>7, <1>11, <1>16, TopFrame, Grow
  <2>2. Goes(2, f, Log, Log) /\ Idle(2, f, Log, Log)
    BY <1>12, <1>13, <1>14, <1>15, <2>1 DEF Goes
  <2> QED
    BY <1>5, <2>2
<1>17. CASE Becomes(<<f>>)
  <2>1. Grown(1, f, Log, Log)
    BY <1>1, <1>7, <1>17, TopFrame, Grow
  <2>2. Goes(1, f, Log, Log) /\ Idle(1, f, Log, Log)
    BY <1>12, <1>13, <1>14, <1>15, <2>1 DEF Goes
  <2> QED
    BY <1>5, <2>2
<1> QED
  BY <1>8, <1>16, <1>17

(* A packet is processed by the frames above the loop.                     *)
LEMMA TopicFrame ==
    ASSUME NEW x \in Kinds, NEW y \in 0..MaxPackets
    PROVE  LET g == [Frame("topic name") EXCEPT !.kind = x, !.n = y]
           IN  /\ g \in Frames /\ g.at = "topic name" /\ g.kind = x /\ g.n = y
               /\ g.mem = <<>>
<1> DEFINE a == Frame("topic name")
<1> DEFINE g == [a EXCEPT !.kind = x, !.n = y]
<1>1. a \in Frames /\ a.at = "topic name" /\ a.mem = <<>>
  BY FrameIs DEF Steps
<1> HIDE DEF a
<1>2. g \in Frames /\ g.at = "topic name" /\ g.kind = x /\ g.n = y /\ g.mem = <<>>
  BY <1>1 DEF Frames
<1> QED
  BY <1>2 DEF a

LEMMA ReadAPacketStep ==
    ASSUME StackOK, TypeInv, CountInv, ReadAPacket
    PROVE  /\ TypeInv' /\ UNCHANGED <<heap, lastPubTopic, lastPubPayload>>
           /\ \/ \E k, f, g, e : Goes(k, f, g, e) /\ Quiet(f, g, e) /\ Idle(k, f, g, e)
              \/ /\ handlerAttached = 1 /\ handlerAttached' = 0
                 /\ \E k \in 2..3 : /\ Goes(k, Top, Frame("acked"), Log)
                                    /\ Quiet(Top, Frame("acked"), Log)
<1> DEFINE p == Head(inbox)
<1>1. /\ stack # <<>> /\ Top.at = "read" /\ inbox # <<>> /\ inbox' = Tail(inbox)
      /\ contents' = p.n /\ Becomes(<<Top>> \o Processing(p))
      /\ handlerAttached' = IF Acknowledges(p) THEN 0 ELSE handlerAttached
  BY DEF ReadAPacket, At
<1>2. UNCHANGED <<serverLoggingEnabled, age, since, enabled, publishCount,
                  ipstackCorrupted, line, heap, lastPubTopic, lastPubPayload,
                  waitingForPuback, pubAckRecvAttempts, packets, guaranteed, unanswered>>
  BY DEF ReadAPacket, loggingVars, lineVars, serverVars
<1>3. p \in OnLine
  BY <1>1 DEF CountInv
<1> HIDE DEF p
<1>4. p.n \in 0..MaxPackets /\ p.kind \in {"message", "enable", "disable", "puback"}
  BY <1>3 DEF OnLine
<1>5. handlerAttached' \in {0, handlerAttached}
  BY <1>1
<1>6. TypeInv'
  BY <1>1, <1>2, <1>4, <1>5 DEF TypeInv
<1>7. /\ Top \in Frames /\ FrameOK(Top) /\ Top.at \notin Active
      /\ ~AtTop(Top) /\ Top.mem = <<>>
  <2>1. Top \in Frames /\ FrameOK(Top) /\ MemOK(Top)
    BY <1>1, TopFrame DEF FrameOK
  <2>2. Top.mem = <<>>
    BY <1>1, <2>1 DEF MemOK, Handling, Active
  <2> QED
    BY <1>1, <2>1, <2>2 DEF AtTop, Active
<1>8. Log \in Frames /\ FrameOK(Log) /\ ~Bottom(Log) /\ ~AtTop(Log) /\ Log.at = "log"
      /\ Log.at \notin Active /\ Log.mem = <<>>
  BY FrameIs, Plain
<1> DEFINE ReadsOn(k, g) ==
      Becomes(IF k = 1 THEN <<Top>> ELSE IF k = 2 THEN <<Top, g>> ELSE <<Top, g, Log>>)
<1>9. ASSUME NEW k \in 1..3, NEW g \in Frames, FrameOK(g), ~Bottom(g), ~AtTop(g),
             g.mem = <<>>, g.at \in Active => g.n = contents', g.at # "emit",
             g.at \notin {"publish", "send", "failed", "corrupted"},
             k = 1 => g = Log, ReadsOn(k, g)
      PROVE  Goes(k, Top, g, Log) /\ Quiet(Top, g, Log)
  <2>1. Grown(k, Top, g, Log)
    <3>1. stack \in Seq(Frames)
      BY DEF StackOK
    <3>2. CASE k = 1
      BY <1>1, <1>7, <1>9, <3>1, <3>2, Grow
    <3>3. CASE k = 2
      BY <1>1, <1>7, <1>9, <3>1, <3>3, Grow
    <3>4. CASE k = 3
      BY <1>1, <1>7, <1>8, <1>9, <3>1, <3>4, Grow
    <3> QED
      BY <1>9, <3>2, <3>3, <3>4
  <2>2. Fits(k, Top, g, Log)
    BY <1>7, <1>8, <1>9 DEF Fits
  <2>3. Counts(Top, g, Log)
    BY <1>1, <1>2, <1>7, <1>8 DEF Counts
  <2>4. Keeps(k, Top, g, Log)
    BY <1>1, <1>2, <1>7, <1>8, <1>9 DEF Keeps
  <2>5. Quiet(Top, g, Log)
    BY <1>1, <1>2, <1>8, <1>9 DEF Quiet, Fails
  <2> QED
    BY <2>1, <2>2, <2>3, <2>4, <2>5 DEF Goes
<1>10. CASE p.kind # "puback"
  <2> DEFINE g == [Frame("topic name") EXCEPT !.kind = p.kind, !.n = p.n]
  <2>1. Processing(p) = <<g>> /\ ~Acknowledges(p)
    BY <1>10 DEF Processing, Acknowledges
  <2>2. p.kind \in Kinds
    BY <1>4, <1>10 DEF Kinds
  <2>3. g \in Frames /\ g.at = "topic name" /\ g.kind = p.kind /\ g.n = p.n /\ g.mem = <<>>
    <3>1. p.n \in 0..MaxPackets
      BY <1>4
    <3> QED
      BY <2>2, <3>1, TopicFrame, ZenonT(40)
  <2> HIDE DEF g
  <2>4. MemOK(g)
    BY <2>3, Plain
  <2>5. FrameOK(g) /\ ~Bottom(g) /\ ~AtTop(g)
    BY <1>4, <1>10, <2>3, <2>4
       DEF FrameOK, AtTop, Bottom, Publishing, Storing, Waiting, Active, Handling
  <2>6. ReadsOn(2, g)
    <3>1. ASSUME NEW a, NEW b PROVE <<a>> \o <<b>> = <<a, b>>
      BY Tuples
    <3>2. Becomes(<<Top, g>>)
      BY <1>1, <2>1, <3>1
    <3> QED
      BY <3>2
  <2>7. Goes(2, Top, g, Log) /\ Quiet(Top, g, Log)
    <3>1. g.n = contents' /\ g.at # "emit" /\ g.at \notin {"publish", "send", "failed", "corrupted"}
      BY <1>1, <2>3
    <3>2. 2 \in 1..3 /\ (2 = 1 => g = Log)
      BY SMT
    <3> QED
      BY <1>9, <2>3, <2>5, <2>6, <3>1, <3>2, Zenon
  <2>8. Idle(2, Top, g, Log)
    <3>1. \A x \in {Top, g, Log} : x.at \notin {"acked"} \cup Storing
      BY <1>1, <1>8, <2>3 DEF Storing
    <3>2. handlerAttached' = handlerAttached
      BY <1>1, <2>1
    <3>3. g.mem = <<>> /\ Log.mem = <<>>
      BY <1>8, <2>3
    <3> QED
      BY <1>2, <3>1, <3>2, <3>3 DEF Idle
  <2> QED
    BY <1>2, <1>6, <2>7, <2>8
<1>11. CASE p.kind = "puback" /\ Acknowledges(p)
  <2> DEFINE g == Frame("acked")
  <2>1. Processing(p) = <<g>> \o LogIf(lastPubPayload # NULL)
    BY <1>11 DEF Processing
  <2>2. g \in Frames /\ g.at = "acked" /\ g.kind = "none" /\ g.mem = <<>>
    BY FrameIs DEF Steps
  <2> HIDE DEF g
  <2>3. MemOK(g)
    BY <2>2, Plain
  <2>4. FrameOK(g) /\ ~Bottom(g) /\ ~AtTop(g) /\ g.at \notin Active
    BY <2>2, <2>3
       DEF FrameOK, AtTop, Bottom, Publishing, Storing, Waiting, Active, Handling
  <2>5. handlerAttached = 1 /\ handlerAttached' = 0
    BY <1>1, <1>11 DEF Acknowledges
  <2>6. ReadsOn(2, g) \/ ReadsOn(3, g)
    <3>1. CASE lastPubPayload # NULL
      <4>1. ASSUME NEW a, NEW b, NEW c
            PROVE  <<b>> \o <<c>> = <<b, c>> /\ <<a>> \o <<b, c>> = <<a, b, c>>
        BY Tuples
      <4>2. Processing(p) = <<g, Log>>
        BY <2>1, <3>1, <4>1 DEF LogIf
      <4>3. Becomes(<<Top, g, Log>>)
        BY <1>1, <4>1, <4>2
      <4> QED
        BY <4>3
    <3>2. CASE lastPubPayload = NULL
      <4>1. ASSUME NEW a, NEW b
            PROVE  <<b>> \o <<>> = <<b>> /\ <<a>> \o <<b>> = <<a, b>>
        BY Tuples
      <4>2. Processing(p) = <<g>>
        BY <2>1, <3>2, <4>1 DEF LogIf
      <4>3. Becomes(<<Top, g>>)
        BY <1>1, <4>1, <4>2
      <4> QED
        BY <4>3
    <3> QED
      BY <3>1, <3>2
  <2>7. \E k \in 2..3 : Goes(k, Top, g, Log) /\ Quiet(Top, g, Log)
    <3>1. CASE ReadsOn(2, g)
      BY <1>9, <2>2, <2>4, <3>1
    <3>2. CASE ReadsOn(3, g)
      BY <1>9, <2>2, <2>4, <3>2
    <3> QED
      BY <2>6, <3>1, <3>2
  <2> QED
    BY <1>2, <1>6, <2>5, <2>7 DEF g
<1>12. CASE p.kind = "puback" /\ ~Acknowledges(p)
  <2>1. Processing(p) = <<>> /\ handlerAttached' = handlerAttached
    BY <1>1, <1>12 DEF Processing
  <2>2. ReadsOn(1, Log)
    BY <1>1, <2>1, Tuples
  <2>3. Goes(1, Top, Log, Log) /\ Quiet(Top, Log, Log)
    BY <1>8, <1>9, <2>2
  <2>4. Idle(1, Top, Log, Log)
    <3>1. \A x \in {Top, Log} : x.at \notin {"acked"} \cup Storing
      BY <1>1, <1>8 DEF Storing
    <3> QED
      BY <1>2, <1>7, <1>8, <2>1, <3>1 DEF Idle
  <2> QED
    BY <1>2, <1>6, <2>3, <2>4
<1> QED
  BY <1>10, <1>11, <1>12

-----------------------------------------------------------------------------
(* The heap stays sound.                                                   *)
LEMMA LayoutKept ==
    ASSUME StackOK, stack # <<>>, NEW k, NEW f, NEW g, NEW e, Grown(k, f, g, e),
           IsHeap(heap), IsHeap(heap'), NEW w, Layout(w), g.mem = <<>>, e.mem = <<>>,
           w[Len(stack)] <= Len(heap'.live),
           \A j \in 1..w[Len(stack)] : heap'.live[j] = heap.live[j],
           k = 0 => Len(heap'.live) = w[Len(stack)],
           k >= 1 => /\ f.mem \in Seq(Block)
                     /\ Len(heap'.live) = w[Len(stack)] + Len(f.mem)
                     /\ \A j \in 1..Len(f.mem) : heap'.live[w[Len(stack)] + j] = f.mem[j]
    PROVE  \E v : Layout(v)' /\ v[1] = w[1]
<1> DEFINE n == Len(stack)
<1> DEFINE L == Len(heap'.live)
<1>0. PICK v : v = [i \in Nat |-> IF i <= n THEN w[i] ELSE L]
  OBVIOUS
<1>1. /\ n \in Nat \ {0} /\ DOMAIN stack = 1..n /\ k \in 0..3
      /\ DOMAIN stack' = 1..(n - 1 + k) /\ Len(stack') = n - 1 + k
      /\ \A i \in DOMAIN stack' :
            \/ i \in 1..(n - 1) /\ stack'[i] = stack[i]
            \/ k >= 1 /\ i = n /\ stack'[i] = f
            \/ k >= 2 /\ i = n + 1 /\ stack'[i] = g
            \/ k = 3 /\ i = n + 2 /\ stack'[i] = e
      /\ \A i \in 1..(n - 1) : stack'[i] = stack[i]
      /\ k >= 1 => stack'[n] = f
  <2>1. stack \in Seq(Frames) /\ stack' \in Seq(Frames)
    BY DEF StackOK, Grown
  <2> QED
    BY <2>1, Positions
<1>2. L \in Nat
  BY DEF IsHeap
<1>3. /\ \A i \in 1..(n + 1) : w[i] \in Nat
      /\ \A i, j \in 1..(n + 1) : i <= j => w[i] <= w[j]
      /\ \A i \in 1..(n + 1) : w[i] # w[1] => \E j \in 1..(i - 1) : stack[j].mem # <<>>
      /\ \A i \in 1..n : /\ w[i + 1] = w[i] + Len(stack[i].mem)
                         /\ \A j \in DOMAIN stack[i].mem :
                               heap.live[w[i] + j] = stack[i].mem[j]
  BY <1>1 DEF Layout
<1>4. /\ w[n] <= L
      /\ \A j \in 1..w[n] : heap'.live[j] = heap.live[j]
      /\ k = 0 => L = w[n]
      /\ k >= 1 => /\ f.mem \in Seq(Block) /\ L = w[n] + Len(f.mem)
                   /\ \A j \in 1..Len(f.mem) : heap'.live[w[n] + j] = f.mem[j]
  OBVIOUS
<1>5. /\ \A i \in 1..n : v[i] = w[i]
      /\ \A i \in Nat : i > n => v[i] = L
  BY <1>0, <1>1
<1>6. L = Len(heap'.live) /\ n = Len(stack)
  OBVIOUS
<1> HIDE DEF n, L
<1>7. v[Len(stack') + 1] = L
  <2>1. CASE k = 0
    BY <1>1, <1>4, <1>5, <2>1
  <2>2. CASE k >= 1
    BY <1>1, <1>5, <2>2
  <2> QED
    BY <1>1, <2>1, <2>2
<1>8. \A i \in 1..(Len(stack') + 1) : v[i] \in Nat /\ (i <= n \/ v[i] = L)
  <2> SUFFICES ASSUME NEW i \in 1..(Len(stack') + 1)
               PROVE  v[i] \in Nat /\ (i <= n \/ v[i] = L)
    OBVIOUS
  <2>1. CASE i <= n
    <3>1. i \in 1..n /\ i \in 1..(n + 1)
      BY <1>1, <2>1
    <3> QED
      BY <1>3, <1>5, <2>1, <3>1
  <2>2. CASE i > n
    <3>1. i \in Nat
      BY <1>1
    <3> QED
      BY <1>2, <1>5, <2>2, <3>1
  <2> QED
    BY <1>1, <2>1, <2>2
<1>9. ASSUME NEW i \in 1..(Len(stack') + 1), NEW j \in 1..(Len(stack') + 1), i <= j
      PROVE  v[i] <= v[j]
  <2>1. i \in Nat /\ j \in Nat
    BY <1>1
  <2>2. CASE j <= n
    <3>1. i \in 1..n /\ j \in 1..n /\ i \in 1..(n + 1) /\ j \in 1..(n + 1)
      BY <1>1, <1>9, <2>1, <2>2
    <3> QED
      BY <1>3, <1>5, <1>9, <3>1
  <2>3. CASE i <= n /\ j > n
    <3>1. i \in 1..(n + 1) /\ n \in 1..(n + 1) /\ i \in 1..n
      BY <1>1, <2>1, <2>3
    <3>2. w[i] <= w[n] /\ w[i] \in Nat /\ w[n] \in Nat
      BY <1>3, <2>3, <3>1
    <3> QED
      BY <1>2, <1>4, <1>5, <2>1, <2>3, <3>1, <3>2
  <2>4. CASE i > n
    <3>1. v[i] = L /\ v[j] = L
      BY <1>1, <1>5, <1>9, <2>1, <2>4
    <3> QED
      BY <1>2, <3>1
  <2> QED
    BY <1>1, <2>1, <2>2, <2>3, <2>4
<1>10. ASSUME NEW i \in 1..(Len(stack') + 1), v[i] # v[1]
       PROVE  \E j \in 1..(i - 1) : stack'[j].mem # <<>>
  <2>1. i \in Nat /\ v[1] = w[1] /\ 1 \in 1..(n + 1) /\ n \in 1..(n + 1) /\ n \in 1..n
    BY <1>1, <1>5
  <2>2. CASE i <= n
    <3>1. i \in 1..n /\ i \in 1..(n + 1)
      BY <1>1, <2>1, <2>2
    <3>2. PICK j \in 1..(i - 1) : stack[j].mem # <<>>
      BY <1>3, <1>5, <1>10, <2>1, <3>1
    <3>3. j \in 1..(n - 1)
      BY <1>1, <2>1, <2>2
    <3> QED
      BY <1>1, <3>2, <3>3
  <2>3. CASE i > n /\ w[n] # w[1]
    <3>1. PICK j \in 1..(n - 1) : stack[j].mem # <<>>
      BY <1>3, <2>1, <2>3
    <3>2. j \in 1..(i - 1)
      BY <1>1, <2>1, <2>3
    <3> QED
      BY <1>1, <3>1, <3>2
  <2>4. CASE i > n /\ w[n] = w[1]
    <3>1. L # w[n]
      BY <1>5, <1>10, <2>1, <2>4
    <3>2. k >= 1
      BY <1>1, <1>4, <3>1
    <3>3. f.mem # <<>>
      <4>1. f.mem = <<>> => Len(f.mem) = 0
        BY <1>4, <3>2
      <4>2. w[n] \in Nat
        BY <1>3, <2>1
      <4> QED
        BY <1>4, <3>1, <3>2, <4>1, <4>2
    <3>4. n \in 1..(i - 1) /\ stack'[n] = f
      BY <1>1, <2>1, <2>4, <3>2
    <3> QED
      BY <3>3, <3>4
  <2> QED
    BY <1>1, <2>1, <2>2, <2>3, <2>4
<1>11. ASSUME NEW i \in DOMAIN stack', NEW m, m = stack'[i].mem
       PROVE  /\ v[i + 1] = v[i] + Len(m)
              /\ \A j \in DOMAIN m : heap'.live[v[i] + j] = m[j]
  <2>1. CASE i \in 1..(n - 1) /\ stack'[i] = stack[i]
    <3>1. i \in 1..n /\ i + 1 \in 1..n /\ i + 1 \in 1..(n + 1) /\ n \in 1..(n + 1) /\ i + 1 <= n
          /\ i \in 1..(n + 1)
      BY <1>1, <2>1
    <3>2. v[i] = w[i] /\ v[i + 1] = w[i + 1] /\ w[i + 1] <= w[n]
          /\ w[i] \in Nat /\ w[i + 1] \in Nat /\ w[n] \in Nat
      BY <1>3, <1>5, <3>1
    <3>3. /\ w[i + 1] = w[i] + Len(m)
          /\ \A j \in DOMAIN m : heap.live[w[i] + j] = m[j]
      <4>1. m = stack[i].mem
        BY <1>11, <2>1
      <4> QED
        BY <1>3, <3>1, <4>1
    <3>4. stack[i] \in Frames
      BY <1>1, <3>1 DEF StackOK
    <3>5. m \in Seq(Block)
      BY <1>11, <2>1, <3>4 DEF Frames
    <3>6. ASSUME NEW j \in DOMAIN m PROVE heap'.live[v[i] + j] = m[j]
      <4>1. j \in 1..Len(m) /\ Len(m) \in Nat
        BY <3>5
      <4>2. w[i] + j \in 1..w[n]
        BY <3>2, <3>3, <4>1
      <4> QED
        BY <1>4, <3>2, <3>3, <4>2
    <3> QED
      BY <3>2, <3>3, <3>6
  <2>2. CASE k >= 1 /\ i = n /\ stack'[i] = f
    <3>1. v[i] = w[n] /\ v[i + 1] = L
      BY <1>1, <1>5, <2>2
    <3>2. DOMAIN m = 1..Len(m)
      BY <1>4, <1>11, <2>2
    <3> QED
      BY <1>4, <1>11, <2>2, <3>1, <3>2
  <2>3. CASE i > n /\ m = <<>>
    <3>1. v[i] = L /\ v[i + 1] = L /\ Len(m) = 0 /\ DOMAIN m = {}
      BY <1>1, <1>5, <2>3
    <3> QED
      BY <1>2, <3>1
  <2>4. i = n + 1 \/ i = n + 2 => i > n
    BY <1>1
  <2> QED
    BY <1>1, <1>11, <2>1, <2>2, <2>3, <2>4
<1>12. Layout(v)'
  BY <1>6, <1>7, <1>8, <1>9, <1>10, <1>11 DEF Layout
<1>13. v[1] = w[1]
  BY <1>1, <1>5
<1> QED
  BY <1>12, <1>13

(* Where no frame has a block.                                             *)
LEMMA LayoutOfNone ==
    ASSUME NEW S, stack' \in Seq(S), IsHeap(heap'), \A i \in DOMAIN stack' : stack'[i].mem = <<>>
    PROVE  \E v : Layout(v)' /\ v[1] = Len(heap'.live)
<1> DEFINE L == Len(heap'.live)
<1>0. PICK v : v = [i \in Nat |-> L]
  OBVIOUS
<1>1. L \in Nat /\ Len(stack') \in Nat /\ DOMAIN stack' = 1..Len(stack')
  BY DEF IsHeap
<1>2. \A i \in Nat : v[i] = L
  BY <1>0
<1>3. L = Len(heap'.live)
  OBVIOUS
<1> HIDE DEF L
<1>4. v[1] = L /\ v[Len(stack') + 1] = L /\ \A i \in 1..(Len(stack') + 1) : v[i] = L
  BY <1>1, <1>2
<1>5. ASSUME NEW i \in DOMAIN stack', NEW m, m = stack'[i].mem
      PROVE  /\ v[i + 1] = v[i] + Len(m)
             /\ \A j \in DOMAIN m : heap'.live[v[i] + j] = m[j]
  <2>1. m = <<>> /\ Len(m) = 0 /\ DOMAIN m = {}
    BY <1>5
  <2>2. v[i] = L /\ v[i + 1] = L
    BY <1>1, <1>2
  <2> QED
    BY <1>1, <2>1, <2>2
<1>6. Layout(v)'
  BY <1>1, <1>3, <1>4, <1>5 DEF Layout
<1> QED
  BY <1>3, <1>4, <1>6

(* The blocks of the frame at the top are the last ones.                   *)
LEMMA TopBlocks ==
    ASSUME StackOK, stack # <<>>, NEW w, Layout(w), IsHeap(heap)
    PROVE  /\ w[1] \in Nat /\ w[Len(stack)] \in Nat /\ w[1] <= w[Len(stack)]
           /\ Len(heap.live) = w[Len(stack)] + Len(Top.mem)
           /\ Top.mem \in Seq(Block) /\ Len(Top.mem) \in Nat
           /\ \A j \in 1..Len(Top.mem) : heap.live[w[Len(stack)] + j] = Top.mem[j]
<1> DEFINE n == Len(stack)
<1>1. /\ n \in Nat \ {0} /\ n \in DOMAIN stack /\ Top = stack[n] /\ Top \in Frames
  BY TopFrame
<1>2. n \in 1..(n + 1) /\ 1 \in 1..(n + 1) /\ 1 <= n
  BY <1>1
<1>3. w[1] \in Nat /\ w[n] \in Nat /\ w[1] <= w[n] /\ w[n + 1] = Len(heap.live)
  BY <1>2 DEF Layout
<1>4. /\ w[n + 1] = w[n] + Len(Top.mem)
      /\ \A j \in DOMAIN Top.mem : heap.live[w[n] + j] = Top.mem[j]
  BY <1>1 DEF Layout
<1>5. Top.mem \in Seq(Block) /\ Len(Top.mem) \in Nat /\ DOMAIN Top.mem = 1..Len(Top.mem)
  BY <1>1 DEF Frames
<1> QED
  BY <1>3, <1>4, <1>5

LEMMA TrackingKept ==
    ASSUME StackOK, stack # <<>>, NEW k, NEW f, NEW g, NEW e, Grown(k, f, g, e),
           Fits(k, f, g, e), handlerAttached' = handlerAttached,
           f.at # "acked", g.at # "acked", e.at # "acked", Sent1(f) => Sent1(Top)
    PROVE  Tracking' => Tracking
<1>1. Tracking' => \/ handlerAttached' = 1
                   \/ \E i \in DOMAIN stack' : stack'[i].at = "acked" \/ Sent1(stack'[i])
  BY DEF Tracking, Sent1, Bottom
<1>2. \/ handlerAttached = 1
      \/ \E i \in DOMAIN stack : stack[i].at = "acked" \/ Sent1(stack[i])
      => Tracking
  BY DEF Tracking, Sent1, Bottom
<1>3. ASSUME NEW i \in DOMAIN stack', stack'[i].at = "acked" \/ Sent1(stack'[i])
      PROVE  \E j \in DOMAIN stack : stack[j].at = "acked" \/ Sent1(stack[j])
  <2>1. Len(stack) \in DOMAIN stack /\ Top = stack[Len(stack)]
    BY TopFrame
  <2>2. ~Sent1(g) /\ ~Sent1(e)
    BY DEF Fits, Sent1
  <2>3. \/ i \in DOMAIN stack /\ stack'[i] = stack[i]
        \/ stack'[i] \in {f, g, e}
    BY Positions DEF StackOK
  <2>4. CASE i \in DOMAIN stack /\ stack'[i] = stack[i]
    BY <1>3, <2>4
  <2>5. CASE stack'[i] \in {f, g, e}
    <3>1. Sent1(f)
      BY <1>3, <2>2, <2>5
    <3> QED
      BY <2>1, <3>1
  <2> QED
    BY <2>3, <2>4, <2>5
<1> QED
  BY <1>1, <1>2, <1>3

LEMMA MessageKept ==
    ASSUME StackOK, stack # <<>>, NEW k, NEW f, NEW g, NEW e, Grown(k, f, g, e),
           f.at \notin Storing, g.at \notin Storing, e.at \notin Storing,
           Tracking' => Tracking,
           lastPubTopic' = lastPubTopic, lastPubPayload' = lastPubPayload,
           NEW p \in Nat, \A j \in 1..p : heap'.live[j] = heap.live[j], MessageOK(p)
    PROVE  MessageOK(p)'
<1>1. Kept(p) => Kept(p)'
  <2>1. p >= 2 => p \in 1..p /\ p - 1 \in 1..p
    OBVIOUS
  <2> QED
    BY <2>1 DEF Kept
<1>2. Tracking' => Kept(p)' \/ (lastPubTopic' = NULL /\ lastPubPayload' = NULL)
  BY <1>1 DEF MessageOK
<1>3. ASSUME NEW i \in DOMAIN stack'
      PROVE  LET at == stack'[i].at IN
             /\ at \in Storing => ~Tracking'
             /\ at = "payload" => lastPubTopic' = NULL \/ (p >= 1 /\ heap'.live[p] = lastPubTopic')
             /\ at = "track" => NULL \in {lastPubTopic', lastPubPayload'} \/ Kept(p)'
  <2>1. \/ i \in DOMAIN stack /\ stack'[i] = stack[i]
        \/ stack'[i] \in {f, g, e}
    BY Positions DEF StackOK
  <2>2. CASE i \in DOMAIN stack /\ stack'[i] = stack[i]
    <3>1. /\ stack[i].at \in Storing => ~Tracking
          /\ stack[i].at = "payload" => lastPubTopic = NULL \/ (p >= 1 /\ heap.live[p] = lastPubTopic)
          /\ stack[i].at = "track" => NULL \in {lastPubTopic, lastPubPayload} \/ Kept(p)
      BY <2>2 DEF MessageOK
    <3>2. p >= 1 => p \in 1..p
      OBVIOUS
    <3> QED
      BY <1>1, <2>2, <3>1, <3>2
  <2>3. CASE stack'[i] \in {f, g, e}
    <3>1. stack'[i].at \notin Storing
      BY <2>3
    <3>2. "payload" \in Storing /\ "track" \in Storing
      BY DEF Storing
    <3> QED
      BY <3>1, <3>2
  <2> QED
    BY <2>1, <2>2, <2>3
<1> QED
  BY <1>2, <1>3 DEF MessageOK

LEMMA SoundKept ==
    ASSUME StackOK, stack # <<>>, NEW k, NEW f, NEW g, NEW e, Grown(k, f, g, e),
           Sound, IsHeap(heap'), g.mem = <<>>, e.mem = <<>>,
           f.at \notin Storing, g.at \notin Storing, e.at \notin Storing,
           Tracking' => Tracking,
           lastPubTopic' = lastPubTopic, lastPubPayload' = lastPubPayload,
           NEW b \in Nat, Len(heap.live) = b + Len(Top.mem),
           b <= Len(heap'.live), \A j \in 1..b : heap'.live[j] = heap.live[j],
           k = 0 => Len(heap'.live) = b,
           k >= 1 => /\ f.mem \in Seq(Block) /\ Len(heap'.live) = b + Len(f.mem)
                     /\ \A j \in 1..Len(f.mem) : heap'.live[b + j] = f.mem[j]
    PROVE  Sound'
<1>1. PICK w : Layout(w) /\ MessageOK(w[1]) /\ IsHeap(heap)
  BY DEF Sound
<1>2. /\ w[1] \in Nat /\ w[Len(stack)] \in Nat /\ w[1] <= w[Len(stack)]
      /\ Len(heap.live) = w[Len(stack)] + Len(Top.mem) /\ Len(Top.mem) \in Nat
  BY <1>1, TopBlocks
<1>3. w[Len(stack)] = b
  BY <1>2
<1>4. PICK v : Layout(v)' /\ v[1] = w[1]
  BY <1>1, <1>3, LayoutKept
<1>5. \A j \in 1..w[1] : heap'.live[j] = heap.live[j]
  BY <1>2, <1>3
<1>6. MessageOK(w[1])'
  BY <1>1, <1>2, <1>5, MessageKept
<1> QED
  BY <1>4, <1>6 DEF Sound

(* A step that has nothing to do with it.                                  *)
LEMMA IdleIsSound ==
    ASSUME StackOK, stack # <<>>, NEW k, NEW f, NEW g, NEW e, Goes(k, f, g, e),
           Idle(k, f, g, e), Sound
    PROVE  Sound' /\ heap' = heap
<1>1. /\ heap' = heap /\ lastPubTopic' = lastPubTopic
      /\ lastPubPayload' = lastPubPayload /\ handlerAttached' = handlerAttached
      /\ (k = 0 /\ Top.mem = <<>>) \/ (k >= 1 /\ f.mem = Top.mem)
      /\ g.mem = <<>> /\ e.mem = <<>> /\ (Sent1(f) => Sent1(Top))
  BY DEF Idle
<1>2. /\ f.at \notin Storing /\ g.at \notin Storing /\ e.at \notin Storing
      /\ f.at # "acked" /\ g.at # "acked" /\ e.at # "acked"
  BY DEF Idle
<1>3. Grown(k, f, g, e) /\ Fits(k, f, g, e) /\ k \in 0..3
  BY DEF Goes, Grown
<1>4. Tracking' => Tracking
  BY <1>1, <1>2, <1>3, TrackingKept
<1>5. PICK w : Layout(w) /\ MessageOK(w[1]) /\ IsHeap(heap)
  BY DEF Sound
<1>6. PICK b \in Nat : /\ Len(heap.live) = b + Len(Top.mem)
                       /\ Top.mem \in Seq(Block) /\ Len(Top.mem) \in Nat
                       /\ \A j \in 1..Len(Top.mem) : heap.live[b + j] = Top.mem[j]
  BY <1>5, TopBlocks
<1>7. /\ b <= Len(heap'.live)
      /\ \A j \in 1..b : heap'.live[j] = heap.live[j]
      /\ IsHeap(heap')
  BY <1>1, <1>5, <1>6
<1>8. k = 0 => Len(heap'.live) = b
  <2>1. k = 0 => Len(Top.mem) = 0
    BY <1>1
  <2> QED
    BY <1>1, <1>6, <2>1
<1>9. k >= 1 => /\ f.mem \in Seq(Block) /\ Len(heap'.live) = b + Len(f.mem)
                /\ \A j \in 1..Len(f.mem) : heap'.live[b + j] = f.mem[j]
  <2> SUFFICES ASSUME k >= 1
               PROVE  /\ f.mem \in Seq(Block) /\ Len(heap'.live) = b + Len(f.mem)
                      /\ \A j \in 1..Len(f.mem) : heap'.live[b + j] = f.mem[j]
    OBVIOUS
  <2>1. k # 0
    BY <1>3
  <2>2. f.mem = Top.mem /\ heap' = heap
    BY <1>1, <2>1, Zenon
  <2> QED
    BY <1>6, <2>2, Zenon
<1>10. Sound'
  BY <1>1, <1>2, <1>3, <1>4, <1>6, <1>7, <1>8, <1>9, SoundKept
<1> QED
  BY <1>1, <1>10

(* A handler that has allocated a block, or could not.                     *)
LEMMA AllocatesIsSound ==
    ASSUME StackOK, NEW n, Allocates(n), Sound
    PROVE  Sound' /\ heap'.misused = heap.misused
<1>1. /\ n \in Nat /\ stack # <<>> /\ Top.at \in Handling
      /\ heap' = DEFAULT_MALLOC(heap, n)
      /\ UNCHANGED <<lastPubTopic, lastPubPayload, handlerAttached>>
  BY DEF Allocates
<1>2. IsHeap(heap)
  BY DEF Sound
<1>3. CASE \E k, f, g, e : Goes(k, f, g, e) /\ Quiet(f, g, e) /\ Idle(k, f, g, e)
  <2>1. PICK k, f, g, e : Goes(k, f, g, e) /\ Idle(k, f, g, e)
    BY <1>3
  <2> QED
    BY <1>1, <2>1, IdleIsSound
<1>4. CASE HasRoom(heap, n) /\ \E k \in 1..2 : \E f :
                /\ f.at \in Handling /\ f.kind = Top.kind
                /\ f.mem = Append(Top.mem, NewBlock(heap, n))
                /\ Goes(k, f, Log, Log) /\ Quiet(f, Log, Log)
  <2>1. PICK k, f :
                /\ k \in 1..2
                /\ f.at \in Handling /\ f.kind = Top.kind
                /\ f.mem = Append(Top.mem, NewBlock(heap, n))
                /\ Goes(k, f, Log, Log)
    BY <1>4
  <2>2. Grown(k, f, Log, Log) /\ Fits(k, f, Log, Log) /\ FrameOK(f)
    BY <2>1 DEF Goes, Fits
  <2>3. f.at \notin Storing /\ f.at # "acked" /\ ~Sent1(f)
    <3>1. f.at \notin Storing /\ f.at # "acked" /\ f.at \notin Waiting
      BY <2>1 DEF Handling, Active, Storing, Waiting
    <3>2. f.kind \in {"message", "enable", "disable"}
      BY <2>1, <2>2 DEF FrameOK
    <3> QED
      BY <3>1, <3>2 DEF Sent1, Bottom
  <2>4. Log.at \notin Storing /\ Log.at # "acked" /\ Log.mem = <<>>
    BY FrameIs DEF Storing
  <2>5. Tracking' => Tracking
    BY <1>1, <2>2, <2>3, <2>4, TrackingKept
  <2>6. PICK w : Layout(w) /\ MessageOK(w[1])
    BY DEF Sound
  <2>7. PICK b \in Nat : /\ Len(heap.live) = b + Len(Top.mem)
                         /\ Top.mem \in Seq(Block) /\ Len(Top.mem) \in Nat
                         /\ \A j \in 1..Len(Top.mem) : heap.live[b + j] = Top.mem[j]
    BY <1>1, <1>2, <2>6, TopBlocks
  <2> DEFINE nb == NewBlock(heap, n)
  <2> DEFINE L == Len(heap.live)
  <2>8. /\ IsHeap(heap') /\ heap'.misused = heap.misused
        /\ nb \in Block /\ L \in Nat
        /\ Len(heap'.live) = L + 1 /\ DOMAIN heap.live = 1..L
        /\ heap'.live[L + 1] = nb
        /\ \A j \in DOMAIN heap.live : heap'.live[j] = heap.live[j]
    BY <1>1, <1>2, <1>4, Allocated
  <2>9. L = Len(heap.live) /\ f.mem = Append(Top.mem, nb)
    BY <2>1
  <2> HIDE DEF nb, L
  <2>10. /\ f.mem \in Seq(Block) /\ Len(f.mem) = Len(Top.mem) + 1
         /\ \A j \in 1..Len(Top.mem) : f.mem[j] = Top.mem[j]
         /\ f.mem[Len(Top.mem) + 1] = nb
    BY <2>7, <2>8, <2>9
  <2>11. /\ b <= Len(heap'.live) /\ Len(heap'.live) = b + Len(f.mem)
         /\ \A j \in 1..b : heap'.live[j] = heap.live[j]
    <3>1. b <= Len(heap'.live) /\ Len(heap'.live) = b + Len(f.mem)
      BY <2>7, <2>8, <2>9, <2>10
    <3>2. \A j \in 1..b : j \in 1..L
      BY <2>7, <2>8, <2>9
    <3> QED
      BY <2>8, <3>1, <3>2, Zenon
  <2>12. ASSUME NEW j \in 1..Len(f.mem) PROVE heap'.live[b + j] = f.mem[j]
    <3>1. CASE j \in 1..Len(Top.mem)
      <4>1. b + j \in 1..L
        BY <2>7, <2>8, <2>9, <3>1
      <4> QED
        BY <2>7, <2>8, <2>10, <3>1, <4>1
    <3>2. CASE j = Len(Top.mem) + 1
      <4>1. b + j = L + 1
        BY <2>7, <2>8, <2>9, <3>2
      <4> QED
        BY <2>8, <2>10, <3>2, <4>1
    <3> QED
      BY <2>7, <2>10, <3>1, <3>2
  <2>13. k # 0
    BY <2>1
  <2>14. Sound'
    BY <1>1, <2>2, <2>3, <2>4, <2>5, <2>7, <2>8, <2>10, <2>11, <2>12, <2>13, SoundKept,
       ZenonT(60)
  <2> QED
    BY <2>8, <2>14
<1> QED
  BY <1>3, <1>4 DEF Allocates

(* The guaranteed message: its call is at the bottom.                      *)
LEMMA AtBottom ==
    ASSUME StackOK, stack # <<>>, Bottom(Top), Top.mem = <<>>, Sound
    PROVE  /\ Len(stack) = 1 /\ stack[1] = Top /\ 1 \in DOMAIN stack
           /\ IsHeap(heap) /\ Len(heap.live) \in Nat
           /\ MessageOK(Len(heap.live))
<1>1. Len(stack) = 1 /\ stack[1] = Top /\ 1 \in DOMAIN stack
  BY TopFrame
<1>2. PICK w : Layout(w) /\ MessageOK(w[1]) /\ IsHeap(heap)
  BY DEF Sound
<1>3. Len(heap.live) = w[1] + Len(Top.mem) /\ w[1] \in Nat
  BY <1>1, <1>2, TopBlocks
<1>4. Len(Top.mem) = 0
  OBVIOUS
<1>5. Len(heap.live) = w[1]
  BY <1>3, <1>4
<1> QED
  BY <1>1, <1>2, <1>3, <1>5

LEMMA BottomGoes ==
    ASSUME StackOK, stack # <<>>, Len(stack) = 1, NEW k, NEW f, NEW g, NEW e,
           Grown(k, f, g, e), f.mem = <<>>, g.mem = <<>>, e.mem = <<>>, IsHeap(heap'),
           NEW p, p = Len(heap'.live), MessageOK(p)'
    PROVE  Sound'
<1>1. /\ \A i \in DOMAIN stack' : stack'[i] \in {f, g, e}
      /\ stack' \in Seq(Frames)
  <2>1. ~ \E i : i \in 1..(Len(stack) - 1)
    OBVIOUS
  <2>2. stack \in Seq(Frames) /\ stack' \in Seq(Frames)
    BY DEF StackOK, Grown
  <2>3. \A i \in DOMAIN stack' :
            \/ i \in 1..(Len(stack) - 1)
            \/ stack'[i] = f \/ stack'[i] = g \/ stack'[i] = e
    BY <2>2, Positions
  <2> QED
    BY <2>1, <2>2, <2>3
<1>2. \A i \in DOMAIN stack' : stack'[i].mem = <<>>
  BY <1>1
<1>3. PICK v : Layout(v)' /\ v[1] = p
  BY <1>1, <1>2, LayoutOfNone
<1> QED
  BY <1>3 DEF Sound

(* While its copies are made they are not yet those of the message that    *)
(* waits.                                                                  *)
LEMMA StoringGoes ==
    ASSUME StackOK, stack # <<>>, Len(stack) = 1, NEW k, NEW f, Grown(k, f, Log, Log),
           f.at \in Storing, f.mem = <<>>, handlerAttached' # 1, IsHeap(heap'),
           f.at = "payload" => lastPubTopic' = NULL
                                 \/ (heap'.live # <<>> /\ heap'.live[Len(heap'.live)] = lastPubTopic'),
           f.at = "track" => \/ NULL \in {lastPubTopic', lastPubPayload'}
                             \/ /\ Len(heap'.live) >= 2
                                /\ heap'.live[Len(heap'.live)] = lastPubPayload'
                                /\ heap'.live[Len(heap'.live) - 1] = lastPubTopic'
    PROVE  Sound'
<1>0. Log.at = "log" /\ Log.kind = "none" /\ Log.mem = <<>>
  BY FrameIs
<1>1. \A i \in DOMAIN stack' : stack'[i] = f \/ stack'[i] = Log
  <2>1. ~ \E i : i \in 1..(Len(stack) - 1)
    OBVIOUS
  <2>2. stack \in Seq(Frames)
    BY DEF StackOK
  <2>3. \A i \in DOMAIN stack' :
            \/ i \in 1..(Len(stack) - 1)
            \/ stack'[i] = f \/ stack'[i] = Log
    BY <2>2, Positions
  <2> QED
    BY <2>1, <2>2, <2>3
<1>2. f.at # "acked" /\ f.at \notin Waiting /\ Log.at \notin Storing \cup Waiting
  BY <1>0 DEF Storing, Waiting
<1>3. ~Tracking'
  BY <1>0, <1>1, <1>2 DEF Tracking, Bottom
<1>4. PICK p : p = Len(heap'.live)
  OBVIOUS
<1>5. p \in Nat /\ (heap'.live # <<>> => p >= 1)
  BY <1>4 DEF IsHeap
<1>6. ASSUME NEW i \in DOMAIN stack'
      PROVE  LET at == stack'[i].at IN
             /\ at = "payload" => lastPubTopic' = NULL \/ (p >= 1 /\ heap'.live[p] = lastPubTopic')
             /\ at = "track" => NULL \in {lastPubTopic', lastPubPayload'} \/ Kept(p)'
  <2>1. CASE stack'[i] = f
    BY <1>4, <1>5, <2>1 DEF Kept
  <2>2. CASE stack'[i] = Log
    BY <1>0, <2>2
  <2> QED
    BY <1>1, <2>1, <2>2
<1>7. MessageOK(p)'
  BY <1>3, <1>6 DEF MessageOK
<1> QED
  BY <1>0, <1>4, <1>7, BottomGoes

LEMMA StoringFrame ==
    ASSUME StackOK, stack # <<>>, Top.at \in Storing, Sound
    PROVE  /\ Top \in Frames /\ Top.kind = "sure" /\ Top.mem = <<>> /\ Bottom(Top)
           /\ Len(stack) = 1 /\ ~Tracking /\ handlerAttached # 1
           /\ IsHeap(heap) /\ Len(heap.live) \in Nat /\ MessageOK(Len(heap.live))
           /\ \A s \in Steps : /\ Then(s).at = s /\ Then(s).mem = <<>>
                               /\ Then(s).kind = "sure"
           /\ Top.at = "payload" => lastPubTopic = NULL
                \/ (Len(heap.live) >= 1 /\ heap.live[Len(heap.live)] = lastPubTopic)
           /\ Top.at = "track" => NULL \in {lastPubTopic, lastPubPayload} \/ Kept(Len(heap.live))
<1>1. Top \in Frames /\ FrameOK(Top)
  BY TopFrame
<1>2. Top.kind = "sure" /\ Bottom(Top)
  BY <1>1 DEF FrameOK, Bottom
<1>3. Top.mem = <<>>
  <2>1. Top.at \notin (Handling \ {"topic name"}) \cup {"saved"}
    BY DEF Storing, Handling, Active
  <2> QED
    BY <1>1, <2>1 DEF FrameOK, MemOK
<1>4. /\ Len(stack) = 1 /\ stack[1] = Top /\ 1 \in DOMAIN stack
      /\ IsHeap(heap) /\ Len(heap.live) \in Nat
      /\ MessageOK(Len(heap.live))
  BY <1>2, <1>3, AtBottom
<1>5. ~Tracking
  BY <1>4 DEF MessageOK
<1>6. handlerAttached # 1
  BY <1>5 DEF Tracking
<1>7. \A s \in Steps : /\ Then(s).at = s /\ Then(s).mem = <<>> /\ Then(s).kind = "sure"
  BY <1>1, <1>2, <1>3, ThenIs
<1>8. /\ Top.at = "payload" => lastPubTopic = NULL
           \/ (Len(heap.live) >= 1 /\ heap.live[Len(heap.live)] = lastPubTopic)
      /\ Top.at = "track" => NULL \in {lastPubTopic, lastPubPayload} \/ Kept(Len(heap.live))
  BY <1>4 DEF MessageOK
<1> QED
  BY <1>1, <1>2, <1>3, <1>4, <1>5, <1>6, <1>7, <1>8

LEMMA AllocateTopicIsSound ==
    ASSUME StackOK, TypeInv, CountInv, Sound, AllocateTopic
    PROVE  Sound' /\ heap'.misused = heap.misused
<1>1. /\ stack # <<>> /\ Top.at = "topic" /\ heap' = DEFAULT_MALLOC(heap, SMALL)
      /\ lastPubTopic' = Pointer(SMALL) /\ handlerAttached' = handlerAttached
  BY DEF AllocateTopic, At, Malloc
<1>2. "topic" \in Storing /\ "payload" \in Storing /\ "payload" \in Steps
  BY DEF Storing, Steps
<1>3. Len(stack) = 1 /\ IsHeap(heap) /\ handlerAttached # 1
      /\ Then("payload").at = "payload" /\ Then("payload").mem = <<>>
  BY <1>1, <1>2, StoringFrame
<1>4. PICK k \in 1..2 : Goes(k, Then("payload"), Log, Log)
  BY <1>3, AllocateTopicStep
<1> DEFINE f == Then("payload")
<1>5. Grown(k, f, Log, Log) /\ f.at = "payload" /\ f.mem = <<>>
  BY <1>3, <1>4 DEF Goes
<1> HIDE DEF f
<1>6. /\ IsHeap(heap') /\ heap'.misused = heap.misused
      /\ lastPubTopic' = NULL
           \/ (heap'.live # <<>> /\ heap'.live[Len(heap'.live)] = lastPubTopic')
  <2>1. CASE HasRoom(heap, SMALL)
    <3>1. /\ IsHeap(heap') /\ heap'.misused = heap.misused
          /\ Len(heap'.live) = Len(heap.live) + 1 /\ Len(heap.live) \in Nat
          /\ heap'.live[Len(heap.live) + 1] = NewBlock(heap, SMALL)
      BY <1>1, <1>3, <2>1, Sizes, Allocated
    <3>2. lastPubTopic' = NewBlock(heap, SMALL)
      BY <1>1, <1>3, <2>1, Sizes, PointerIs
    <3>3. heap'.live # <<>>
      BY <3>1
    <3> QED
      BY <3>1, <3>2, <3>3
  <2>2. CASE ~HasRoom(heap, SMALL)
    BY <1>1, <1>3, <2>2, Sizes, PointerIs
  <2> QED
    BY <2>1, <2>2
<1>7. f.at # "track"
  BY <1>5
<1>8. Sound'
  BY <1>1, <1>2, <1>3, <1>5, <1>6, <1>7, StoringGoes
<1> QED
  BY <1>6, <1>8

LEMMA AllocatePayloadIsSound ==
    ASSUME StackOK, TypeInv, CountInv, Sound, AllocatePayload
    PROVE  Sound' /\ heap'.misused = heap.misused
<1>1. /\ stack # <<>> /\ Top.at = "payload" /\ heap' = DEFAULT_MALLOC(heap, LARGE)
      /\ lastPubPayload' = Pointer(LARGE) /\ handlerAttached' = handlerAttached
      /\ lastPubTopic' = lastPubTopic
  BY DEF AllocatePayload, At, Malloc
<1>2. "payload" \in Storing /\ "track" \in Storing /\ "track" \in Steps
  BY DEF Storing, Steps
<1>3. Len(stack) = 1 /\ IsHeap(heap) /\ handlerAttached # 1
      /\ Then("track").at = "track" /\ Then("track").mem = <<>>
      /\ (lastPubTopic = NULL
           \/ (Len(heap.live) >= 1 /\ heap.live[Len(heap.live)] = lastPubTopic))
  BY <1>1, <1>2, StoringFrame
<1>4. PICK k \in 1..2 : Goes(k, Then("track"), Log, Log)
  BY <1>3, AllocatePayloadStep
<1> DEFINE f == Then("track")
<1>5. Grown(k, f, Log, Log) /\ f.at = "track" /\ f.mem = <<>>
  BY <1>3, <1>4 DEF Goes
<1> HIDE DEF f
<1>6. /\ IsHeap(heap') /\ heap'.misused = heap.misused
      /\ \/ NULL \in {lastPubTopic', lastPubPayload'}
         \/ /\ Len(heap'.live) >= 2
            /\ heap'.live[Len(heap'.live)] = lastPubPayload'
            /\ heap'.live[Len(heap'.live) - 1] = lastPubTopic'
  <2>1. CASE HasRoom(heap, LARGE)
    <3>1. /\ IsHeap(heap') /\ heap'.misused = heap.misused
          /\ Len(heap'.live) = Len(heap.live) + 1 /\ Len(heap.live) \in Nat
          /\ heap'.live[Len(heap.live) + 1] = NewBlock(heap, LARGE)
          /\ DOMAIN heap.live = 1..Len(heap.live)
          /\ \A j \in DOMAIN heap.live : heap'.live[j] = heap.live[j]
      BY <1>1, <1>3, <2>1, Sizes, Allocated
    <3>2. lastPubPayload' = NewBlock(heap, LARGE)
      BY <1>1, <1>3, <2>1, Sizes, PointerIs
    <3>3. CASE lastPubTopic = NULL
      BY <1>1, <3>1, <3>3
    <3>4. CASE Len(heap.live) >= 1 /\ heap.live[Len(heap.live)] = lastPubTopic
      <4>1. Len(heap.live) \in DOMAIN heap.live /\ Len(heap'.live) - 1 = Len(heap.live)
            /\ Len(heap'.live) >= 2
        BY <3>1, <3>4
      <4> QED
        BY <1>1, <3>1, <3>2, <3>4, <4>1
    <3> QED
      BY <1>3, <3>3, <3>4
  <2>2. CASE ~HasRoom(heap, LARGE)
    BY <1>1, <1>3, <2>2, Sizes, PointerIs
  <2> QED
    BY <2>1, <2>2
<1>7. f.at # "payload"
  BY <1>5
<1>8. Sound'
  BY <1>1, <1>2, <1>3, <1>5, <1>6, <1>7, StoringGoes
<1> QED
  BY <1>6, <1>8

(* The last message has been given up, or acknowledged, or is no longer    *)
(* waited for.                                                             *)
LEMMA PublishStartIsSound ==
    ASSUME StackOK, TypeInv, CountInv, Sound, PublishStart
    PROVE  Sound' /\ heap' = heap
<1>1. CASE Top.kind = "sure"
  <2>1. /\ handlerAttached' = 0 /\ Goes(1, Then("topic"), Log, Log)
        /\ UNCHANGED <<heap, lastPubTopic, lastPubPayload>>
    BY <1>1, PublishStartSureStep
  <2>2. /\ stack # <<>> /\ Top.at = "publish"
    BY DEF PublishStart, At
  <2>3. Top \in Frames /\ FrameOK(Top) /\ Bottom(Top)
    BY <1>1, <2>2, TopFrame DEF Bottom
  <2>4. Top.mem = <<>>
    BY <2>2, <2>3 DEF FrameOK, MemOK, Handling, Active
  <2>5. Len(stack) = 1 /\ IsHeap(heap)
    BY <2>2, <2>3, <2>4, AtBottom
  <2> DEFINE f == Then("topic")
  <2>6. f.at = "topic" /\ f.mem = <<>> /\ Grown(1, f, Log, Log)
    BY <2>1, <2>3, <2>4, ThenIs DEF Steps, Goes
  <2> HIDE DEF f
  <2>7. f.at \in Storing /\ f.at # "payload" /\ f.at # "track" /\ handlerAttached' # 1
    BY <2>1, <2>6 DEF Storing
  <2>8. Sound'
    BY <2>1, <2>2, <2>5, <2>6, <2>7, StoringGoes
  <2> QED
    BY <2>1, <2>8
<1>2. CASE Top.kind # "sure"
  <2>1. stack # <<>>
    BY DEF PublishStart, At
  <2>2. PICK k, f, g, e : Goes(k, f, g, e) /\ Idle(k, f, g, e)
    BY <1>2, PublishStartShortStep
  <2> QED
    BY <2>1, <2>2, IdleIsSound
<1> QED
  BY <1>1, <1>2

LEMMA BottomMessage ==
    ASSUME StackOK, stack # <<>>, Len(stack) = 1, NEW k, NEW f, NEW g, NEW e,
           Grown(k, f, g, e), f.at \notin Storing, g.at \notin Storing, e.at \notin Storing,
           NEW p,
           Tracking' => Kept(p)' \/ (lastPubTopic' = NULL /\ lastPubPayload' = NULL)
    PROVE  MessageOK(p)'
<1>1. \A i \in DOMAIN stack' : stack'[i] \in {f, g, e}
  <2>1. ~ \E i : i \in 1..(Len(stack) - 1)
    OBVIOUS
  <2>2. stack \in Seq(Frames)
    BY DEF StackOK
  <2>3. \A i \in DOMAIN stack' :
            \/ i \in 1..(Len(stack) - 1)
            \/ stack'[i] = f \/ stack'[i] = g \/ stack'[i] = e
    BY <2>2, Positions
  <2> QED
    BY <2>1, <2>3
<1>2. "payload" \in Storing /\ "track" \in Storing
  BY DEF Storing
<1>3. \A i \in DOMAIN stack' : /\ stack'[i].at \notin Storing
                               /\ stack'[i].at # "payload" /\ stack'[i].at # "track"
  BY <1>1, <1>2
<1> QED
  BY <1>3 DEF MessageOK

LEMMA TrackIsSound ==
    ASSUME StackOK, TypeInv, CountInv, Sound, Track
    PROVE  Sound' /\ heap' = heap
<1>1. /\ stack # <<>> /\ Top.at = "track"
      /\ UNCHANGED <<heap, lastPubTopic, lastPubPayload>>
  BY DEF Track, At
<1>2. /\ NULL \in {lastPubTopic, lastPubPayload}
           => Becomes(<<Log>>) /\ handlerAttached' = handlerAttached
      /\ NULL \notin {lastPubTopic, lastPubPayload} => Becomes(<<Then("send"), Log>>)
  BY DEF Track
<1>3. "track" \in Storing /\ "send" \in Steps
  BY DEF Storing, Steps
<1>4. /\ Len(stack) = 1 /\ IsHeap(heap) /\ handlerAttached # 1 /\ Top \in Frames
      /\ Then("send").at = "send" /\ Then("send").mem = <<>>
      /\ NULL \in {lastPubTopic, lastPubPayload} \/ Kept(Len(heap.live))
  BY <1>1, <1>3, StoringFrame
<1>5. PICK p : p = Len(heap'.live)
  OBVIOUS
<1>6. /\ Log \in Frames /\ Log.at \notin {"acked"} \cup Storing /\ Log.mem = <<>>
      /\ ~Bottom(Log)
  BY FrameIs, Plain DEF Storing
<1>7. stack \in Seq(Frames)
  BY DEF StackOK
<1>8. CASE NULL \in {lastPubTopic, lastPubPayload}
  <2>1. Grown(1, Log, Log, Log)
    BY <1>1, <1>2, <1>6, <1>7, <1>8, Grow
  <2>2. ~Tracking'
    <3>1. \A i \in DOMAIN stack' : stack'[i] = Log
      <4>1. ~ \E i : i \in 1..(Len(stack) - 1)
        BY <1>4
      <4>2. \A i \in DOMAIN stack' : i \in 1..(Len(stack) - 1) \/ stack'[i] = Log
        BY <1>1, <1>7, <2>1, Positions
      <4> QED
        BY <4>1, <4>2
    <3>2. Log.at # "acked"
      BY <1>6
    <3>3. ~Bottom(Log)
      BY <1>6
    <3>4. handlerAttached' # 1
      BY <1>2, <1>4, <1>8
    <3> QED
      BY <3>1, <3>2, <3>3, <3>4 DEF Tracking, Bottom
  <2>3. Log.at \notin Storing
    BY <1>6
  <2>4. MessageOK(p)'
    BY <1>1, <1>4, <2>1, <2>2, <2>3, BottomMessage
  <2>5. Sound'
    BY <1>1, <1>4, <1>5, <1>6, <2>1, <2>4, BottomGoes
  <2> QED
    BY <1>1, <2>5
<1>9. CASE NULL \notin {lastPubTopic, lastPubPayload}
  <2> DEFINE f == Then("send")
  <2>1. f \in Frames /\ f.at = "send" /\ f.mem = <<>> /\ Becomes(<<f, Log>>)
    BY <1>2, <1>3, <1>4, <1>9, ThenIs
  <2> HIDE DEF f
  <2>2. Grown(2, f, Log, Log)
    BY <1>1, <1>6, <1>7, <2>1, Grow
  <2>3. f.at \notin Storing /\ Log.at \notin Storing
    BY <1>6, <2>1 DEF Storing
  <2>4. Kept(p)'
    BY <1>1, <1>4, <1>5, <1>9 DEF Kept
  <2>5. MessageOK(p)'
    BY <1>1, <1>4, <2>2, <2>3, <2>4, BottomMessage
  <2>6. Sound'
    BY <1>1, <1>4, <1>5, <1>6, <2>1, <2>2, <2>5, BottomGoes
  <2> QED
    BY <1>1, <2>6
<1> QED
  BY <1>8, <1>9

(* Blocks are freed from the last one on: i of them are left.              *)
Left(h, h0, m, b, i) ==
    /\ IsHeap(h) /\ h.misused = h0.misused
    /\ Len(h.live) = b + (IF Len(m) < i THEN Len(m) ELSE i)
    /\ \A j \in 1..Len(h.live) : h.live[j] = h0.live[j]

LEMMA FreesNth ==
    ASSUME NEW h0, NEW m \in Seq(Block), NEW b \in Nat,
           \A j \in 1..Len(m) : h0.live[b + j] = m[j],
           NEW i \in 1..3, NEW h, Left(h, h0, m, b, i)
    PROVE  Left(FreeNth(i, h, m), h0, m, b, i - 1)
<1> DEFINE g == FreeNth(i, h, m)
<1>1. Len(m) \in Nat /\ DOMAIN m = 1..Len(m)
  OBVIOUS
<1>2. /\ IsHeap(h) /\ h.misused = h0.misused
      /\ Len(h.live) = b + (IF Len(m) < i THEN Len(m) ELSE i)
      /\ \A j \in 1..Len(h.live) : h.live[j] = h0.live[j]
  BY DEF Left
<1>3. CASE Len(m) < i
  <2>1. g = h
    BY <1>1, <1>3 DEF FreeNth
  <2>2. Len(h.live) = b + (IF Len(m) < i - 1 THEN Len(m) ELSE i - 1)
    BY <1>1, <1>2, <1>3
  <2> QED
    BY <1>2, <2>1, <2>2 DEF Left
<1>4. CASE i <= Len(m)
  <2>1. i \in DOMAIN m /\ Len(h.live) = b + i /\ b + i \in 1..Len(h.live)
    BY <1>1, <1>2, <1>4
  <2>2. h.live[Len(h.live)] = m[i] /\ h.live # <<>>
    <3>1. h.live[b + i] = h0.live[b + i] /\ h0.live[b + i] = m[i]
      BY <1>1, <1>2, <2>1
    <3> QED
      BY <2>1, <3>1
  <2>3. g = DEFAULT_FREE(h, h.live[Len(h.live)])
    BY <2>1, <2>2 DEF FreeNth
  <2> HIDE DEF g
  <2>4. /\ IsHeap(g) /\ g.misused = h.misused
        /\ DOMAIN h.live = 1..Len(h.live)
        /\ Len(g.live) = Len(h.live) - 1 /\ DOMAIN g.live = 1..(Len(h.live) - 1)
        /\ \A j \in DOMAIN g.live : g.live[j] = h.live[j]
    BY <1>2, <2>2, <2>3, FreedLast
  <2>5. Len(g.live) = b + (IF Len(m) < i - 1 THEN Len(m) ELSE i - 1)
    BY <1>1, <1>4, <2>1, <2>4
  <2>6. \A j \in 1..Len(g.live) : j \in DOMAIN g.live /\ j \in 1..Len(h.live)
    BY <2>1, <2>4
  <2>7. Left(g, h0, m, b, i - 1)
    BY <1>2, <2>4, <2>5, <2>6 DEF Left
  <2> QED
    BY <2>7 DEF g
<1> QED
  BY <1>1, <1>3, <1>4

LEMMA FreesAll ==
    ASSUME NEW h, IsHeap(h), NEW m \in Seq(Block), Len(m) <= 3, NEW b \in Nat,
           Len(h.live) = b + Len(m),
           \A j \in 1..Len(m) : h.live[b + j] = m[j]
    PROVE  LET g == FreeAll(h, m) IN
           /\ IsHeap(g) /\ g.misused = h.misused /\ Len(g.live) = b
           /\ \A j \in 1..b : g.live[j] = h.live[j]
<1> DEFINE h3 == FreeNth(3, h, m)
<1> DEFINE h2 == FreeNth(2, h3, m)
<1> DEFINE h1 == FreeNth(1, h2, m)
<1>1. Len(m) \in Nat /\ 3 \in 1..3 /\ 2 \in 1..3 /\ 1 \in 1..3
      /\ 3 - 1 = 2 /\ 2 - 1 = 1 /\ 1 - 1 = 0
  OBVIOUS
<1>2. Left(h, h, m, b, 3)
  BY <1>1 DEF Left
<1>3. Left(h3, h, m, b, 2)
  BY <1>1, <1>2, FreesNth
<1> HIDE DEF h3
<1>4. Left(h2, h, m, b, 1)
  BY <1>1, <1>3, FreesNth
<1> HIDE DEF h2
<1>5. Left(h1, h, m, b, 0)
  BY <1>1, <1>4, FreesNth
<1>6. h1 = FreeAll(h, m)
  BY DEF h1, h2, h3, FreeAll
<1> HIDE DEF h1
<1>7. /\ IsHeap(h1) /\ h1.misused = h.misused /\ Len(h1.live) = b
      /\ \A j \in 1..b : h1.live[j] = h.live[j]
  BY <1>1, <1>5 DEF Left
<1> QED
  BY <1>6, <1>7

LEMMA FreeIsSound ==
    ASSUME StackOK, TypeInv, CountInv, Sound, Free
    PROVE  Sound' /\ heap'.misused = heap.misused
<1>1. /\ stack # <<>> /\ heap' = FreeAll(heap, Top.mem) /\ Goes(0, Log, Log, Log)
      /\ lastPubTopic' = lastPubTopic /\ lastPubPayload' = lastPubPayload
      /\ handlerAttached' = handlerAttached
  BY FreeStep DEF Free, At
<1>2. PICK w : Layout(w) /\ MessageOK(w[1]) /\ IsHeap(heap)
  BY DEF Sound
<1>3. PICK b \in Nat : /\ Len(heap.live) = b + Len(Top.mem)
                       /\ Top.mem \in Seq(Block) /\ Len(Top.mem) \in Nat
                       /\ \A j \in 1..Len(Top.mem) : heap.live[b + j] = Top.mem[j]
  BY <1>1, <1>2, TopBlocks
<1>4. Len(Top.mem) <= 3
  BY <1>1, TopFrame DEF FrameOK, MemOK
<1>5. /\ IsHeap(heap') /\ heap'.misused = heap.misused /\ Len(heap'.live) = b
      /\ \A j \in 1..b : heap'.live[j] = heap.live[j]
  BY <1>1, <1>2, <1>3, <1>4, FreesAll
<1>6. Log.at \notin Storing /\ Log.at # "acked" /\ Log.mem = <<>> /\ ~Sent1(Log)
  BY FrameIs, Plain DEF Storing, Sent1
<1>7. Grown(0, Log, Log, Log) /\ Fits(0, Log, Log, Log)
  BY <1>1 DEF Goes
<1>8. Tracking' => Tracking
  BY <1>1, <1>6, <1>7, TrackingKept
<1>9. b <= Len(heap'.live)
  BY <1>5
<1>10. Sound'
  BY <1>1, <1>3, <1>5, <1>6, <1>7, <1>8, <1>9, SoundKept
<1> QED
  BY <1>5, <1>10

LEMMA SoundWith ==
    ASSUME StackOK, stack # <<>>, NEW k \in 1..3, NEW f, NEW g, NEW e, Grown(k, f, g, e),
           Sound, IsHeap(heap'), g.mem = <<>>, e.mem = <<>>,
           f.at \notin Storing, g.at \notin Storing, e.at \notin Storing,
           Tracking' => Tracking,
           lastPubTopic' = lastPubTopic, lastPubPayload' = lastPubPayload,
           NEW b \in Nat, Len(heap.live) = b + Len(Top.mem),
           b <= Len(heap'.live), \A j \in 1..b : heap'.live[j] = heap.live[j],
           f.mem \in Seq(Block), Len(heap'.live) = b + Len(f.mem),
           \A j \in 1..Len(f.mem) : heap'.live[b + j] = f.mem[j]
    PROVE  Sound'
<1>1. k # 0
  OBVIOUS
<1> QED
  BY <1>1, SoundKept

LEMMA SoundWithout ==
    ASSUME StackOK, stack # <<>>, Grown(0, Log, Log, Log), Sound, IsHeap(heap'),
           Tracking' => Tracking,
           lastPubTopic' = lastPubTopic, lastPubPayload' = lastPubPayload,
           NEW b \in Nat, Len(heap.live) = b + Len(Top.mem), Len(heap'.live) = b,
           \A j \in 1..b : heap'.live[j] = heap.live[j]
    PROVE  Sound'
<1>1. Log.at \notin Storing /\ Log.mem = <<>>
  BY FrameIs DEF Storing
<1>2. ~(0 >= 1) /\ b <= Len(heap'.live)
  OBVIOUS
<1> QED
  BY <1>1, <1>2, SoundKept

LEMMA SaveIsSound ==
    ASSUME StackOK, TypeInv, CountInv, Sound, Save
    PROVE  Sound' /\ heap'.misused = heap.misused
<1>1. stack # <<>> /\ Top.at = "save"
  BY DEF Save, At
<1>2. /\ heap' = DEFAULT_MALLOC(heap, LARGE) /\ IsHeap(heap)
      /\ lastPubTopic' = lastPubTopic /\ lastPubPayload' = lastPubPayload
      /\ handlerAttached' = handlerAttached
  BY SaveStep DEF Sound
<1>3. Top \in Frames /\ FrameOK(Top) /\ Sent1(Top)
  BY <1>1, TopFrame DEF Sent1, Bottom, Waiting, Storing
<1>4. Top.mem = <<>> /\ Len(Top.mem) = 0
  <2>1. Top.at \notin (Handling \ {"topic name"}) \cup {"saved"}
    BY <1>1 DEF Handling, Active
  <2>2. Top.mem = <<>>
    BY <1>3, <2>1 DEF FrameOK, MemOK
  <2> QED
    BY <2>2
<1>5. Len(heap.live) \in Nat /\ Len(heap.live) = Len(heap.live) + Len(Top.mem)
  BY <1>2, <1>4 DEF IsHeap
<1>6. Log.at \notin Storing /\ Log.at # "acked" /\ Log.mem = <<>> /\ ~Sent1(Log)
  BY FrameIs, Plain DEF Storing, Sent1
<1>7. PICK b \in Nat : b = Len(heap.live)
  BY <1>5
<1>8. CASE HasRoom(heap, LARGE)
  <2>1. PICK k, f : k \in 1..2 /\ f = Carrying("saved", <<Pointer(LARGE)>>) /\ Goes(k, f, Log, Log)
    BY <1>2, <1>8, SaveStep
  <2> DEFINE nb == NewBlock(heap, LARGE)
  <2>2. /\ IsHeap(heap') /\ heap'.misused = heap.misused
        /\ nb \in Block /\ Len(heap'.live) = b + 1 /\ DOMAIN heap.live = 1..b
        /\ heap'.live[b + 1] = nb
        /\ \A j \in DOMAIN heap.live : heap'.live[j] = heap.live[j]
    BY <1>2, <1>7, <1>8, Sizes, Allocated
  <2>3. f = Carrying("saved", <<nb>>)
    BY <1>2, <1>8, <2>1, Sizes, PointerIs
  <2> HIDE DEF nb
  <2>4. f.at = "saved" /\ f.mem = <<nb>> /\ f.mem \in Seq(Block) /\ Len(f.mem) = 1 /\ f.mem[1] = nb
    <3> DEFINE m == <<nb>>
    <3>1. m \in Seq(Block) /\ Len(m) = 1 /\ m[1] = nb
      BY <2>2
    <3>2. f = Carrying("saved", m) /\ "saved" \in Steps
      BY <2>3 DEF Steps
    <3> HIDE DEF m
    <3>3. f.at = "saved" /\ f.mem = m
      BY <1>3, <3>1, <3>2, CarryingIs
    <3> QED
      BY <3>1, <3>3 DEF m
  <2>5. Grown(k, f, Log, Log) /\ Fits(k, f, Log, Log)
    BY <2>1 DEF Goes
  <2>6. f.at \notin Storing /\ f.at # "acked"
    BY <2>4 DEF Storing
  <2>7. Tracking' => Tracking
    BY <1>1, <1>2, <1>3, <1>6, <2>5, <2>6, TrackingKept
  <2>8. b <= Len(heap'.live) /\ Len(heap'.live) = b + Len(f.mem) /\ k # 0
        /\ Len(heap.live) = b + Len(Top.mem)
    <3>1. k \in 1..2
      BY <2>1, Zenon
    <3> QED
      BY <1>4, <1>7, <2>2, <2>4, <3>1
  <2>9. \A j \in 1..b : heap'.live[j] = heap.live[j]
    BY <2>2
  <2>10. \A j \in 1..Len(f.mem) : heap'.live[b + j] = f.mem[j]
    <3>1. \A j \in 1..Len(f.mem) : j = 1
      BY <2>4
    <3> QED
      BY <2>2, <2>4, <3>1
  <2>11. Sound'
    BY <1>1, <1>2, <1>6, <2>2, <2>4, <2>5, <2>6, <2>7, <2>8, <2>9, <2>10, SoundKept,
       ZenonT(60)
  <2> QED
    BY <2>2, <2>11
<1>9. CASE ~HasRoom(heap, LARGE)
  <2>1. Goes(2, Log, Log, Log)
    BY <1>2, <1>9, SaveStep
  <2>2. heap' = heap
    BY <1>2, <1>9, Sizes, PointerIs
  <2>3. Grown(2, Log, Log, Log) /\ Fits(2, Log, Log, Log)
    BY <2>1 DEF Goes
  <2>4. Tracking' => Tracking
    BY <1>1, <1>2, <1>6, <2>3, TrackingKept
  <2>5. /\ b <= Len(heap'.live) /\ Len(heap.live) = b + Len(Top.mem)
        /\ \A j \in 1..b : heap'.live[j] = heap.live[j]
        /\ Log.mem \in Seq(Block) /\ Len(heap'.live) = b + Len(Log.mem)
        /\ \A j \in 1..Len(Log.mem) : heap'.live[b + j] = Log.mem[j]
    BY <1>4, <1>6, <1>7, <2>2
  <2>6. IsHeap(heap')
    BY <1>2, <2>2
  <2>7. 2 \in 1..3
    OBVIOUS
  <2>8. Sound'
    BY <1>1, <1>2, <1>6, <2>3, <2>4, <2>5, <2>6, <2>7, SoundWith, Zenon
  <2> QED
    BY <2>2, <2>8
<1> QED
  BY <1>8, <1>9

LEMMA SavedIsSound ==
    ASSUME StackOK, TypeInv, CountInv, Sound, Saved
    PROVE  Sound' /\ heap'.misused = heap.misused
<1>1. /\ stack # <<>> /\ Top.at = "saved" /\ heap' = DEFAULT_FREE(heap, Top.mem[1])
      /\ lastPubTopic' = lastPubTopic /\ lastPubPayload' = lastPubPayload
      /\ handlerAttached' = handlerAttached
  BY DEF Saved, At
<1> DEFINE f == Frame("give up")
<1>2. Goes(2, f, Log, Log) /\ f.at = "give up" /\ f.mem = <<>>
  BY SavedStep, FrameIs DEF Steps
<1> HIDE DEF f
<1>3. Top \in Frames /\ FrameOK(Top) /\ Sent1(Top) /\ Len(Top.mem) = 1
  <2>1. Top \in Frames /\ FrameOK(Top)
    BY <1>1, TopFrame
  <2>2. Len(Top.mem) = 1
    BY <1>1, <2>1 DEF FrameOK, MemOK
  <2> QED
    BY <1>1, <2>1, <2>2 DEF Sent1, Bottom, Waiting, Storing
<1>4. PICK w : Layout(w) /\ MessageOK(w[1]) /\ IsHeap(heap)
  BY DEF Sound
<1>5. PICK b \in Nat : /\ Len(heap.live) = b + Len(Top.mem)
                       /\ Top.mem \in Seq(Block)
                       /\ \A j \in 1..Len(Top.mem) : heap.live[b + j] = Top.mem[j]
  BY <1>1, <1>4, TopBlocks
<1>6. Len(heap.live) = b + 1 /\ heap.live[b + 1] = Top.mem[1] /\ heap.live # <<>>
  BY <1>3, <1>4, <1>5
<1>7. heap' = DEFAULT_FREE(heap, heap.live[Len(heap.live)])
  BY <1>1, <1>6
<1>8. /\ IsHeap(heap') /\ heap'.misused = heap.misused
      /\ Len(heap'.live) = Len(heap.live) - 1 /\ DOMAIN heap'.live = 1..(Len(heap.live) - 1)
      /\ \A j \in DOMAIN heap'.live : heap'.live[j] = heap.live[j]
  BY <1>4, <1>6, <1>7, FreedLast
<1>9. /\ Len(heap'.live) = b /\ b <= Len(heap'.live)
      /\ \A j \in 1..b : heap'.live[j] = heap.live[j]
  BY <1>6, <1>8
<1>10. /\ f.mem \in Seq(Block) /\ Len(heap'.live) = b + Len(f.mem)
       /\ \A j \in 1..Len(f.mem) : heap'.live[b + j] = f.mem[j]
  <2>0. f.mem = <<>>
    BY <1>2, Zenon
  <2>1. f.mem \in Seq(Block) /\ Len(f.mem) = 0
    BY <2>0
  <2> QED
    BY <1>9, <2>1
<1>11. /\ Log.at \notin Storing /\ Log.at # "acked" /\ Log.mem = <<>>
       /\ f.at \notin Storing /\ f.at # "acked"
  BY <1>2, FrameIs DEF Storing
<1>12. Grown(2, f, Log, Log) /\ Fits(2, f, Log, Log)
  BY <1>2, Zenon DEF Goes
<1>13. 2 \in 1..3
  OBVIOUS
<1>14. Tracking' => Tracking
  BY <1>1, <1>3, <1>11, <1>12, TrackingKept
<1>15. Sound'
  BY <1>1, <1>5, <1>8, <1>9, <1>10, <1>11, <1>12, <1>14, <1>13, SoundWith, Zenon
<1> QED
  BY <1>8, <1>15

(* The copies are the last two blocks: they are freed in order.            *)
LEMMA FreesMessage ==
    ASSUME IsHeap(heap), FreeLastPubMessageResources,
           Kept(Len(heap.live)) \/ (lastPubTopic = NULL /\ lastPubPayload = NULL)
    PROVE  IsHeap(heap') /\ heap'.misused = heap.misused
<1>1. heap' = FreeIf(FreeIf(heap, lastPubPayload), lastPubTopic)
  BY DEF FreeLastPubMessageResources
<1>2. CASE lastPubTopic = NULL /\ lastPubPayload = NULL
  BY <1>1, <1>2 DEF FreeIf
<1>3. CASE Kept(Len(heap.live))
  <2> DEFINE n == Len(heap.live)
  <2> DEFINE g == DEFAULT_FREE(heap, heap.live[n])
  <2>1. /\ n \in Nat /\ n >= 2 /\ heap.live[n] = lastPubPayload
        /\ heap.live[n - 1] = lastPubTopic /\ n \in DOMAIN heap.live
        /\ n - 1 \in DOMAIN heap.live
        /\ lastPubPayload # NULL /\ lastPubTopic # NULL
    <3>1. n >= 2 /\ heap.live[n] = lastPubPayload /\ heap.live[n - 1] = lastPubTopic
      BY <1>3 DEF Kept
    <3>2. n \in Nat /\ DOMAIN heap.live = 1..n
          /\ \A j \in DOMAIN heap.live : heap.live[j] # NULL
      BY InOrder
    <3>3. n \in 1..n /\ n - 1 \in 1..n
      BY <3>1, <3>2
    <3> QED
      BY <3>1, <3>2, <3>3
  <2>2. heap.live # <<>>
    BY <2>1
  <2>3. /\ IsHeap(g) /\ g.misused = heap.misused
        /\ Len(g.live) = n - 1 /\ DOMAIN g.live = 1..(n - 1)
        /\ \A j \in DOMAIN g.live : g.live[j] = heap.live[j]
    BY <2>2, FreedLast
  <2>4. heap' = DEFAULT_FREE(g, lastPubTopic)
    BY <1>1, <2>1 DEF FreeIf
  <2> HIDE DEF g, n
  <2>5. g.live # <<>> /\ g.live[Len(g.live)] = lastPubTopic
    <3>1. n - 1 \in DOMAIN g.live
      BY <2>1, <2>3
    <3> QED
      BY <2>1, <2>3, <3>1
  <2>6. IsHeap(DEFAULT_FREE(g, g.live[Len(g.live)]))
        /\ DEFAULT_FREE(g, g.live[Len(g.live)]).misused = g.misused
    BY <2>3, <2>5, FreedLast
  <2> QED
    BY <2>3, <2>4, <2>5, <2>6
<1> QED
  BY <1>2, <1>3

LEMMA GiveUpIsSound ==
    ASSUME StackOK, TypeInv, CountInv, Sound, GiveUp
    PROVE  Sound' /\ heap'.misused = heap.misused
<1>1. /\ stack # <<>> /\ Top.at = "give up" /\ FreeLastPubMessageResources
      /\ Goes(0, Log, Log, Log)
  BY GiveUpStep DEF GiveUp, At
<1>2. Top \in Frames /\ FrameOK(Top) /\ Sent1(Top) /\ Bottom(Top)
  BY <1>1, TopFrame DEF Sent1, Bottom, Waiting, Storing
<1>3. Top.mem = <<>>
  <2>1. Top.at \notin (Handling \ {"topic name"}) \cup {"saved"}
    BY <1>1 DEF Handling, Active
  <2> QED
    BY <1>2, <2>1 DEF FrameOK, MemOK
<1>4. /\ Len(stack) = 1 /\ stack[1] = Top /\ 1 \in DOMAIN stack
      /\ IsHeap(heap) /\ MessageOK(Len(heap.live))
  BY <1>1, <1>2, <1>3, AtBottom
<1>5. Tracking
  BY <1>2, <1>4 DEF Tracking, Sent1
<1>6. IsHeap(heap') /\ heap'.misused = heap.misused
  BY <1>1, <1>4, <1>5, FreesMessage DEF MessageOK
<1>7. lastPubTopic' = NULL /\ lastPubPayload' = NULL
  BY <1>1 DEF FreeLastPubMessageResources
<1>8. Log.at \notin Storing /\ Log.mem = <<>>
  BY FrameIs DEF Storing
<1>9. Grown(0, Log, Log, Log)
  BY <1>1 DEF Goes
<1>10. PICK p : p = Len(heap'.live)
  OBVIOUS
<1>11. MessageOK(p)'
  BY <1>1, <1>4, <1>7, <1>8, <1>9, BottomMessage
<1>12. Sound'
  BY <1>1, <1>4, <1>6, <1>8, <1>9, <1>10, <1>11, BottomGoes
<1> QED
  BY <1>6, <1>12

(* Its PUBACK: when a frame has allocated more, the copies are not the     *)
(* last blocks, and the heap is misused.                                   *)
LEMMA FreesEarly ==
    ASSUME IsHeap(heap), HeapType(heap), NEW p \in Nat, p < Len(heap.live), Kept(p),
           FreeLastPubMessageResources
    PROVE  heap'.misused = 1
<1> DEFINE g == DEFAULT_FREE(heap, lastPubPayload)
<1>1. /\ Len(heap.live) \in Nat /\ DOMAIN heap.live = 1..Len(heap.live)
      /\ \A j \in DOMAIN heap.live : heap.live[j] # NULL
      /\ \A j, k \in DOMAIN heap.live : j # k => heap.live[j] # heap.live[k]
  BY InOrder
<1>2. /\ p \in DOMAIN heap.live /\ p - 1 \in DOMAIN heap.live
      /\ Len(heap.live) \in DOMAIN heap.live /\ p # Len(heap.live)
      /\ heap.live[p] = lastPubPayload /\ heap.live[p - 1] = lastPubTopic
  <2>1. p >= 2 /\ heap.live[p] = lastPubPayload /\ heap.live[p - 1] = lastPubTopic
    BY DEF Kept
  <2>2. p \in 1..Len(heap.live) /\ p - 1 \in 1..Len(heap.live)
        /\ Len(heap.live) \in 1..Len(heap.live) /\ p # Len(heap.live)
    BY <1>1, <2>1
  <2> QED
    BY <1>1, <2>1, <2>2
<1>3. lastPubPayload # NULL /\ lastPubTopic # NULL
  BY <1>1, <1>2
<1>4. ~IsLast(heap, lastPubPayload)
  BY <1>1, <1>2 DEF IsLast, Last
<1>5. g.misused = 1
  BY <1>4, Fields
<1>6. HeapType(g)
  BY HeapTypeKept
<1>7. heap' = DEFAULT_FREE(g, lastPubTopic)
  BY <1>3 DEF FreeLastPubMessageResources, FreeIf
<1> HIDE DEF g
<1>8. DEFAULT_FREE(g, lastPubTopic).misused = 1
  BY <1>5, <1>6 DEF DEFAULT_FREE, HeapType
<1> QED
  BY <1>7, <1>8

LEMMA AckedIsSound ==
    ASSUME StackOK, TypeInv, CountInv, Sound, heap.misused = 0, Acked
    PROVE  HeapInv'
<1>1. /\ stack # <<>> /\ Top.at = "acked" /\ FreeLastPubMessageResources
      /\ Goes(0, Log, Log, Log) /\ TypeInv'
  BY AckedStep DEF Acked, At
<1>2. PICK w : Layout(w) /\ MessageOK(w[1]) /\ IsHeap(heap)
  BY DEF Sound
<1>3. Top \in Frames /\ FrameOK(Top) /\ Len(stack) \in DOMAIN stack /\ Top = stack[Len(stack)]
  BY <1>1, TopFrame
<1>4. Top.mem = <<>>
  <2>1. Top.at \notin (Handling \ {"topic name"}) \cup {"saved"}
    BY <1>1 DEF Handling, Active
  <2> QED
    BY <1>3, <2>1 DEF FrameOK, MemOK
<1>5. Tracking
  BY <1>1, <1>3 DEF Tracking
<1>6. Kept(w[1]) \/ (lastPubTopic = NULL /\ lastPubPayload = NULL)
  BY <1>2, <1>5 DEF MessageOK
<1>7. lastPubTopic' = NULL /\ lastPubPayload' = NULL
  BY <1>1 DEF FreeLastPubMessageResources
<1> DEFINE n == Len(stack)
<1>8. /\ n \in Nat \ {0} /\ DOMAIN stack = 1..n
      /\ DOMAIN stack' = 1..(n - 1) /\ stack' \in Seq(Frames)
      /\ \A i \in 1..(n - 1) : stack'[i] = stack[i]
  <2>1. Grown(0, Log, Log, Log) /\ stack \in Seq(Frames)
    BY <1>1 DEF Goes, StackOK
  <2>2. n \in Nat \ {0} /\ Len(stack') = n - 1 + 0 /\ DOMAIN stack' = 1..Len(stack')
    BY <1>1, <2>1 DEF Grown
  <2> QED
    BY <2>1, <2>2 DEF Grown
<1>9. /\ w[1] \in Nat /\ w[n] \in Nat /\ w[1] <= w[n] /\ w[n] = Len(heap.live)
      /\ w[n + 1] = Len(heap.live) /\ Len(heap.live) \in Nat
  <2>1. /\ w[1] \in Nat /\ w[n] \in Nat /\ w[1] <= w[n]
        /\ Len(heap.live) = w[n] + Len(Top.mem) /\ w[n + 1] = Len(heap.live)
    BY <1>1, <1>2, TopBlocks DEF Layout
  <2>2. Len(Top.mem) = 0
    BY <1>4
  <2> QED
    BY <2>1, <2>2
<1>10. heap'.misused \in 0..1
  BY <1>1 DEF TypeInv, HeapType
<1> HIDE DEF n
<1>11. CASE w[1] = Len(heap.live)
  <2>1. IsHeap(heap') /\ heap'.misused = 0
    BY <1>1, <1>2, <1>6, <1>11, FreesMessage
  <2>2. ASSUME NEW i \in 1..(n - 1) PROVE stack[i].mem = <<>>
    <3>1. /\ 1 \in 1..(n + 1) /\ i \in 1..(n + 1) /\ i + 1 \in 1..(n + 1) /\ n + 1 \in 1..(n + 1)
          /\ i \in 1..n /\ 1 <= i /\ i + 1 <= n + 1
      BY <1>8
    <3>2. /\ w[1] <= w[i] /\ w[i + 1] <= w[n + 1]
          /\ w[i] \in Nat /\ w[i + 1] \in Nat
          /\ w[i + 1] = w[i] + Len(stack[i].mem)
      <4>1. \A x, y \in 1..(n + 1) : x <= y => w[x] <= w[y]
        BY <1>2 DEF Layout, n
      <4>2. \A x \in 1..(n + 1) : w[x] \in Nat
        BY <1>2 DEF Layout, n
      <4>3. w[i + 1] = w[i] + Len(stack[i].mem)
        BY <1>2, <1>8, <3>1 DEF Layout
      <4> QED
        BY <3>1, <4>1, <4>2, <4>3
    <3>3. stack[i] \in Frames
      BY <1>8, <3>1 DEF StackOK
    <3>4. stack[i].mem \in Seq(Block) /\ Len(stack[i].mem) \in Nat
      BY <3>3 DEF Frames
    <3>5. Len(stack[i].mem) = 0
      BY <1>9, <1>11, <3>2, <3>4
    <3> QED
      BY <3>4, <3>5
  <2>3. \A i \in DOMAIN stack' : stack'[i].mem = <<>>
    BY <1>8, <2>2
  <2>4. PICK v : Layout(v)' /\ v[1] = Len(heap'.live)
    BY <1>8, <2>1, <2>3, LayoutOfNone
  <2>5. ASSUME NEW i \in DOMAIN stack', stack'[i].at \in Storing PROVE FALSE
    <3>1. i \in DOMAIN stack /\ stack[i].at \in Storing
      BY <1>8, <2>5
    <3> QED
      BY <1>2, <1>5, <3>1 DEF MessageOK
  <2>6. "payload" \in Storing /\ "track" \in Storing
    BY DEF Storing
  <2>7. MessageOK(v[1])'
    BY <1>7, <2>5, <2>6 DEF MessageOK
  <2>8. Sound'
    BY <2>1, <2>4, <2>7 DEF Sound
  <2> QED
    BY <2>1, <2>8 DEF HeapInv
<1>12. CASE w[1] # Len(heap.live) /\ Kept(w[1])
  <2>1. heap'.misused = 1
    <3>1. w[1] < Len(heap.live)
      BY <1>9, <1>12
    <3> QED
      BY <1>1, <1>2, <1>9, <1>12, <3>1, FreesEarly DEF TypeInv
  <2>2. PICK j \in 1..(n - 1) : stack[j].mem # <<>>
    <3>1. n \in 1..(Len(stack) + 1) /\ w[n] # w[1]
      BY <1>8, <1>9, <1>12 DEF n
    <3> QED
      BY <1>2, <3>1 DEF Layout
  <2>3. j \in DOMAIN stack' /\ stack'[j].mem # <<>>
    BY <1>8, <2>2
  <2> QED
    BY <1>7, <2>1, <2>3 DEF HeapInv
<1>13. CASE lastPubTopic = NULL /\ lastPubPayload = NULL
  <2>1. heap' = heap
    BY <1>1, <1>13 DEF FreeLastPubMessageResources, FreeIf
  <2>2. Log.at \notin Storing /\ Log.mem = <<>>
    BY FrameIs DEF Storing
  <2>3. Tracking' => Tracking
    BY <1>5
  <2>4. PICK b \in Nat : b = Len(heap.live) /\ Len(heap.live) = b + Len(Top.mem)
    <3>1. Len(Top.mem) = 0
      BY <1>4
    <3> QED
      BY <1>9, <3>1
  <2>5. /\ b <= Len(heap'.live) /\ Len(heap'.live) = b /\ IsHeap(heap')
        /\ \A j \in 1..b : heap'.live[j] = heap.live[j]
    BY <1>2, <2>1, <2>4
  <2>6. Grown(0, Log, Log, Log)
    BY <1>1 DEF Goes
  <2>7. lastPubTopic' = lastPubTopic /\ lastPubPayload' = lastPubPayload
    BY <1>7, <1>13
  <2>8. Sound'
    BY <1>1, <2>3, <2>4, <2>5, <2>6, <2>7, SoundWithout
  <2> QED
    BY <2>1, <2>8 DEF HeapInv
<1> QED
  BY <1>6, <1>11, <1>12, <1>13

LEMMA ReadAPacketIsSound ==
    ASSUME StackOK, TypeInv, CountInv, Sound, ReadAPacket
    PROVE  Sound' /\ heap' = heap
<1>1. stack # <<>> /\ Top.at = "read"
  BY DEF ReadAPacket, At
<1>2. UNCHANGED <<heap, lastPubTopic, lastPubPayload>>
  BY ReadAPacketStep
<1>3. CASE \E k, f, g, e : Goes(k, f, g, e) /\ Quiet(f, g, e) /\ Idle(k, f, g, e)
  BY <1>1, <1>3, IdleIsSound
<1>4. CASE /\ handlerAttached = 1 /\ handlerAttached' = 0
           /\ \E k \in 2..3 : Goes(k, Top, Frame("acked"), Log)
  <2> DEFINE g == Frame("acked")
  <2>1. PICK k \in 2..3 : Goes(k, Top, g, Log)
    BY <1>4
  <2>2. g.at = "acked" /\ g.mem = <<>> /\ Log.at = "log" /\ Log.mem = <<>>
    BY FrameIs DEF Steps
  <2>3. Grown(k, Top, g, Log) /\ k \in 1..3
    BY <2>1 DEF Goes
  <2> HIDE DEF g
  <2>4. Top.at \notin Storing /\ g.at \notin Storing /\ Log.at \notin Storing
    BY <1>1, <2>2 DEF Storing
  <2>5. Tracking' => Tracking
    BY <1>4 DEF Tracking
  <2>6. PICK w : Layout(w) /\ MessageOK(w[1]) /\ IsHeap(heap)
    BY DEF Sound
  <2>7. PICK b \in Nat : /\ Len(heap.live) = b + Len(Top.mem)
                         /\ Top.mem \in Seq(Block) /\ Len(Top.mem) \in Nat
                         /\ \A j \in 1..Len(Top.mem) : heap.live[b + j] = Top.mem[j]
    BY <1>1, <2>6, TopBlocks
  <2>8. /\ IsHeap(heap') /\ b <= Len(heap'.live) /\ Len(heap'.live) = b + Len(Top.mem)
        /\ \A j \in 1..b : heap'.live[j] = heap.live[j]
        /\ \A j \in 1..Len(Top.mem) : heap'.live[b + j] = Top.mem[j]
    BY <1>2, <2>6, <2>7
  <2>9. Sound'
    BY <1>1, <1>2, <2>2, <2>3, <2>4, <2>5, <2>7, <2>8, SoundWith
  <2> QED
    BY <1>2, <2>9
<1> QED
  BY <1>3, <1>4, ReadAPacketStep

-----------------------------------------------------------------------------
(* The time for which the server gets logs.                                *)
SoonInTime(f) ==
    enabled' = 1 =>
        /\ f.at = "emit" /\ serverLoggingEnabled' = 1 => since' <= EXPIRY_SECONDS
        /\ f.at = "publish" /\ f.kind = "log" => since' <= EXPIRY_SECONDS
        /\ f.at = "send" /\ f.kind = "log" => since' <= EXPIRY_SECONDS + 1

Timed(k, f, g, e) ==
    /\ enabled' = 0 => serverLoggingEnabled' = 0
    /\ Noticed => Noticed'
    /\ (f.at = "emit" /\ k # 1) \/ g.at = "emit" \/ e.at = "emit" => Noticed'
    /\ serverLoggingEnabled' = 1 =>
         \/ age' = Capped(since', EXPIRY_SECONDS + 1)
         \/ age' = FRESH_SERVER_LOGS_TIME /\ since' = 0 /\ k = 2 /\ g.at = "log"
    /\ k = 1 => SoonInTime(f)
    /\ k = 2 => SoonInTime(g)
    /\ k = 3 => SoonInTime(e)

LEMMA WindowKept ==
    ASSUME StackOK, WindowInv, stack # <<>>, NEW k, NEW f, NEW g, NEW e,
           Grown(k, f, g, e), Timed(k, f, g, e)
    PROVE  WindowInv'
<1> DEFINE n == Len(stack)
<1>1. /\ n \in Nat \ {0} /\ DOMAIN stack = 1..n /\ k \in 0..3
      /\ DOMAIN stack' = 1..Len(stack') /\ Len(stack') = n - 1 + k /\ Len(stack') \in Nat
      /\ \A i \in DOMAIN stack' :
            \/ i \in 1..(n - 1) /\ stack'[i] = stack[i]
            \/ k >= 1 /\ i = n /\ stack'[i] = f
            \/ k >= 2 /\ i = n + 1 /\ stack'[i] = g
            \/ k = 3 /\ i = n + 2 /\ stack'[i] = e
      /\ \A i \in 1..(n - 1) : stack'[i] = stack[i]
      /\ k >= 1 => stack'[n] = f
      /\ k >= 2 => stack'[n + 1] = g
      /\ k >= 3 => stack'[n + 2] = e
      /\ stack' \in Seq(Frames)
  <2>1. stack \in Seq(Frames) /\ stack' \in Seq(Frames)
    BY DEF StackOK, Grown
  <2> QED
    BY <2>1, Positions
<1> HIDE DEF n
<1>2. enabled' = 0 => serverLoggingEnabled' = 0
  BY DEF Timed
<1>3. /\ Noticed => Noticed'
      /\ (f.at = "emit" /\ k # 1) \/ g.at = "emit" \/ e.at = "emit" => Noticed'
  BY DEF Timed
<1>4. ASSUME NEW i \in DOMAIN stack', stack'[i].at = "emit", i # Len(stack')
      PROVE  Noticed'
  <2>1. CASE i \in 1..(n - 1) /\ stack'[i] = stack[i]
    <3>1. i \in DOMAIN stack /\ i # n /\ stack[i].at = "emit"
      BY <1>1, <1>4, <2>1
    <3>2. Noticed
      BY <3>1 DEF WindowInv, n
    <3> QED
      BY <1>3, <3>2
  <2>2. CASE k >= 1 /\ i = n /\ stack'[i] = f
    <3>1. k # 1 /\ f.at = "emit"
      BY <1>1, <1>4, <2>2
    <3> QED
      BY <1>3, <3>1
  <2>3. CASE stack'[i] = g \/ stack'[i] = e
    BY <1>3, <1>4, <2>3
  <2> QED
    BY <1>1, <2>1, <2>2, <2>3
<1>5. Top' = stack'[Len(stack')]
  BY DEF Top, Last
<1>6. /\ k = 1 => stack' # <<>> /\ Top' = f
      /\ k = 2 => stack' # <<>> /\ Top' = g
      /\ k = 3 => stack' # <<>> /\ Top' = e
  BY <1>1, <1>5
<1>7. Counted'
  <2>1. ASSUME serverLoggingEnabled' = 1
        PROVE  \/ age' = Capped(since', EXPIRY_SECONDS + 1)
               \/ age' = FRESH_SERVER_LOGS_TIME /\ since' = 0 /\ k = 2 /\ g.at = "log"
    BY <2>1 DEF Timed
  <2>2. k = 2 /\ g.at = "log" => At("log")'
    BY <1>6 DEF At
  <2> QED
    BY <2>1, <2>2 DEF Counted, Capped, FRESH_SERVER_LOGS_TIME
<1>8. InTime'
  <2>1. CASE k = 0
    <3>1. ASSUME stack' # <<>>, Top'.at = "emit" PROVE Noticed
      <4>1. n - 1 \in 1..(n - 1) /\ Top' = stack[n - 1] /\ n - 1 \in DOMAIN stack /\ n - 1 # n
        <5>1. Len(stack') = n - 1 /\ n - 1 # 0
          BY <1>1, <2>1, <3>1
        <5> QED
          BY <1>1, <1>5, <5>1
      <4> QED
        BY <3>1, <4>1 DEF WindowInv, n
    <3>2. ASSUME stack' # <<>>, AtTop(Top') PROVE FALSE
      <4>1. n - 1 \in 1..(n - 1) /\ Top' = stack[n - 1] /\ n - 1 \in DOMAIN stack /\ n - 1 # n
        <5>1. Len(stack') = n - 1 /\ n - 1 # 0
          BY <1>1, <2>1, <3>2
        <5> QED
          BY <1>1, <1>5, <5>1
      <4> QED
        BY <3>2, <4>1 DEF StackOK, n
    <3>3. At("emit")' /\ serverLoggingEnabled' = 1 => enabled' # 1
      BY <1>3, <3>1 DEF At, Noticed
    <3>4. ~(At("publish")' /\ Top'.kind = "log") /\ ~(At("send")' /\ Top'.kind = "log")
      BY <3>2 DEF At, AtTop
    <3> QED
      BY <3>3, <3>4 DEF InTime
  <2>2. CASE k \in 1..3
    <3>1. stack' # <<>> /\ SoonInTime(Top')
      BY <1>6, <2>2 DEF Timed
    <3> QED
      BY <3>1 DEF SoonInTime, InTime, At
  <2> QED
    BY <1>1, <2>1, <2>2
<1> QED
  BY <1>2, <1>4, <1>7, <1>8 DEF WindowInv

LEMMA QuietIsTimed ==
    ASSUME WindowInv, NEW k, NEW f, NEW g, NEW e, Quiet(f, g, e)
    PROVE  Timed(k, f, g, e)
<1>1. /\ UNCHANGED <<serverLoggingEnabled, age, since, enabled>>
      /\ f.at # "emit" /\ g.at # "emit" /\ e.at # "emit" /\ Top.at # "log"
  BY DEF Quiet, Fails
<1>2. SoonInTime(f) /\ SoonInTime(g) /\ SoonInTime(e)
  BY DEF Quiet, SoonInTime
<1>3. Noticed' = Noticed
  BY <1>1 DEF Noticed
<1>4. serverLoggingEnabled' = 1 => age' = Capped(since', EXPIRY_SECONDS + 1)
  BY <1>1 DEF WindowInv, Counted, At, Capped
<1>5. enabled' = 0 => serverLoggingEnabled' = 0
  BY <1>1 DEF WindowInv
<1> QED
  BY <1>1, <1>2, <1>3, <1>4, <1>5 DEF Timed

(* A second passes for the driver and for the server alike.                *)
LEMMA SecondCounts ==
    ASSUME TypeInv, WindowInv, ASecond, ~At("log"), serverLoggingEnabled = 1
    PROVE  age' = Capped(since', EXPIRY_SECONDS + 1)
<1>1. age = Capped(since, EXPIRY_SECONDS + 1)
  BY DEF WindowInv, Counted
<1>2. EXPIRY_SECONDS \in Nat /\ since \in 0..(EXPIRY_SECONDS + 2)
  BY CallsAssumption DEF TypeInv, CallsAssumption
<1>3. age # FRESH_SERVER_LOGS_TIME /\ age \in Nat
  BY <1>1, <1>2 DEF Capped, FRESH_SERVER_LOGS_TIME
<1>4. age' = Capped(age + 1, EXPIRY_SECONDS + 1) /\ since' = Capped(since + 1, EXPIRY_SECONDS + 2)
  BY <1>3 DEF ASecond
<1>5. CASE since > EXPIRY_SECONDS
  <2>1. age = EXPIRY_SECONDS + 1 /\ age' = EXPIRY_SECONDS + 1
    BY <1>1, <1>2, <1>4, <1>5 DEF Capped
  <2>2. since' \in {EXPIRY_SECONDS + 1, EXPIRY_SECONDS + 2}
    BY <1>2, <1>4, <1>5 DEF Capped
  <2> QED
    BY <1>2, <2>1, <2>2 DEF Capped
<1>6. CASE ~(since > EXPIRY_SECONDS)
  <2>1. age = since
    BY <1>1, <1>2, <1>6 DEF Capped
  <2>2. since' = since + 1 /\ age' = since + 1
    BY <1>2, <1>4, <1>6, <2>1 DEF Capped
  <2> QED
    BY <1>2, <1>6, <2>2 DEF Capped
<1> QED
  BY <1>5, <1>6

LEMMA MetadataIsTimed ==
    ASSUME StackOK, TypeInv, WindowInv, Metadata
    PROVE  WindowInv'
<1>1. stack # <<>> /\ Top.at = "log" /\ UNCHANGED <<since, enabled>>
  BY DEF Metadata, At
<1>2. Top \in Frames /\ stack \in Seq(Frames)
  BY <1>1, TopFrame
<1> DEFINE f == Then("emit")
<1> DEFINE g == Publish("notice")
<1>3. /\ f \in Frames /\ f.at = "emit" /\ g \in Frames /\ g.at = "publish" /\ g.kind = "notice"
      /\ Log.at = "log"
  <2>1. "emit" \in Steps /\ "notice" \in Kinds
    BY Zenon DEF Steps, Kinds
  <2> QED
    BY <1>2, <2>1, ThenIs, FrameIs
<1>4. EXPIRY_SECONDS \in Nat /\ since \in 0..(EXPIRY_SECONDS + 2)
      /\ age \in -1..(EXPIRY_SECONDS + 1)
  BY CallsAssumption DEF TypeInv, CallsAssumption
<1>5. CASE serverLoggingEnabled = 1 /\ age > EXPIRY_SECONDS
  <2>1. /\ age' = FRESH_SERVER_LOGS_TIME /\ serverLoggingEnabled' = 0
        /\ Becomes(<<f, g>>)
    BY <1>5 DEF Metadata
  <2> HIDE DEF f, g
  <2>2. Grown(2, f, g, Log)
    BY <1>1, <1>2, <1>3, <2>1, Grow
  <2>3. enabled # 0
    BY <1>5 DEF WindowInv
  <2>4. Noticed'
    BY <1>1, <2>1, <2>3 DEF Noticed
  <2>5. SoonInTime(g)
    BY <1>3 DEF SoonInTime
  <2>6. Timed(2, f, g, Log)
    BY <2>1, <2>4, <2>5 DEF Timed
  <2> QED
    BY <1>1, <2>2, <2>6, WindowKept
<1>6. CASE ~(serverLoggingEnabled = 1 /\ age > EXPIRY_SECONDS)
  <2>1. /\ age' = IF serverLoggingEnabled = 1 /\ age = FRESH_SERVER_LOGS_TIME THEN 0 ELSE age
        /\ serverLoggingEnabled' = serverLoggingEnabled /\ Becomes(<<f>>)
    BY <1>6 DEF Metadata
  <2> HIDE DEF f, g
  <2>2. Grown(1, f, Log, Log)
    BY <1>1, <1>2, <1>3, <2>1, Grow
  <2>3. Noticed' = Noticed
    BY <1>1, <2>1 DEF Noticed
  <2>4. ASSUME serverLoggingEnabled = 1
        PROVE  age' = Capped(since, EXPIRY_SECONDS + 1) /\ since <= EXPIRY_SECONDS
    <3>1. \/ age = Capped(since, EXPIRY_SECONDS + 1)
          \/ age = FRESH_SERVER_LOGS_TIME /\ since = 0
      BY <2>4 DEF WindowInv, Counted
    <3>2. ~(age > EXPIRY_SECONDS)
      BY <1>6, <2>4
    <3> QED
      BY <1>4, <2>1, <2>4, <3>1, <3>2 DEF Capped, FRESH_SERVER_LOGS_TIME
  <2>5. SoonInTime(f)
    BY <1>1, <1>3, <2>1, <2>4 DEF SoonInTime
  <2>6. enabled' = 0 => serverLoggingEnabled' = 0
    BY <1>1, <2>1 DEF WindowInv
  <2>7. serverLoggingEnabled' = 1 => age' = Capped(since', EXPIRY_SECONDS + 1)
    BY <1>1, <2>1, <2>4
  <2>8. Timed(1, f, Log, Log)
    BY <1>3, <2>3, <2>5, <2>6, <2>7 DEF Timed
  <2> QED
    BY <1>1, <2>2, <2>8, WindowKept
<1> QED
  BY <1>5, <1>6

LEMMA EmitIsTimed ==
    ASSUME StackOK, TypeInv, WindowInv, Emit
    PROVE  WindowInv'
<1>1. stack # <<>> /\ Top.at = "emit" /\ UNCHANGED <<serverLoggingEnabled, age, since, enabled>>
  BY DEF Emit, At, loggingVars
<1>2. Top \in Frames /\ stack \in Seq(Frames)
  BY <1>1, TopFrame
<1> DEFINE f == Publish("log")
<1>3. f \in Frames /\ f.at = "publish" /\ f.kind = "log" /\ Log.at = "log"
  BY FrameIs DEF Kinds
<1>4. Noticed' = Noticed
  BY <1>1 DEF Noticed
<1>5. enabled' = 0 => serverLoggingEnabled' = 0
  BY <1>1 DEF WindowInv
<1>6. serverLoggingEnabled' = 1 => age' = Capped(since', EXPIRY_SECONDS + 1)
  BY <1>1 DEF WindowInv, Counted, At, Capped
<1>7. CASE serverLoggingEnabled = 1
  <2>1. Becomes(<<f>>)
    BY <1>7 DEF Emit
  <2>2. enabled = 1 => since <= EXPIRY_SECONDS
    BY <1>1, <1>7 DEF WindowInv, InTime, At
  <2> HIDE DEF f
  <2>3. Grown(1, f, Log, Log)
    BY <1>1, <1>2, <1>3, <2>1, Grow
  <2>4. SoonInTime(f)
    BY <1>1, <1>3, <2>2 DEF SoonInTime
  <2>5. Timed(1, f, Log, Log)
    BY <1>3, <1>4, <1>5, <1>6, <2>4 DEF Timed
  <2> QED
    BY <1>1, <2>3, <2>5, WindowKept
<1>8. CASE serverLoggingEnabled # 1
  <2>1. Becomes(<<>>)
    BY <1>8 DEF Emit
  <2>2. Grown(0, Log, Log, Log)
    BY <1>1, <1>2, <2>1, Grow
  <2>3. Timed(0, Log, Log, Log)
    BY <1>3, <1>4, <1>5, <1>6 DEF Timed
  <2> QED
    BY <1>1, <2>2, <2>3, WindowKept
<1> QED
  BY <1>7, <1>8

LEMMA PublishStartIsTimed ==
    ASSUME StackOK, TypeInv, WindowInv, PublishStart
    PROVE  WindowInv'
<1>1. stack # <<>> /\ Top.at = "publish" /\ ASecond /\ serverLoggingEnabled' = serverLoggingEnabled
      /\ enabled' = enabled /\ since' = Capped(since + 1, EXPIRY_SECONDS + 2)
  BY DEF PublishStart, At, ASecond
<1>2. Top \in Frames /\ stack \in Seq(Frames) /\ FrameOK(Top)
  BY <1>1, TopFrame
<1>3. Top.kind \in {"log", "notice", "app", "sure"}
  BY <1>1, <1>2 DEF FrameOK, Publishing
<1>4. Noticed' = Noticed
  BY <1>1 DEF Noticed
<1>5. enabled' = 0 => serverLoggingEnabled' = 0
  BY <1>1 DEF WindowInv
<1>6. serverLoggingEnabled' = 1 => age' = Capped(since', EXPIRY_SECONDS + 1)
  BY <1>1, SecondCounts DEF At
<1>7. enabled' = 1 /\ Top.kind = "log" => since' <= EXPIRY_SECONDS + 1
  <2>1. enabled = 1 /\ Top.kind = "log" => since <= EXPIRY_SECONDS
    BY <1>1 DEF WindowInv, InTime, At
  <2>2. EXPIRY_SECONDS \in Nat /\ since \in 0..(EXPIRY_SECONDS + 2)
    BY CallsAssumption DEF TypeInv, CallsAssumption
  <2> QED
    BY <1>1, <2>1, <2>2 DEF Capped
<1>8. /\ Then("send") \in Frames /\ Then("send").at = "send" /\ Then("send").kind = Top.kind
      /\ Then("topic") \in Frames /\ Then("topic").at = "topic"
      /\ Log \in Frames /\ Log.at = "log"
  <2>1. "send" \in Steps /\ "topic" \in Steps
    BY Zenon DEF Steps
  <2> QED
    BY <1>2, <2>1, ThenIs, FrameIs
<1>9. SoonInTime(Then("send")) /\ SoonInTime(Then("topic")) /\ SoonInTime(Log)
  BY <1>7, <1>8 DEF SoonInTime
<1>10. CASE Top.kind \in {"log", "notice"}
  <2>1. Becomes(<<Then("send")>>)
    BY <1>10 DEF PublishStart
  <2>2. Grown(1, Then("send"), Log, Log)
    BY <1>1, <1>2, <1>8, <2>1, Grow
  <2>3. Timed(1, Then("send"), Log, Log)
    BY <1>4, <1>5, <1>6, <1>8, <1>9 DEF Timed
  <2> QED
    BY <1>1, <2>2, <2>3, WindowKept
<1>11. CASE Top.kind = "app"
  <2>1. Becomes(<<Then("send"), Log>>)
    BY <1>11 DEF PublishStart
  <2>2. Grown(2, Then("send"), Log, Log)
    BY <1>1, <1>2, <1>8, <2>1, Grow
  <2>3. Timed(2, Then("send"), Log, Log)
    BY <1>4, <1>5, <1>6, <1>8, <1>9 DEF Timed
  <2> QED
    BY <1>1, <2>2, <2>3, WindowKept
<1>12. CASE Top.kind = "sure"
  <2>1. Becomes(<<Then("topic")>>)
    BY <1>12 DEF PublishStart
  <2>2. Grown(1, Then("topic"), Log, Log)
    BY <1>1, <1>2, <1>8, <2>1, Grow
  <2>3. Timed(1, Then("topic"), Log, Log)
    BY <1>4, <1>5, <1>6, <1>8, <1>9 DEF Timed
  <2> QED
    BY <1>1, <2>2, <2>3, WindowKept
<1> QED
  BY <1>3, <1>10, <1>11, <1>12

LEMMA ReadNothingIsTimed ==
    ASSUME StackOK, TypeInv, WindowInv, ReadNothing
    PROVE  WindowInv'
<1>1. stack # <<>> /\ Top.at = "read" /\ ASecond /\ serverLoggingEnabled' = serverLoggingEnabled
      /\ enabled' = enabled /\ Becomes(<<>>)
  BY DEF ReadNothing, At, ASecond
<1>2. stack \in Seq(Frames) /\ Log.at = "log"
  BY FrameIs DEF StackOK
<1>3. Noticed' = Noticed
  BY <1>1 DEF Noticed
<1>4. enabled' = 0 => serverLoggingEnabled' = 0
  BY <1>1 DEF WindowInv
<1>5. serverLoggingEnabled' = 1 => age' = Capped(since', EXPIRY_SECONDS + 1)
  BY <1>1, SecondCounts DEF At
<1>6. Grown(0, Log, Log, Log)
  BY <1>1, <1>2, Grow
<1>7. Timed(0, Log, Log, Log)
  BY <1>2, <1>3, <1>4, <1>5 DEF Timed
<1> QED
  BY <1>1, <1>6, <1>7, WindowKept

LEMMA SwitchIsTimed ==
    ASSUME StackOK, TypeInv, CountInv, WindowInv, Switch
    PROVE  WindowInv'
<1>1. stack # <<>> /\ Top.at = "switch"
  BY DEF Switch, At
<1>2. Top \in Frames /\ stack \in Seq(Frames) /\ enabled \in Nat
  BY <1>1, TopFrame DEF CountInv
<1> DEFINE f == Then("free")
<1>3. f \in Frames /\ f.at = "free" /\ Log \in Frames /\ Log.at = "log"
  <2>1. "free" \in Steps
    BY Zenon DEF Steps
  <2> QED
    BY <1>2, <2>1, ThenIs, FrameIs
<1>4. EXPIRY_SECONDS \in Nat /\ since \in 0..(EXPIRY_SECONDS + 2)
  BY CallsAssumption DEF TypeInv, CallsAssumption
<1>5. serverLoggingEnabled = 1 => age = Capped(since, EXPIRY_SECONDS + 1)
  BY <1>1 DEF WindowInv, Counted, At
<1>6. SoonInTime(f) /\ SoonInTime(Log)
  BY <1>3 DEF SoonInTime
<1>7. ASSUME NEW on \in BOOLEAN, SwitchTo(on)
      PROVE  WindowInv'
  <2>1. Becomes(<<f, Log>>)
    BY <1>7 DEF SwitchTo
  <2>2. Grown(2, f, Log, Log)
    BY <1>1, <1>2, <1>3, <2>1, Grow
  <2>3. CASE on
    <3>1. serverLoggingEnabled' = 1 /\ age' = FRESH_SERVER_LOGS_TIME /\ since' = 0
          /\ enabled' = enabled + 1
      BY <1>7, <2>3 DEF SwitchTo
    <3>2. Noticed => Noticed'
      BY <1>2, <3>1 DEF Noticed
    <3>3. enabled' # 0
      BY <1>2, <3>1
    <3> HIDE DEF f
    <3>4. Timed(2, f, Log, Log)
      BY <1>3, <1>6, <3>1, <3>2, <3>3 DEF Timed
    <3> QED
      BY <1>1, <2>2, <3>4, WindowKept
  <2>4. CASE ~on
    <3>1. serverLoggingEnabled' = 0 /\ enabled' = enabled
      BY <1>7, <2>4 DEF SwitchTo
    <3>2. Noticed => Noticed'
      BY <3>1 DEF Noticed
    <3> HIDE DEF f
    <3>3. Timed(2, f, Log, Log)
      BY <1>3, <1>6, <3>1, <3>2 DEF Timed
    <3> QED
      BY <1>1, <2>2, <3>3, WindowKept
  <2> QED
    BY <2>3, <2>4
<1>8. CASE Becomes(<<f>>) /\ UNCHANGED loggingVars
  <2>1. Becomes(<<f>>) /\ UNCHANGED <<serverLoggingEnabled, age, since, enabled>>
    BY <1>8 DEF loggingVars
  <2>2. Grown(1, f, Log, Log)
    BY <1>1, <1>2, <1>3, <2>1, Grow
  <2>3. Noticed' = Noticed
    BY <2>1 DEF Noticed
  <2>4. enabled' = 0 => serverLoggingEnabled' = 0
    BY <2>1 DEF WindowInv
  <2>5. serverLoggingEnabled' = 1 => age' = Capped(since', EXPIRY_SECONDS + 1)
    BY <1>5, <2>1
  <2> HIDE DEF f
  <2>6. Timed(1, f, Log, Log)
    BY <1>3, <1>6, <2>3, <2>4, <2>5 DEF Timed
  <2> QED
    BY <1>1, <2>2, <2>6, WindowKept
<1> QED
  BY <1>7, <1>8, SwitchCases

-----------------------------------------------------------------------------
(* The logs and notices that have failed.                                  *)
LEMMA BelowIs ==
    ASSUME NEW s
    PROVE  /\ \A i \in Nat \ {0} : Below(s, i) \in Nat
           /\ \A i, j \in Nat \ {0} : i <= j => Below(s, i) <= Below(s, j)
           /\ Below(s, 1) = 0
           /\ \A i \in Nat \ {0} :
                Below(s, i + 1) = IF Fails(s[i]) THEN Below(s, i) + 1 ELSE Below(s, i)
<1> DEFINE S(i) == {j \in 1..(i - 1) : Fails(s[j])}
<1>1. ASSUME NEW i \in Nat \ {0}
      PROVE  IsFiniteSet(S(i)) /\ Cardinality(S(i)) \in Nat
  <2>1. IsFiniteSet(1..(i - 1))
    BY FS_Interval
  <2>2. S(i) \subseteq 1..(i - 1)
    OBVIOUS
  <2> QED
    BY <2>1, <2>2, FS_Subset, FS_CardinalityType
<1>2. ASSUME NEW i \in Nat \ {0}, NEW j \in Nat \ {0}, i <= j
      PROVE  Cardinality(S(i)) <= Cardinality(S(j))
  <2>1. S(i) \subseteq S(j)
    BY <1>2
  <2> QED
    BY <1>1, <2>1, FS_Subset
<1>3. S(1) = {}
  OBVIOUS
<1>4. ASSUME NEW i \in Nat \ {0}
      PROVE  Cardinality(S(i + 1))
               = IF Fails(s[i]) THEN Cardinality(S(i)) + 1 ELSE Cardinality(S(i))
  <2>1. i \notin S(i) /\ (i + 1) - 1 = i
    OBVIOUS
  <2>2. Fails(s[i]) => S(i + 1) = S(i) \cup {i}
    BY <2>1
  <2>3. ~Fails(s[i]) => S(i + 1) = S(i)
    BY <2>1
  <2> QED
    BY <1>1, <2>1, <2>2, <2>3, FS_AddElement
<1>5. \A i \in Nat \ {0} : Below(s, i) = Cardinality(S(i))
  BY DEF Below
<1>6. 1 \in Nat \ {0} /\ \A i \in Nat \ {0} : i + 1 \in Nat \ {0}
  OBVIOUS
<1> HIDE DEF S
<1>7. Below(s, 1) = 0
  BY <1>3, <1>5, <1>6, FS_EmptySet
<1>8. ASSUME NEW i \in Nat \ {0}
      PROVE  Below(s, i + 1) = IF Fails(s[i]) THEN Below(s, i) + 1 ELSE Below(s, i)
  BY <1>4, <1>5, <1>6
<1> QED
  BY <1>1, <1>2, <1>5, <1>7, <1>8

LEMMA DepthIs ==
    ASSUME stack \in Seq(Frames), stack # <<>>, NEW k, NEW f, NEW g, NEW e,
           Grown(k, f, g, e), ~Fails(g), ~Fails(e)
    PROVE  /\ Depth \in Nat /\ Depth' \in Nat /\ Below(stack, Len(stack)) \in Nat
           /\ Depth = Below(stack, Len(stack)) + IF Fails(Top) THEN 1 ELSE 0
           /\ Depth' = Below(stack, Len(stack)) + IF k >= 1 /\ Fails(f) THEN 1 ELSE 0
           /\ \A i \in 1..Len(stack) :
                Below(stack', i) = Below(stack, i) /\ Below(stack, i) <= Depth
                  /\ Below(stack, i) \in Nat
<1>0. PICK n : n = Len(stack)
  OBVIOUS
<1>1. /\ n \in Nat \ {0} /\ k \in 0..3 /\ Len(stack') = n - 1 + k /\ Len(stack') \in Nat
      /\ \A i \in 1..(n - 1) : stack'[i] = stack[i]
      /\ k >= 1 => stack'[n] = f
      /\ k >= 2 => stack'[n + 1] = g
      /\ k >= 3 => stack'[n + 2] = e
  BY <1>0, Positions
<1>2. Top = stack[n]
  BY <1>0 DEF Top, Last
<1>3. /\ \A i \in Nat \ {0} : Below(stack, i) \in Nat
      /\ \A i, j \in Nat \ {0} : i <= j => Below(stack, i) <= Below(stack, j)
      /\ \A i \in Nat \ {0} :
           Below(stack, i + 1)
             = IF Fails(stack[i]) THEN Below(stack, i) + 1 ELSE Below(stack, i)
  BY BelowIs
<1>4. \A i \in Nat \ {0} :
           Below(stack', i + 1)
             = IF Fails(stack'[i]) THEN Below(stack', i) + 1 ELSE Below(stack', i)
  BY BelowIs
<1>5. ASSUME NEW i \in 1..n PROVE Below(stack', i) = Below(stack, i)
  <2>1. \A j \in 1..(i - 1) : stack'[j] = stack[j]
    BY <1>1
  <2>2. {j \in 1..(i - 1) : Fails(stack'[j])} = {j \in 1..(i - 1) : Fails(stack[j])}
    BY <2>1
  <2> QED
    BY <2>2 DEF Below
<1>6. Depth = Below(stack, n + 1) /\ Depth' = Below(stack', n + k)
  <2>1. Len(stack') + 1 = n + k
    BY <1>1
  <2> QED
    BY <1>0, <2>1 DEF Depth
<1>7. n \in 1..n /\ n + 1 \in Nat \ {0} /\ n + 2 \in Nat \ {0} /\ n \in Nat \ {0}
  BY <1>1
<1>8. Below(stack', n) = Below(stack, n) /\ Below(stack, n) \in Nat
  BY <1>3, <1>5, <1>7
<1>9. Depth = Below(stack, n) + IF Fails(Top) THEN 1 ELSE 0
  <2>1. Below(stack, n + 1)
          = IF Fails(stack[n]) THEN Below(stack, n) + 1 ELSE Below(stack, n)
    BY <1>3, <1>7
  <2> QED
    BY <1>2, <1>6, <1>8, <2>1
<1>10. k >= 1 => Below(stack', n + 1) = Below(stack, n) + IF Fails(f) THEN 1 ELSE 0
  <2>1. Below(stack', n + 1)
          = IF Fails(stack'[n]) THEN Below(stack', n) + 1 ELSE Below(stack', n)
    BY <1>4, <1>7
  <2> QED
    BY <1>1, <1>8, <2>1
<1>11. k >= 2 => Below(stack', n + 1 + 1) = Below(stack', n + 1)
  <2>1. Below(stack', n + 1 + 1)
          = IF Fails(stack'[n + 1]) THEN Below(stack', n + 1) + 1 ELSE Below(stack', n + 1)
    BY <1>4, <1>7
  <2> QED
    BY <1>1, <2>1
<1>12. k >= 3 => Below(stack', n + 2 + 1) = Below(stack', n + 2)
  <2>1. Below(stack', n + 2 + 1)
          = IF Fails(stack'[n + 2]) THEN Below(stack', n + 2) + 1 ELSE Below(stack', n + 2)
    BY <1>4, <1>7
  <2> QED
    BY <1>1, <2>1
<1>13. Depth' = Below(stack, n) + IF k >= 1 /\ Fails(f) THEN 1 ELSE 0
  <2>1. CASE k = 0
    <3>1. n + k = n
      BY <1>1, <2>1
    <3> QED
      BY <1>6, <1>8, <2>1, <3>1
  <2>2. CASE k = 1
    BY <1>6, <1>10, <2>2
  <2>3. CASE k = 2
    <3>1. n + 1 + 1 = n + k
      BY <1>1, <2>3
    <3> QED
      BY <1>6, <1>10, <1>11, <2>3, <3>1
  <2>4. CASE k = 3
    <3>1. n + 2 + 1 = n + k /\ n + 1 + 1 = n + 2
      BY <1>1, <2>4
    <3> QED
      BY <1>6, <1>10, <1>11, <1>12, <2>4, <3>1
  <2> QED
    BY <1>1, <2>1, <2>2, <2>3, <2>4
<1>14. ASSUME NEW i \in 1..n PROVE Below(stack, i) <= Depth /\ Below(stack, i) \in Nat
  <2>1. i \in Nat \ {0} /\ i <= n + 1
    BY <1>1
  <2> QED
    BY <1>3, <1>6, <1>7, <2>1
<1> QED
  BY <1>0, <1>5, <1>8, <1>9, <1>13, <1>14

(* What a step has to show of what it leaves at the top.                   *)
SoonMayFail(f, d) ==
    /\ (f.at = "emit" /\ serverLoggingEnabled' = 1) \/ (f.at = "publish" /\ f.kind = "log")
         => d + 1 <= Earlier' + Capped(since' + 1, EXPIRY_SECONDS + 1)
    /\ f.at = "publish" /\ f.kind = "notice" =>
         serverLoggingEnabled' = 0 /\ d + 1 <= Earlier' + Capped(since' + 1, EXPIRY_SECONDS + 2)
    /\ f.at = "send" /\ f.kind = "log" => d + 1 <= Earlier' + Capped(since', EXPIRY_SECONDS + 1)
    /\ f.at = "send" /\ f.kind = "notice" =>
         serverLoggingEnabled' = 0 /\ d + 1 <= Earlier' + since'

Deepens(k, f, g, e) ==
    /\ g.at # "emit" /\ e.at # "emit" /\ ~Fails(g) /\ ~Fails(e)
    /\ f.at = "emit" /\ k # 1 => serverLoggingEnabled' = 0
    /\ \/ enabled' = enabled /\ (serverLoggingEnabled' = 1 => serverLoggingEnabled = 1)
       \/ enabled' = enabled + 1 /\ k = 2
    /\ enabled' = 0 =>
         /\ Depth' = 0
         /\ (k = 1 => ~Reports(f)) /\ (k = 2 => ~Reports(g)) /\ (k = 3 => ~Reports(e))
    /\ enabled' # 0 =>
         /\ Depth' <= Earlier' + Spent'
         /\ k = 1 => SoonMayFail(f, Depth')
         /\ k = 2 => SoonMayFail(g, Depth')
         /\ k = 3 => SoonMayFail(e, Depth')

LEMMA Caps ==
    \A n, m \in Nat : /\ Capped(n, m) \in Nat
                      /\ n <= m => Capped(n, m) = n
                      /\ n >= m => Capped(n, m) = m
BY DEF Capped

LEMMA CapsBelow ==
    \A n, m \in Nat : Capped(n, m) <= n /\ Capped(n, m) \in Nat
BY DEF Capped

LEMMA CapsOne ==
    \A n \in Nat : /\ 1 <= Capped(n + 1, EXPIRY_SECONDS + 1)
                   /\ Capped(n + 1, EXPIRY_SECONDS + 1) \in Nat
<1>1. EXPIRY_SECONDS \in Nat
  BY CallsAssumption DEF CallsAssumption
<1> QED
  BY <1>1 DEF Capped

LEMMA Budget ==
    ASSUME TypeInv, CountInv
    PROVE  /\ EXPIRY_SECONDS \in Nat /\ since \in 0..(EXPIRY_SECONDS + 2)
           /\ enabled \in Nat /\ serverLoggingEnabled \in 0..1
           /\ Earlier \in Int /\ Spent \in 0..(EXPIRY_SECONDS + 2)
           /\ enabled # 0 => Earlier \in Nat
           /\ enabled = 1 => Earlier = 0
           /\ Earlier + EXPIRY_SECONDS + 2 = (EXPIRY_SECONDS + 2) * enabled
           /\ enabled' = enabled + 1 => Earlier' = Earlier + EXPIRY_SECONDS + 2
<1>1. /\ EXPIRY_SECONDS \in Nat /\ since \in 0..(EXPIRY_SECONDS + 2)
      /\ enabled \in Nat /\ serverLoggingEnabled \in 0..1
  BY CallsAssumption DEF CallsAssumption, TypeInv, CountInv
<1>2. \E x \in Nat : /\ x = EXPIRY_SECONDS + 2
                    /\ Earlier = x * (enabled - 1) /\ Earlier' = x * (enabled' - 1)
  <2>1. EXPIRY_SECONDS + 2 \in Nat
    BY <1>1
  <2> QED
    BY <2>1, Zenon DEF Earlier
<1>0. PICK x \in Nat : /\ x = EXPIRY_SECONDS + 2
                    /\ Earlier = x * (enabled - 1) /\ Earlier' = x * (enabled' - 1)
  BY <1>2
<1>3. /\ \A a, b \in Nat : a * b \in Nat
      /\ \A a, b, c \in Nat : c = b + 1 => a * (c - 1) = a * (b - 1) + a
      /\ \A a \in Nat : a * (1 - 1) = 0 /\ a * (0 - 1) = -a
      /\ \A a, b \in Nat : a * (b - 1) + a = a * b
  <2>1. \A a, b \in Nat : a * b \in Nat
    BY SMT
  <2>2. \A a, b \in Nat : a * (b - 1) + a = a * b
    BY SMT
  <2>3. \A a, b, c \in Nat : c = b + 1 => a * (c - 1) = a * (b - 1) + a
    BY SMT
  <2> QED
    BY <2>1, <2>2, <2>3, SMT
<1>4. Earlier = x * (enabled - 1) /\ Earlier' = x * (enabled' - 1)
  BY <1>0, Zenon
<1>5. Earlier + x = x * enabled /\ x * enabled \in Nat
  BY <1>1, <1>0, <1>3, <1>4
<1>6. Earlier \in Int
  <2>1. CASE enabled = 0
    BY <1>0, <1>3, <1>4, <2>1
  <2>2. CASE enabled # 0
    <3>1. enabled - 1 \in Nat
      BY <1>1, <2>2
    <3> QED
      BY <1>0, <1>3, <1>4, <3>1
  <2> QED
    BY <2>1, <2>2
<1>7. enabled # 0 => Earlier \in Nat
  <2>1. enabled # 0 => enabled - 1 \in Nat
    BY <1>1
  <2> QED
    BY <1>0, <1>3, <1>4, <2>1
<1>8. enabled = 1 => Earlier = 0
  BY <1>0, <1>3, <1>4
<1>9. ASSUME enabled' = enabled + 1 PROVE Earlier' = Earlier + x
  <2>1. PICK y \in Nat : y = enabled' /\ y = enabled + 1 /\ Earlier' = x * (y - 1)
    BY <1>1, <1>4, <1>9
  <2>2. x * (y - 1) = x * (enabled - 1) + x
    BY <1>1, <1>3, <2>1
  <2> QED
    BY <1>4, <2>1, <2>2
<1>10. Spent \in 0..(EXPIRY_SECONDS + 2)
  BY <1>1 DEF Spent, Capped
<1> QED
  BY <1>1, <1>0, <1>5, <1>6, <1>7, <1>8, <1>9, <1>10

LEMMA DepthKept ==
    ASSUME StackOK, TypeInv, CountInv, TypeInv', DepthInv, stack # <<>>,
           NEW k, NEW f, NEW g, NEW e, Grown(k, f, g, e), Deepens(k, f, g, e)
    PROVE  DepthInv'
<1>0. PICK n : n = Len(stack)
  OBVIOUS
<1>1. /\ n \in Nat \ {0} /\ DOMAIN stack = 1..n /\ k \in 0..3
      /\ DOMAIN stack' = 1..Len(stack') /\ Len(stack') = n - 1 + k /\ Len(stack') \in Nat
      /\ \A i \in DOMAIN stack' :
            \/ i \in 1..(n - 1) /\ stack'[i] = stack[i]
            \/ k >= 1 /\ i = n /\ stack'[i] = f
            \/ k >= 2 /\ i = n + 1 /\ stack'[i] = g
            \/ k = 3 /\ i = n + 2 /\ stack'[i] = e
      /\ \A i \in 1..(n - 1) : stack'[i] = stack[i]
      /\ k >= 1 => stack'[n] = f
      /\ k >= 2 => stack'[n + 1] = g
      /\ k >= 3 => stack'[n + 2] = e
  <2>1. stack \in Seq(Frames)
    BY DEF StackOK
  <2> QED
    BY <1>0, <2>1, Positions
<1>2. /\ g.at # "emit" /\ e.at # "emit" /\ ~Fails(g) /\ ~Fails(e)
      /\ f.at = "emit" /\ k # 1 => serverLoggingEnabled' = 0
      /\ \/ enabled' = enabled /\ (serverLoggingEnabled' = 1 => serverLoggingEnabled = 1)
         \/ enabled' = enabled + 1 /\ k = 2
  BY DEF Deepens
<1>3. /\ Depth \in Nat /\ Depth' \in Nat /\ Below(stack, n) \in Nat
      /\ Depth' = Below(stack, n) + IF k >= 1 /\ Fails(f) THEN 1 ELSE 0
      /\ \A i \in 1..n : /\ Below(stack', i) = Below(stack, i) /\ Below(stack, i) <= Depth
                         /\ Below(stack, i) \in Nat
  <2>1. stack \in Seq(Frames)
    BY DEF StackOK
  <2> QED
    BY <1>0, <1>2, <2>1, DepthIs
<1>4. Top' = stack'[Len(stack')]
  BY DEF Top, Last
<1>5. /\ k = 1 => stack' # <<>> /\ Top' = f
      /\ k = 2 => stack' # <<>> /\ Top' = g
      /\ k = 3 => stack' # <<>> /\ Top' = e
  BY <1>1, <1>4
<1>6. /\ EXPIRY_SECONDS \in Nat /\ since \in 0..(EXPIRY_SECONDS + 2)
      /\ enabled \in Nat /\ Earlier \in Int /\ Spent \in 0..(EXPIRY_SECONDS + 2)
      /\ enabled # 0 => Earlier \in Nat
      /\ enabled = 0 => Earlier + EXPIRY_SECONDS + 2 = 0
      /\ enabled' = enabled + 1 => Earlier' = Earlier + EXPIRY_SECONDS + 2
      /\ enabled' = enabled => Earlier' = Earlier
      /\ since' \in 0..(EXPIRY_SECONDS + 2)
  <2>1. enabled' = enabled => Earlier' = Earlier
    BY DEF Earlier
  <2>2. enabled = 0 => (EXPIRY_SECONDS + 2) * enabled = 0
    BY Budget
  <2>3. since' \in 0..(EXPIRY_SECONDS + 2)
    BY DEF TypeInv
  <2> QED
    BY <2>1, <2>2, <2>3, Budget
<1>7. ASSUME serverLoggingEnabled' = 1, enabled' # 0,
             NEW i \in 1..n, i # n \/ k # 1,
             i \in DOMAIN stack', stack'[i].at = "emit"
      PROVE  i # n /\ Below(stack', i) <= Earlier'
  <2>1. i # n
    <3>1. i = n => k >= 1 /\ stack'[n] = f
      BY <1>1, <1>7
    <3> QED
      BY <1>2, <1>7, <3>1
  <2>2. stack[i].at = "emit" /\ i \in DOMAIN stack /\ i # Len(stack)
    BY <1>0, <1>1, <1>7, <2>1
  <2>3. CASE enabled' = enabled /\ serverLoggingEnabled = 1
    BY <1>3, <1>6, <1>7, <2>1, <2>2, <2>3 DEF DepthInv
  <2>4. CASE enabled' = enabled + 1
    <3>1. enabled # 0 => Below(stack, i) <= Earlier + EXPIRY_SECONDS + 2
      BY <1>3, <1>6 DEF DepthInv
    <3>2. enabled = 0 => Below(stack, i) = 0
      BY <1>3 DEF DepthInv
    <3> QED
      BY <1>3, <1>6, <2>1, <2>4, <3>1, <3>2
  <2> QED
    BY <1>2, <1>7, <2>3, <2>4
<1>8. CASE k = 0
  <2>1. enabled' = enabled /\ (serverLoggingEnabled' = 1 => serverLoggingEnabled = 1)
    BY <1>2, <1>8
  <2>2. ASSUME stack' # <<>>
        PROVE  /\ Len(stack') = n - 1 /\ n - 1 \in 1..n /\ n - 1 \in DOMAIN stack'
               /\ Top' = stack[n - 1] /\ ~AtTop(stack[n - 1]) /\ Top' = stack'[n - 1]
    <3>1. Len(stack') = n - 1 /\ n - 1 # 0
      BY <1>1, <1>8, <2>2
    <3>2. n - 1 \in 1..(n - 1) /\ n - 1 \in DOMAIN stack /\ n - 1 # Len(stack)
      BY <1>0, <1>1, <3>1
    <3>3. ~AtTop(stack[n - 1])
      BY <3>2 DEF StackOK
    <3> QED
      BY <1>1, <1>4, <3>1, <3>2, <3>3
  <2>3. ASSUME enabled' = 0 PROVE Depth' = 0 /\ (stack' # <<>> => ~Reports(Top'))
    <3>1. Depth' = 0
      BY <2>3 DEF Deepens
    <3>2. stack' # <<>> => ~Reports(Top')
      BY <2>2 DEF Reports, AtTop
    <3> QED
      BY <3>1, <3>2
  <2>4. ASSUME enabled' # 0, stack' # <<>>, Top'.at = "emit", serverLoggingEnabled' = 1
        PROVE  Depth' + 1 <= Earlier' + Capped(since' + 1, EXPIRY_SECONDS + 1)
    <3>1. Below(stack', n - 1) <= Earlier'
      BY <1>1, <1>7, <1>8, <2>2, <2>4
    <3>2. Depth' = Below(stack', n - 1)
      <4>1. ~Fails(stack'[n - 1])
        BY <2>2, <2>4 DEF Fails
      <4>2. n - 1 \in Nat \ {0} /\ n - 1 + 1 = n
        BY <1>1, <2>2, <2>4
      <4>3. Below(stack', n) = Below(stack', n - 1)
        BY <4>1, <4>2, BelowIs
      <4> QED
        BY <1>1, <1>3, <1>8, <4>3
    <3>3. 1 <= Capped(since' + 1, EXPIRY_SECONDS + 1)
          /\ Capped(since' + 1, EXPIRY_SECONDS + 1) \in Nat
      <4>1. since' \in Nat
        BY <1>6
      <4> QED
        BY <4>1, CapsOne
    <3>4. Earlier' \in Int /\ Depth' \in Nat
      BY <1>3, <1>6, <2>1
    <3> QED
      BY <3>1, <3>2, <3>3, <3>4
  <2>5. ASSUME enabled' # 0, stack' # <<>> PROVE MayFail(Top, Depth)'
    <3>1. ~(Top'.at = "publish") /\ ~(Top'.at = "send" /\ Top'.kind \in {"log", "notice"})
      BY <2>2, <2>5 DEF AtTop
    <3> QED
      BY <2>4, <2>5, <3>1 DEF MayFail
  <2>6. ASSUME enabled' # 0, serverLoggingEnabled' = 1, NEW i \in DOMAIN stack',
               stack'[i].at = "emit"
        PROVE  Below(stack', i) <= Earlier'
    <3>1. i \in 1..n
      BY <1>1, <1>8
    <3> QED
      BY <1>7, <1>8, <2>6, <3>1
  <2>7. enabled' # 0 => Depth' <= Earlier' + Spent'
    BY DEF Deepens
  <2> QED
    BY <2>3, <2>5, <2>6, <2>7 DEF DepthInv
<1>9. CASE k \in 1..3
  <2>1. PICK t : t = Top' /\ stack' # <<>>
                 /\ ((k = 1 /\ t = f) \/ (k = 2 /\ t = g) \/ (k = 3 /\ t = e))
    BY <1>1, <1>5, <1>9
  <2>2. enabled' = 0 => Depth' = 0 /\ ~Reports(t)
    BY <2>1 DEF Deepens
  <2>3. enabled' # 0 => Depth' <= Earlier' + Spent' /\ SoonMayFail(t, Depth')
    BY <2>1 DEF Deepens
  <2>4. enabled' # 0 => MayFail(Top, Depth)'
    BY <2>1, <2>3 DEF MayFail, SoonMayFail
  <2>5. ASSUME enabled' # 0, serverLoggingEnabled' = 1, NEW i \in DOMAIN stack',
               i # Len(stack'), stack'[i].at = "emit"
        PROVE  Below(stack', i) <= Earlier'
    <3>1. i \in 1..n
      BY <1>1, <1>2, <2>5
    <3>2. i # n \/ k # 1
      BY <1>1, <2>5
    <3> QED
      BY <1>7, <2>5, <3>1, <3>2
  <2> QED
    BY <2>1, <2>2, <2>3, <2>4, <2>5 DEF DepthInv
<1> QED
  BY <1>1, <1>8, <1>9

LEMMA QuietDeepens ==
    ASSUME StackOK, TypeInv, CountInv, DepthInv, stack # <<>>,
           NEW k, NEW f, NEW g, NEW e, Grown(k, f, g, e), Quiet(f, g, e)
    PROVE  Deepens(k, f, g, e)
<1>1. /\ UNCHANGED <<serverLoggingEnabled, age, since, enabled>>
      /\ f.at # "emit" /\ g.at # "emit" /\ e.at # "emit" /\ ~Fails(g) /\ ~Fails(e)
      /\ Fails(f) => Fails(Top) \/ (Top.at = "send" /\ Top.kind = f.kind)
      /\ ~Reports(f) /\ ~Reports(g) /\ ~Reports(e)
  BY DEF Quiet, Reports
<1>2. SoonMayFail(f, Depth') /\ SoonMayFail(g, Depth') /\ SoonMayFail(e, Depth')
  BY <1>1 DEF SoonMayFail, Reports
<1>3. Earlier' = Earlier /\ Spent' = Spent
  BY <1>1 DEF Earlier, Spent, Capped
<1>4. /\ Depth \in Nat /\ Depth' \in Nat
      /\ \/ Depth' <= Depth
         \/ Depth' = Depth + 1 /\ Fails(f) /\ ~Fails(Top)
  <2>1. stack \in Seq(Frames)
    BY DEF StackOK
  <2>2. /\ Depth \in Nat /\ Depth' \in Nat /\ Below(stack, Len(stack)) \in Nat
        /\ Depth = Below(stack, Len(stack)) + IF Fails(Top) THEN 1 ELSE 0
        /\ Depth' = Below(stack, Len(stack)) + IF k >= 1 /\ Fails(f) THEN 1 ELSE 0
    BY <1>1, <2>1, DepthIs
  <2> QED
    BY <2>2
<1>5. Fails(f) /\ ~Fails(Top) => Reports(Top) /\ Top.at = "send"
  BY <1>1 DEF Fails, Reports
<1>6. /\ Earlier \in Int /\ Spent \in Nat /\ since \in Nat /\ EXPIRY_SECONDS \in Nat
      /\ serverLoggingEnabled \in 0..1 /\ Capped(since, EXPIRY_SECONDS + 1) \in Nat
      /\ Capped(since, EXPIRY_SECONDS + 1) <= since
  <2>1. /\ Earlier \in Int /\ Spent \in 0..(EXPIRY_SECONDS + 2)
        /\ since \in 0..(EXPIRY_SECONDS + 2) /\ EXPIRY_SECONDS \in Nat
        /\ serverLoggingEnabled \in 0..1
    BY Budget
  <2>2. Spent \in Nat /\ since \in Nat /\ EXPIRY_SECONDS + 1 \in Nat
    BY <2>1
  <2> QED
    BY <2>1, <2>2, CapsBelow
<1>7. ASSUME enabled = 0 PROVE Depth' = 0
  <2>1. Depth = 0 /\ ~Reports(Top)
    BY <1>7 DEF DepthInv
  <2> QED
    BY <1>4, <1>5, <2>1
<1>8. ASSUME enabled # 0 PROVE Depth' <= Earlier + Spent
  <2>1. Depth <= Earlier + Spent /\ MayFail(Top, Depth)
    BY <1>8 DEF DepthInv
  <2>2. ASSUME Reports(Top), Top.at = "send" PROVE Depth + 1 <= Earlier + Spent
    <3>1. CASE Top.kind = "log"
      <4>1. Depth + 1 <= Earlier + Capped(since, EXPIRY_SECONDS + 1)
        BY <2>1, <2>2, <3>1 DEF MayFail
      <4>2. Capped(since, EXPIRY_SECONDS + 1) <= Spent
        BY <1>6 DEF Spent
      <4> QED
        BY <1>4, <1>6, <4>1, <4>2
    <3>2. CASE Top.kind = "notice"
      <4>1. serverLoggingEnabled = 0 /\ Depth + 1 <= Earlier + since
        BY <2>1, <2>2, <3>2 DEF MayFail
      <4>2. Spent = since
        BY <4>1 DEF Spent
      <4> QED
        BY <1>6, <4>1, <4>2
    <3> QED
      BY <2>2, <3>1, <3>2 DEF Reports
  <2>3. Depth' <= Depth \/ (Depth' = Depth + 1 /\ Depth + 1 <= Earlier + Spent)
    BY <1>4, <1>5, <2>2
  <2>4. Earlier + Spent \in Int
    BY <1>6
  <2> QED
    BY <1>4, <2>1, <2>3, <2>4
<1> QED
  BY <1>1, <1>2, <1>3, <1>7, <1>8 DEF Deepens

LEMMA MetadataDeepens ==
    ASSUME StackOK, TypeInv, CountInv, WindowInv, DepthInv, TypeInv', Metadata
    PROVE  DepthInv'
<1>1. stack # <<>> /\ Top.at = "log" /\ UNCHANGED <<since, enabled>>
  BY DEF Metadata, At
<1>2. Top \in Frames /\ stack \in Seq(Frames)
  BY <1>1, TopFrame
<1> DEFINE f == Then("emit")
<1> DEFINE g == Publish("notice")
<1>3. /\ f \in Frames /\ f.at = "emit" /\ g \in Frames /\ g.at = "publish" /\ g.kind = "notice"
      /\ Log.at = "log"
  <2>1. "emit" \in Steps /\ "notice" \in Kinds
    BY Zenon DEF Steps, Kinds
  <2> QED
    BY <1>2, <2>1, ThenIs, FrameIs
<1>4. /\ EXPIRY_SECONDS \in Nat /\ since \in 0..(EXPIRY_SECONDS + 2) /\ Earlier \in Int
      /\ age \in -1..(EXPIRY_SECONDS + 1)
  BY Budget DEF TypeInv
<1>5. /\ ~Fails(Top) /\ ~Fails(f) /\ ~Fails(g) /\ ~Fails(Log)
      /\ ~Reports(f) /\ Earlier' = Earlier
  BY <1>1, <1>3 DEF Fails, Reports, Earlier
<1>6. serverLoggingEnabled = 1 =>
         \/ age = Capped(since, EXPIRY_SECONDS + 1)
         \/ age = FRESH_SERVER_LOGS_TIME /\ since = 0
  BY DEF WindowInv, Counted
<1>7. CASE serverLoggingEnabled = 1 /\ age > EXPIRY_SECONDS
  <2>1. serverLoggingEnabled' = 0 /\ Becomes(<<f, g>>)
    BY <1>7 DEF Metadata
  <2> HIDE DEF f, g
  <2>2. Grown(2, f, g, Log)
    BY <1>1, <1>2, <1>3, <2>1, Grow
  <2>3. enabled # 0
    BY <1>7 DEF WindowInv
  <2>4. Depth' = Depth /\ Depth \in Nat
    BY <1>1, <1>2, <1>5, <2>2, DepthIs
  <2>5. since > EXPIRY_SECONDS
    BY <1>4, <1>6, <1>7 DEF Capped, FRESH_SERVER_LOGS_TIME
  <2>6. Capped(since, EXPIRY_SECONDS + 1) = EXPIRY_SECONDS + 1
        /\ Capped(since + 1, EXPIRY_SECONDS + 2) = EXPIRY_SECONDS + 2
    BY <1>4, <2>5 DEF Capped
  <2>7. Depth <= Earlier + EXPIRY_SECONDS + 1
    <3>1. Depth <= Earlier + Spent
      BY <2>3 DEF DepthInv
    <3> QED
      BY <1>4, <1>7, <2>6, <3>1 DEF Spent
  <2>8. SoonMayFail(g, Depth')
    <3>1. Depth' + 1 <= Earlier' + Capped(since' + 1, EXPIRY_SECONDS + 2)
      <4>1. Capped(since' + 1, EXPIRY_SECONDS + 2) = EXPIRY_SECONDS + 2
        BY <1>1, <2>6
      <4> QED
        BY <1>4, <1>5, <2>4, <2>7, <4>1
    <3> QED
      BY <1>3, <2>1, <3>1 DEF SoonMayFail
  <2>9. Depth' <= Earlier' + Spent'
    <3>1. Spent' = since
      BY <1>1, <2>1 DEF Spent
    <3> QED
      BY <1>4, <1>5, <2>4, <2>5, <2>7, <3>1
  <2>10. Deepens(2, f, g, Log)
    BY <1>1, <1>3, <1>5, <2>1, <2>3, <2>8, <2>9 DEF Deepens
  <2> QED
    BY <1>1, <2>2, <2>10, DepthKept
<1>8. CASE ~(serverLoggingEnabled = 1 /\ age > EXPIRY_SECONDS)
  <2>1. serverLoggingEnabled' = serverLoggingEnabled /\ Becomes(<<f>>)
    BY <1>8 DEF Metadata
  <2> HIDE DEF f, g
  <2>2. Grown(1, f, Log, Log)
    BY <1>1, <1>2, <1>3, <2>1, Grow
  <2>3. Depth' = Depth /\ Depth \in Nat
    BY <1>1, <1>2, <1>5, <2>2, DepthIs
  <2>4. Spent' = Spent
    BY <1>1, <2>1 DEF Spent, Capped
  <2>5. ASSUME enabled # 0, serverLoggingEnabled = 1
        PROVE  Depth + 1 <= Earlier + Capped(since + 1, EXPIRY_SECONDS + 1)
    <3>1. since <= EXPIRY_SECONDS
      BY <1>4, <1>6, <1>8, <2>5 DEF Capped, FRESH_SERVER_LOGS_TIME
    <3>2. Capped(since + 1, EXPIRY_SECONDS + 1) = since + 1 /\ Spent = since
      BY <1>4, <2>5, <3>1 DEF Capped, Spent
    <3>3. Depth <= Earlier + Spent
      BY <2>5 DEF DepthInv
    <3> QED
      BY <1>4, <2>3, <3>2, <3>3
  <2>6. ASSUME enabled' # 0 PROVE SoonMayFail(f, Depth')
    <3>1. ASSUME serverLoggingEnabled' = 1
          PROVE  Depth' + 1 <= Earlier' + Capped(since' + 1, EXPIRY_SECONDS + 1)
      <4>1. Depth + 1 <= Earlier + Capped(since + 1, EXPIRY_SECONDS + 1)
        BY <1>1, <2>1, <2>5, <2>6, <3>1
      <4> QED
        BY <1>1, <1>5, <2>3, <4>1, Zenon
    <3> QED
      BY <1>3, <3>1 DEF SoonMayFail
  <2>7. enabled' # 0 => Depth' <= Earlier' + Spent'
    BY <1>1, <1>5, <2>3, <2>4 DEF DepthInv
  <2>8. enabled' = 0 => Depth' = 0
    BY <1>1, <2>3 DEF DepthInv
  <2>9. Deepens(1, f, Log, Log)
    BY <1>1, <1>3, <1>5, <2>1, <2>6, <2>7, <2>8 DEF Deepens
  <2> QED
    BY <1>1, <2>2, <2>9, DepthKept
<1> QED
  BY <1>7, <1>8

LEMMA EmitDeepens ==
    ASSUME StackOK, TypeInv, CountInv, DepthInv, TypeInv', WindowInv, Emit
    PROVE  DepthInv'
<1>1. stack # <<>> /\ Top.at = "emit" /\ UNCHANGED <<serverLoggingEnabled, age, since, enabled>>
  BY DEF Emit, At, loggingVars
<1>2. Top \in Frames /\ stack \in Seq(Frames)
  BY <1>1, TopFrame
<1> DEFINE f == Publish("log")
<1>3. f \in Frames /\ f.at = "publish" /\ f.kind = "log" /\ Log.at = "log"
  BY FrameIs DEF Kinds
<1>4. Earlier' = Earlier /\ Spent' = Spent /\ ~Fails(Top) /\ ~Fails(f) /\ ~Fails(Log)
  BY <1>1, <1>3 DEF Earlier, Spent, Capped, Fails
<1>5. enabled # 0 => Depth <= Earlier + Spent /\ MayFail(Top, Depth)
  BY <1>1 DEF DepthInv
<1>6. enabled = 0 => Depth = 0
  BY DEF DepthInv
<1>7. CASE serverLoggingEnabled = 1
  <2>1. Becomes(<<f>>)
    BY <1>7 DEF Emit
  <2> HIDE DEF f
  <2>2. Grown(1, f, Log, Log)
    BY <1>1, <1>2, <1>3, <2>1, Grow
  <2>3. Depth' = Depth /\ Depth \in Nat
    BY <1>1, <1>2, <1>4, <2>2, DepthIs
  <2>4. enabled # 0
    BY <1>7 DEF WindowInv
  <2>5. Depth + 1 <= Earlier + Capped(since + 1, EXPIRY_SECONDS + 1)
    BY <1>1, <1>5, <1>7, <2>4 DEF MayFail
  <2>6. Depth' + 1 <= Earlier' + Capped(since' + 1, EXPIRY_SECONDS + 1)
    BY <1>1, <1>4, <2>3, <2>5, Zenon
  <2>7. SoonMayFail(f, Depth')
    BY <1>3, <2>6 DEF SoonMayFail
  <2>8. Depth' <= Earlier' + Spent'
    BY <1>4, <1>5, <2>3, <2>4
  <2>9. Deepens(1, f, Log, Log)
    BY <1>1, <1>3, <1>4, <2>4, <2>7, <2>8 DEF Deepens
  <2> QED
    BY <1>1, <2>2, <2>9, DepthKept
<1>8. CASE serverLoggingEnabled # 1
  <2>1. Becomes(<<>>)
    BY <1>8 DEF Emit
  <2>2. Grown(0, Log, Log, Log)
    BY <1>1, <1>2, <2>1, Grow
  <2>3. Depth' = Depth /\ Depth \in Nat
    BY <1>1, <1>2, <1>4, <2>2, DepthIs
  <2>4. enabled' # 0 => Depth' <= Earlier' + Spent'
    BY <1>1, <1>4, <1>5, <2>3
  <2>5. Deepens(0, Log, Log, Log)
    BY <1>1, <1>3, <1>4, <1>6, <2>3, <2>4 DEF Deepens
  <2> QED
    BY <1>1, <2>2, <2>5, DepthKept
<1> QED
  BY <1>7, <1>8

(* A second gives the call that takes it what it may cost.                 *)
LEMMA SecondSpent ==
    ASSUME TypeInv, CountInv, ASecond
    PROVE  /\ serverLoggingEnabled' = serverLoggingEnabled /\ enabled' = enabled
           /\ Earlier' = Earlier /\ Spent <= Spent' /\ Spent \in Nat /\ Spent' \in Nat
           /\ Capped(since', EXPIRY_SECONDS + 1) = Capped(since + 1, EXPIRY_SECONDS + 1)
           /\ since' = Capped(since + 1, EXPIRY_SECONDS + 2)
           /\ Spent' = IF serverLoggingEnabled = 1
                       THEN Capped(since + 1, EXPIRY_SECONDS + 1)
                       ELSE Capped(since + 1, EXPIRY_SECONDS + 2)
<1>1. /\ EXPIRY_SECONDS \in Nat /\ since \in 0..(EXPIRY_SECONDS + 2)
      /\ serverLoggingEnabled' = serverLoggingEnabled /\ enabled' = enabled
      /\ since' = Capped(since + 1, EXPIRY_SECONDS + 2)
  BY Budget DEF ASecond
<1>2. Earlier' = Earlier
  BY <1>1 DEF Earlier
<1>3. \A n, m \in Nat : n <= m + 2 =>
         /\ Capped(Capped(n + 1, m + 2), m + 1) = Capped(n + 1, m + 1)
         /\ Capped(n, m + 1) <= Capped(n + 1, m + 1)
         /\ n <= Capped(n + 1, m + 2)
         /\ Capped(n, m + 1) \in Nat /\ Capped(n + 1, m + 1) \in Nat
         /\ Capped(n + 1, m + 2) \in Nat
  BY DEF Capped
<1>4. since \in Nat /\ since <= EXPIRY_SECONDS + 2
  BY <1>1
<1>5. Spent = IF serverLoggingEnabled = 1 THEN Capped(since, EXPIRY_SECONDS + 1) ELSE since
  BY DEF Spent
<1>6. Spent' = IF serverLoggingEnabled' = 1 THEN Capped(since', EXPIRY_SECONDS + 1) ELSE since'
  BY DEF Spent, Capped
<1>7. /\ Capped(Capped(since + 1, EXPIRY_SECONDS + 2), EXPIRY_SECONDS + 1)
           = Capped(since + 1, EXPIRY_SECONDS + 1)
      /\ Capped(since, EXPIRY_SECONDS + 1) <= Capped(since + 1, EXPIRY_SECONDS + 1)
      /\ since <= Capped(since + 1, EXPIRY_SECONDS + 2)
      /\ Capped(since, EXPIRY_SECONDS + 1) \in Nat /\ Capped(since + 1, EXPIRY_SECONDS + 1) \in Nat
      /\ Capped(since + 1, EXPIRY_SECONDS + 2) \in Nat
  BY <1>1, <1>3, <1>4
<1>8. Spent' = IF serverLoggingEnabled = 1
               THEN Capped(since + 1, EXPIRY_SECONDS + 1)
               ELSE Capped(since + 1, EXPIRY_SECONDS + 2)
  BY <1>1, <1>6, <1>7
<1>9. Capped(since', EXPIRY_SECONDS + 1) = Capped(since + 1, EXPIRY_SECONDS + 1)
  BY <1>1, <1>7
<1>10. Spent <= Spent' /\ Spent \in Nat /\ Spent' \in Nat
  BY <1>4, <1>5, <1>7, <1>8
<1> QED
  BY <1>1, <1>2, <1>8, <1>9, <1>10

LEMMA Raised == \A d, a, s, t \in Int : d <= a + s /\ s <= t => d <= a + t
  BY SMT

LEMMA PublishStartDeepens ==
    ASSUME StackOK, TypeInv, CountInv, WindowInv, DepthInv, TypeInv', PublishStart
    PROVE  DepthInv'
<1>1. stack # <<>> /\ Top.at = "publish" /\ ASecond
  BY DEF PublishStart, At
<1>2. Top \in Frames /\ stack \in Seq(Frames) /\ FrameOK(Top)
  BY <1>1, TopFrame
<1>3. Top.kind \in {"log", "notice", "app", "sure"}
  BY <1>1, <1>2 DEF FrameOK, Publishing
<1>4. /\ serverLoggingEnabled' = serverLoggingEnabled /\ enabled' = enabled
      /\ Earlier' = Earlier /\ Spent <= Spent' /\ Spent \in Nat /\ Spent' \in Nat
      /\ Capped(since', EXPIRY_SECONDS + 1) = Capped(since + 1, EXPIRY_SECONDS + 1)
      /\ since' = Capped(since + 1, EXPIRY_SECONDS + 2)
  BY <1>1, SecondSpent
<1>5. /\ Then("send") \in Frames /\ Then("send").at = "send" /\ Then("send").kind = Top.kind
      /\ Then("topic") \in Frames /\ Then("topic").at = "topic"
      /\ Log \in Frames /\ Log.at = "log"
  <2>1. "send" \in Steps /\ "topic" \in Steps
    BY Zenon DEF Steps
  <2> QED
    BY <1>2, <2>1, ThenIs, FrameIs
<1>6. /\ ~Fails(Top) /\ ~Fails(Log) /\ ~Fails(Then("send")) /\ ~Fails(Then("topic"))
      /\ ~Reports(Log) /\ ~Reports(Then("topic"))
  BY <1>1, <1>5 DEF Fails, Reports
<1>7. Earlier \in Int /\ enabled \in Nat
  BY Budget
<1>8. ASSUME Depth' = Depth, Depth \in Nat
      PROVE  /\ enabled' = 0 => Depth' = 0 /\ ~Reports(Top)
             /\ enabled' # 0 => Depth' <= Earlier' + Spent' /\ MayFail(Top, Depth)
  <2>1. /\ enabled = 0 => Depth = 0 /\ ~Reports(Top)
        /\ enabled # 0 => Depth <= Earlier + Spent /\ MayFail(Top, Depth)
    BY <1>1 DEF DepthInv
  <2>2. enabled # 0 => Depth <= Earlier + Spent'
    <3>1. Depth \in Int /\ Earlier \in Int /\ Spent \in Int /\ Spent' \in Int
      BY <1>4, <1>7, <1>8
    <3> QED
      BY <1>4, <2>1, <3>1, Raised, Zenon
  <2> QED
    BY <1>4, <1>8, <2>1, <2>2
<1>9. CASE Top.kind \in {"log", "notice"}
  <2>1. Becomes(<<Then("send")>>)
    BY <1>9 DEF PublishStart
  <2>2. Grown(1, Then("send"), Log, Log)
    BY <1>1, <1>2, <1>5, <2>1, Grow
  <2>3. Depth' = Depth /\ Depth \in Nat
    BY <1>1, <1>2, <1>6, <2>2, DepthIs
  <2>4. enabled' # 0
    BY <1>1, <1>8, <1>9, <2>3 DEF Reports
  <2>5. MayFail(Top, Depth)
    BY <1>8, <2>3, <2>4
  <2>6. CASE Top.kind = "log"
    <3>1. Depth + 1 <= Earlier + Capped(since + 1, EXPIRY_SECONDS + 1)
      BY <1>1, <2>5, <2>6 DEF MayFail
    <3>2. Depth' + 1 <= Earlier' + Capped(since', EXPIRY_SECONDS + 1)
      BY <1>4, <2>3, <3>1
    <3> QED
      BY <1>5, <1>6, <1>8, <1>4, <2>2, <2>3, <2>4, <2>6, <3>2, <1>1, DepthKept
         DEF Deepens, SoonMayFail
  <2>7. CASE Top.kind = "notice"
    <3>1. serverLoggingEnabled = 0 /\ Depth + 1 <= Earlier + Capped(since + 1, EXPIRY_SECONDS + 2)
      BY <1>1, <2>5, <2>7 DEF MayFail
    <3>2. serverLoggingEnabled' = 0 /\ Depth' + 1 <= Earlier' + since'
      BY <1>4, <2>3, <3>1
    <3> QED
      BY <1>5, <1>6, <1>8, <1>4, <2>2, <2>3, <2>4, <2>7, <3>2, <1>1, DepthKept
         DEF Deepens, SoonMayFail
  <2> QED
    BY <1>9, <2>6, <2>7
<1>10. CASE Top.kind = "app"
  <2>1. Becomes(<<Then("send"), Log>>)
    BY <1>10 DEF PublishStart
  <2>2. Grown(2, Then("send"), Log, Log)
    BY <1>1, <1>2, <1>5, <2>1, Grow
  <2>3. Depth' = Depth /\ Depth \in Nat
    BY <1>1, <1>2, <1>6, <2>2, DepthIs
  <2>4. SoonMayFail(Log, Depth')
    BY <1>5 DEF SoonMayFail
  <2>5. Deepens(2, Then("send"), Log, Log)
    BY <1>4, <1>5, <1>6, <1>8, <2>3, <2>4 DEF Deepens
  <2> QED
    BY <1>1, <2>2, <2>5, DepthKept
<1>11. CASE Top.kind = "sure"
  <2>1. Becomes(<<Then("topic")>>)
    BY <1>11 DEF PublishStart
  <2>2. Grown(1, Then("topic"), Log, Log)
    BY <1>1, <1>2, <1>5, <2>1, Grow
  <2>3. Depth' = Depth /\ Depth \in Nat
    BY <1>1, <1>2, <1>6, <2>2, DepthIs
  <2>4. SoonMayFail(Then("topic"), Depth')
    BY <1>5 DEF SoonMayFail
  <2>5. Deepens(1, Then("topic"), Log, Log)
    BY <1>4, <1>5, <1>6, <1>8, <2>3, <2>4 DEF Deepens
  <2> QED
    BY <1>1, <2>2, <2>5, DepthKept
<1> QED
  BY <1>3, <1>9, <1>10, <1>11

LEMMA ReadNothingDeepens ==
    ASSUME StackOK, TypeInv, CountInv, DepthInv, TypeInv', ReadNothing
    PROVE  DepthInv'
<1>1. stack # <<>> /\ Top.at = "read" /\ ASecond /\ Becomes(<<>>)
  BY DEF ReadNothing, At
<1>2. stack \in Seq(Frames) /\ Log.at = "log" /\ ~Fails(Log) /\ ~Fails(Top)
  BY <1>1, FrameIs DEF StackOK, Fails
<1>3. Grown(0, Log, Log, Log)
  BY <1>1, <1>2, Grow
<1>4. /\ serverLoggingEnabled' = serverLoggingEnabled /\ enabled' = enabled
      /\ Earlier' = Earlier /\ Spent <= Spent' /\ Spent \in Nat /\ Spent' \in Nat
      /\ Earlier \in Int
  BY <1>1, SecondSpent, Budget
<1>5. Depth' = Depth /\ Depth \in Nat
  BY <1>1, <1>2, <1>3, DepthIs
<1>6. enabled = 0 => Depth' = 0
  BY <1>5 DEF DepthInv
<1>7. enabled # 0 => Depth' <= Earlier' + Spent'
  <2>1. enabled # 0 => Depth <= Earlier + Spent
    BY DEF DepthInv
  <2>2. Depth \in Int /\ Spent \in Int /\ Spent' \in Int
    BY <1>4, <1>5
  <2>3. enabled # 0 => Depth <= Earlier + Spent'
    BY <1>4, <2>1, <2>2, Raised, Zenon
  <2> QED
    BY <1>4, <1>5, <2>3
<1>8. Deepens(0, Log, Log, Log)
  BY <1>2, <1>4, <1>6, <1>7 DEF Deepens
<1> QED
  BY <1>1, <1>3, <1>8, DepthKept

LEMMA SwitchDeepens ==
    ASSUME StackOK, TypeInv, CountInv, WindowInv, DepthInv, TypeInv', Switch
    PROVE  DepthInv'
<1>1. stack # <<>> /\ Top.at = "switch"
  BY DEF Switch, At
<1>2. Top \in Frames /\ stack \in Seq(Frames)
  BY <1>1, TopFrame
<1> DEFINE f == Then("free")
<1>3. f \in Frames /\ f.at = "free" /\ Log \in Frames /\ Log.at = "log"
  <2>1. "free" \in Steps
    BY Zenon DEF Steps
  <2> QED
    BY <1>2, <2>1, ThenIs, FrameIs
<1> HIDE DEF f
<1>4. /\ ~Fails(Top) /\ ~Fails(f) /\ ~Fails(Log) /\ ~Reports(f) /\ ~Reports(Log)
  BY <1>1, <1>3 DEF Fails, Reports
<1>5. SoonMayFail(f, Depth') /\ SoonMayFail(Log, Depth')
  BY <1>3 DEF SoonMayFail
<1>6. /\ EXPIRY_SECONDS \in Nat /\ since \in 0..(EXPIRY_SECONDS + 2) /\ Earlier \in Int
      /\ Spent \in 0..(EXPIRY_SECONDS + 2) /\ enabled \in Nat
      /\ enabled = 0 => Earlier + EXPIRY_SECONDS + 2 = 0
      /\ enabled' = enabled + 1 => Earlier' = Earlier + EXPIRY_SECONDS + 2
      /\ Spent <= since
  <2>1. enabled = 0 => (EXPIRY_SECONDS + 2) * enabled = 0
    BY Budget
  <2>2. EXPIRY_SECONDS + 1 \in Nat /\ since \in Nat
    <3>1. EXPIRY_SECONDS \in Nat /\ since \in 0..(EXPIRY_SECONDS + 2)
      BY Budget, Zenon
    <3> QED
      BY <3>1
  <2>3. Spent <= since
    BY <2>2, CapsBelow DEF Spent
  <2> QED
    BY <2>1, <2>3, Budget
<1>7. /\ enabled = 0 => Depth = 0
      /\ enabled # 0 => Depth <= Earlier + Spent
  BY DEF DepthInv
<1>8. ASSUME NEW on \in BOOLEAN, SwitchTo(on)
      PROVE  DepthInv'
  <2>1. Becomes(<<f, Log>>)
    BY <1>8 DEF SwitchTo, f
  <2>2. Grown(2, f, Log, Log)
    BY <1>1, <1>2, <1>3, <2>1, Grow
  <2>3. Depth' = Depth /\ Depth \in Nat
    BY <1>1, <1>2, <1>4, <2>2, DepthIs
  <2>4. CASE on
    <3>1. serverLoggingEnabled' = 1 /\ since' = 0 /\ enabled' = enabled + 1
      BY <1>8, <2>4 DEF SwitchTo
    <3>2. Spent' = 0
      BY <1>6, <3>1 DEF Spent, Capped
    <3>3. Depth' <= Earlier' + Spent' /\ enabled' # 0
      BY <1>6, <1>7, <2>3, <3>1, <3>2
    <3>4. Deepens(2, f, Log, Log)
      BY <1>3, <1>4, <1>5, <3>1, <3>3 DEF Deepens
    <3> QED
      BY <1>1, <2>2, <3>4, DepthKept
  <2>5. CASE ~on
    <3>1. serverLoggingEnabled' = 0 /\ enabled' = enabled /\ since' = since
      BY <1>8, <2>5 DEF SwitchTo
    <3>2. Spent' = since /\ Earlier' = Earlier
      BY <3>1 DEF Spent, Earlier
    <3>3. enabled # 0 => Depth' <= Earlier' + Spent'
      BY <1>6, <1>7, <2>3, <3>2
    <3>4. Deepens(2, f, Log, Log)
      BY <1>3, <1>4, <1>5, <1>7, <2>3, <3>1, <3>3 DEF Deepens
    <3> QED
      BY <1>1, <2>2, <3>4, DepthKept
  <2> QED
    BY <2>4, <2>5
<1>9. CASE Becomes(<<f>>) /\ UNCHANGED loggingVars
  <2>1. Becomes(<<f>>) /\ UNCHANGED <<serverLoggingEnabled, age, since, enabled>>
    BY <1>9 DEF loggingVars
  <2>2. Grown(1, f, Log, Log)
    BY <1>1, <1>2, <1>3, <2>1, Grow
  <2>3. Depth' = Depth /\ Depth \in Nat
    BY <1>1, <1>2, <1>4, <2>2, DepthIs
  <2>4. Spent' = Spent /\ Earlier' = Earlier
    BY <2>1 DEF Spent, Earlier, Capped
  <2>5. Deepens(1, f, Log, Log)
    BY <1>3, <1>4, <1>5, <1>7, <2>1, <2>3, <2>4 DEF Deepens
  <2> QED
    BY <1>1, <2>2, <2>5, DepthKept
<1>10. \/ SwitchTo(TRUE)
       \/ SwitchTo(FALSE)
       \/ Becomes(<<f>>) /\ UNCHANGED loggingVars
  BY SwitchCases DEF f
<1> QED
  BY <1>8, <1>9, <1>10

-----------------------------------------------------------------------------
(* The main loop and the network.                                          *)
Begins(f) ==
    /\ stack = <<>> /\ stack' = <<f>>
    /\ f \in {Publish("app"), Publish("sure"), ReadAndProcess}
    /\ UNCHANGED <<serverLoggingEnabled, age, since, enabled, inbox, packets, contents,
                   heap, lastPubTopic, lastPubPayload, handlerAttached>>
    /\ guaranteed' \in Nat

LEMMA Beginning ==
    ASSUME NEW f, Begins(f)
    PROVE  /\ f \in Frames /\ FrameOK(f) /\ f.mem = <<>> /\ f.at \in {"publish", "read"}
           /\ f.kind # "log" /\ Len(stack') = 1 /\ DOMAIN stack' = {1} /\ stack'[1] = f
           /\ stack' \in Seq(Frames) /\ stack' # <<>> /\ Top' = f
           /\ Bottom(f) => f.at = "publish"
           /\ f.at \notin Active \cup Storing
           /\ f.kind \notin {"log", "notice"}
<1>1. f \in Frames /\ f.mem = <<>> /\ f.at \in {"publish", "read"}
      /\ f.kind \in {"app", "sure", "none"} /\ (f.at = "publish" => f.kind # "none")
      /\ (f.at = "read" => f.kind = "none")
  <2>1. "app" \in Kinds /\ "sure" \in Kinds
    BY Zenon DEF Kinds
  <2>2. f = Publish("app") \/ f = Publish("sure") \/ f = ReadAndProcess
    BY DEF Begins
  <2> QED
    BY <2>1, <2>2, FrameIs
<1>2. MemOK(f)
  BY <1>1, Plain
<1>3. f.at \notin Handling /\ f.at \notin Storing /\ f.at \notin Active /\ f.at \notin Waiting
  <2>1. CASE f.at = "publish"
    BY <2>1, Zenon DEF Storing, Handling, Active, Waiting
  <2>2. CASE f.at = "read"
    BY <2>2, Zenon DEF Storing, Handling, Active, Waiting
  <2> QED
    BY <1>1, <2>1, <2>2
<1>4. FrameOK(f) /\ (Bottom(f) => f.at = "publish")
  <2>1. f.at = "read" => f.at \notin Publishing /\ f.kind # "sure"
    BY <1>1 DEF Publishing
  <2> QED
    BY <1>1, <1>2, <1>3, <2>1 DEF FrameOK, Bottom
<1>5. stack' = <<f>>
  BY DEF Begins
<1>6. Len(stack') = 1 /\ DOMAIN stack' = {1} /\ stack'[1] = f /\ stack' \in Seq(Frames)
      /\ stack' # <<>> /\ stack'[Len(stack')] = f
  BY <1>1, <1>5
<1> QED
  BY <1>1, <1>3, <1>6, <1>4 DEF Top, Last

LEMMA NoneIsPending ==
    ASSUME NEW s \in Seq(Frames), \A i \in DOMAIN s : s[i].at \notin Active
    PROVE  Cardinality({i \in DOMAIN s : s[i].at \in Active}) = 0
<1>1. {i \in DOMAIN s : s[i].at \in Active} = {}
  OBVIOUS
<1> QED
  BY <1>1, FS_EmptySet

LEMMA DepthOfNone ==
    /\ stack = <<>> => Depth = 0
    /\ stack' = <<>> => Depth' = 0
    /\ \A f : stack' = <<f>> /\ ~Fails(f) => Depth' = 0
<1>1. ASSUME stack = <<>> PROVE Depth = 0
  BY <1>1, BelowIs DEF Depth
<1>2. ASSUME stack' = <<>> PROVE Depth' = 0
  BY <1>2, BelowIs DEF Depth
<1>3. ASSUME NEW f, stack' = <<f>>, ~Fails(f) PROVE Depth' = 0
  <2>1. Len(stack') = 1 /\ stack'[1] = f
    BY <1>3
  <2>2. Below(stack', 1 + 1) = 0
    BY <1>3, <2>1, BelowIs
  <2> QED
    BY <2>1, <2>2 DEF Depth
<1> QED
  BY <1>1, <1>2, <1>3

LEMMA BeginsDeepens ==
    ASSUME NEW f, Begins(f), TypeInv, CountInv
    PROVE  DepthInv'
<1>1. /\ stack' = <<f>> /\ UNCHANGED <<serverLoggingEnabled, since, enabled>>
      /\ f.at \in {"publish", "read"} /\ f.kind \notin {"log", "notice"}
      /\ stack' # <<>> /\ Top' = f /\ DOMAIN stack' = {1} /\ Len(stack') = 1
  BY Beginning DEF Begins
<1>2. ~Fails(f) /\ ~Reports(f)
  BY <1>1 DEF Fails, Reports
<1>3. Depth' = 0
  BY <1>1, <1>2, DepthOfNone
<1>4. MayFail(f, Depth)'
  BY <1>1 DEF MayFail
<1>5. MayFail(Top, Depth)'
  BY <1>1 DEF MayFail
<1>6. enabled' # 0 => Depth' <= Earlier' + Spent'
  <2>1. Earlier' = Earlier /\ Spent' = Spent
    BY <1>1 DEF Earlier, Spent, Capped
  <2>2. Spent \in Nat /\ (enabled # 0 => Earlier \in Nat)
    <3>1. Spent \in 0..(EXPIRY_SECONDS + 2) /\ (enabled # 0 => Earlier \in Nat)
      BY Budget, Zenon
    <3> QED
      BY <3>1
  <2> QED
    BY <1>1, <1>3, <2>1, <2>2
<1>7. \A i \in DOMAIN stack' : i = Len(stack')
  BY <1>1
<1> QED
  BY <1>1, <1>2, <1>3, <1>5, <1>6, <1>7 DEF DepthInv

LEMMA BeginsKeeps ==
    ASSUME NEW f, Begins(f), StackOK, CountInv, PayloadInv, WindowInv, HeapInv, TypeInv
    PROVE  /\ StackOK' /\ CountInv' /\ PayloadInv' /\ WindowInv' /\ HeapInv'
           /\ DepthInv'
<1>1. /\ f \in Frames /\ FrameOK(f) /\ f.mem = <<>> /\ f.at \in {"publish", "read"}
      /\ f.kind # "log" /\ Len(stack') = 1 /\ DOMAIN stack' = {1} /\ stack'[1] = f
      /\ stack' \in Seq(Frames) /\ stack' # <<>> /\ Top' = f
      /\ (Bottom(f) => f.at = "publish") /\ f.at \notin Active \cup Storing
  BY Beginning
<1>2. /\ stack = <<>> /\ guaranteed' \in Nat
      /\ UNCHANGED <<serverLoggingEnabled, age, since, enabled, inbox, packets, contents,
                     heap, lastPubTopic, lastPubPayload, handlerAttached>>
  BY DEF Begins
<1>3. f.at \notin Active /\ f.at \notin {"emit", "acked", "log"} /\ f.at \notin Storing
  BY <1>1
<1>4. StackOK'
  BY <1>1 DEF StackOK
<1>5. CountInv'
  <2>1. \A i \in DOMAIN stack' : stack'[i].at \notin Active
    BY <1>1, <1>3
  <2>2. Cardinality(Pending') = 0
    BY <1>1, <2>1, NoneIsPending DEF Pending
  <2>3. Cardinality(Pending) = 0
    <3>1. stack \in Seq(Frames) /\ DOMAIN stack = {}
      BY <1>2 DEF StackOK
    <3> QED
      BY <3>1, NoneIsPending DEF Pending
  <2>4. enabled' + Cardinality(Pending') + Len(inbox') <= packets'
    BY <1>2, <2>2, <2>3 DEF CountInv
  <2> QED
    BY <1>2, <2>4 DEF CountInv
<1>6. PayloadInv'
  BY <1>1, <1>2, <1>3 DEF PayloadInv
<1>7. WindowInv'
  <2>1. enabled' = 0 => serverLoggingEnabled' = 0
    BY <1>2 DEF WindowInv
  <2>2. \A i \in DOMAIN stack' : stack'[i].at # "emit"
    BY <1>1, <1>3
  <2>3. Counted'
    BY <1>2 DEF WindowInv, Counted, At, Capped
  <2>4. InTime'
    BY <1>1, <1>3 DEF InTime, At
  <2> QED
    BY <2>1, <2>2, <2>3, <2>4 DEF WindowInv
<1>8. HeapInv'
  <2>1. heap.misused = 0
    BY <1>2 DEF HeapInv, TypeInv, HeapType
  <2>2. PICK w : Layout(w) /\ MessageOK(w[1]) /\ IsHeap(heap)
    BY <2>1 DEF HeapInv, Sound
  <2>3. w[1] = Len(heap.live)
    BY <1>2, <2>2 DEF Layout
  <2>4. IsHeap(heap') /\ \A i \in DOMAIN stack' : stack'[i].mem = <<>>
    BY <1>1, <1>2, <2>2
  <2>5. PICK v : Layout(v)' /\ v[1] = Len(heap'.live)
    BY <1>1, <2>4, LayoutOfNone
  <2>6. v[1] = w[1]
    BY <1>2, <2>3, <2>5
  <2>7. Tracking' => Tracking
    BY <1>1, <1>2, <1>3 DEF Tracking
  <2>8. MessageOK(v[1])'
    BY <1>1, <1>2, <1>3, <2>2, <2>6, <2>7 DEF MessageOK, Kept, Storing
  <2>9. Sound'
    BY <2>4, <2>5, <2>8 DEF Sound
  <2> QED
    BY <1>2, <2>1, <2>9 DEF HeapInv
<1>9. DepthInv'
  BY BeginsDeepens
<1> QED
  BY <1>4, <1>5, <1>6, <1>7, <1>8, <1>9

LEMMA EmptyIsHeap ==
    IsHeap(EmptyHeap) /\ HeapType(EmptyHeap) /\ EmptyHeap.misused = 0
<1> DEFINE h == EmptyHeap
<1>1. /\ DOMAIN h = {"currentBytesUsed", "live", "count", "maxAllocationsCount", "misused"}
      /\ h.currentBytesUsed = 0 /\ h.live = <<>> /\ h.misused = 0
  BY DEF EmptyHeap
<1> HIDE DEF h
<1>2. h.live \in Seq(Block) /\ Len(h.live) = 0 /\ h.currentBytesUsed \in Nat
  BY <1>1
<1>3. Stacked(h)
  BY <1>1, <1>2, HeapAssumption DEF Stacked, HeapAssumption
<1> QED
  BY <1>1, <1>2, <1>3 DEF IsHeap, HeapType, h

(* With nothing to do, and without a result handler, all blocks are those  *)
(* of a message that nobody waits for.                                     *)
LEMMA AtRest ==
    ASSUME stack' = <<>>, IsHeap(heap'), handlerAttached' = 0
    PROVE  Sound'
<1>1. PICK w : w = [i \in {1} |-> Len(heap'.live)]
  OBVIOUS
<1>2. w[1] = Len(heap'.live) /\ Len(heap'.live) \in Nat
  BY <1>1 DEF IsHeap
<1>3. Len(stack') + 1 = 1 /\ DOMAIN stack' = {} /\ 1..1 = {1}
  OBVIOUS
<1>4. Layout(w)'
  BY <1>2, <1>3 DEF Layout
<1>5. MessageOK(w[1])'
  BY <1>3 DEF MessageOK, Tracking
<1> QED
  BY <1>4, <1>5 DEF Sound

LEMMA InitAtRest ==
    ASSUME stack = <<>>, IsHeap(heap), handlerAttached = 0
    PROVE  Sound
<1>1. PICK w : w = [i \in {1} |-> Len(heap.live)]
  OBVIOUS
<1>2. w[1] = Len(heap.live) /\ Len(heap.live) \in Nat
  BY <1>1 DEF IsHeap
<1>3. Len(stack) + 1 = 1 /\ DOMAIN stack = {} /\ 1..1 = {1}
  OBVIOUS
<1>4. Layout(w)
  BY <1>2, <1>3 DEF Layout
<1>5. MessageOK(w[1])
  BY <1>3 DEF MessageOK, Tracking
<1> QED
  BY <1>4, <1>5 DEF Sound

CallsInv ==
    StackOK /\ TypeInv /\ CountInv /\ HeapInv /\ PayloadInv /\ WindowInv /\ DepthInv

LEMMA InitIsInv == CallsInit => CallsInv
<1> SUFFICES ASSUME CallsInit PROVE CallsInv
  OBVIOUS
<1>1. /\ stack = <<>> /\ serverLoggingEnabled = 0 /\ age = 0 /\ since = 0 /\ enabled = 0
      /\ publishCount = 0 /\ ipstackCorrupted = 0 /\ line = "up" /\ inbox = <<>>
      /\ contents = 0 /\ heap = EmptyHeap
      /\ lastPubTopic = NULL /\ lastPubPayload = NULL
      /\ waitingForPuback = "not" /\ pubAckRecvAttempts = 0
      /\ handlerAttached = 0 /\ packets = 0 /\ guaranteed = 0 /\ unanswered = 0
  BY DEF CallsInit
<1>2. stack \in Seq(Frames) /\ DOMAIN stack = {} /\ inbox \in Seq(OnLine) /\ Len(inbox) = 0
  BY <1>1
<1>3. /\ EXPIRY_SECONDS \in Nat /\ MaxPackets \in Nat /\ Interval \in Nat \ {0}
      /\ MAX_CYCLES_TO_WAIT_FOR_PUBACK \in Nat \ {0}
  BY CallsAssumption DEF CallsAssumption
<1>4. StackOK
  BY <1>2 DEF StackOK
<1>5. TypeInv
  <2>1. NULL \in Block
    BY DEF NULL, Block
  <2> QED
    BY <1>1, <1>3, <2>1, EmptyIsHeap DEF TypeInv
<1>6. CountInv
  <2>1. Cardinality(Pending) = 0
    BY <1>2, NoneIsPending DEF Pending
  <2> QED
    BY <1>1, <1>2, <1>3, <2>1 DEF CountInv
<1>7. HeapInv
  BY <1>1, EmptyIsHeap, InitAtRest DEF HeapInv
<1>8. PayloadInv
  BY <1>1, <1>2 DEF PayloadInv
<1>9. WindowInv
  BY <1>1, <1>2 DEF WindowInv, Counted, InTime, At
<1>10. DepthInv
  BY <1>1, DepthOfNone DEF DepthInv
<1> QED
  BY <1>4, <1>5, <1>6, <1>7, <1>8, <1>9, <1>10 DEF CallsInv

(* The connection, or the process, starts again.                           *)
LEMMA StartsAgain ==
    ASSUME CallsInv, NewConnection, stack' = <<>>, TypeInv', IsHeap(heap'), heap'.misused = 0
    PROVE  CallsInv'
<1>1. /\ serverLoggingEnabled' = 0 /\ enabled' = 0 /\ inbox' = <<>>
      /\ handlerAttached' = 0 /\ packets' = 0 /\ guaranteed' = 0
  BY DEF NewConnection
<1>2. stack' \in Seq(Frames) /\ DOMAIN stack' = {} /\ inbox' \in Seq(OnLine) /\ Len(inbox') = 0
  BY <1>1
<1>3. StackOK'
  BY <1>2 DEF StackOK
<1>4. CountInv'
  <2>1. Cardinality(Pending') = 0
    BY <1>2, NoneIsPending DEF Pending
  <2>2. MaxPackets \in Nat
    BY CallsAssumption DEF CallsAssumption
  <2> QED
    BY <1>1, <1>2, <2>1, <2>2 DEF CountInv
<1>5. HeapInv'
  BY <1>1, AtRest DEF HeapInv
<1>6. PayloadInv'
  BY <1>1, <1>2 DEF PayloadInv
<1>7. WindowInv'
  BY <1>1, <1>2 DEF WindowInv, Counted, InTime, At
<1>8. DepthInv'
  BY <1>1, DepthOfNone DEF DepthInv
<1> QED
  BY <1>3, <1>4, <1>5, <1>6, <1>7, <1>8 DEF CallsInv

LEMMA RestartKeeps ==
    ASSUME CallsInv, Restart
    PROVE  CallsInv'
<1>1. /\ NewConnection /\ stack' = <<>> /\ age' = 0 /\ since' = 0
      /\ publishCount' = 0 /\ contents' = 0 /\ heap' = EmptyHeap
      /\ lastPubTopic' = NULL /\ lastPubPayload' = NULL
      /\ waitingForPuback' = "not" /\ pubAckRecvAttempts' = 0
  BY DEF Restart
<1>2. /\ EXPIRY_SECONDS \in Nat /\ MaxPackets \in Nat /\ Interval \in Nat \ {0}
      /\ MAX_CYCLES_TO_WAIT_FOR_PUBACK \in Nat \ {0}
  BY CallsAssumption DEF CallsAssumption
<1>3. NULL \in Block
  BY DEF NULL, Block
<1>4. TypeInv'
  BY <1>1, <1>2, <1>3, EmptyIsHeap DEF TypeInv, NewConnection
<1> QED
  BY <1>1, <1>4, EmptyIsHeap, StartsAgain

LEMMA ReconnectKeeps ==
    ASSUME CallsInv, heap.misused = 0, Reconnect
    PROVE  CallsInv'
<1>1. /\ NewConnection /\ stack = <<>> /\ stack' = stack
      /\ waitingForPuback' = "not" /\ pubAckRecvAttempts' = 0
      /\ UNCHANGED <<age, since, publishCount, contents, heap, lastPubTopic,
                     lastPubPayload>>
  BY DEF Reconnect
<1>2. EXPIRY_SECONDS \in Nat
  BY CallsAssumption DEF CallsAssumption
<1>3. TypeInv /\ IsHeap(heap)
  BY DEF CallsInv, HeapInv, Sound
<1>4. TypeInv'
  <2>1. MAX_CYCLES_TO_WAIT_FOR_PUBACK \in Nat \ {0}
    BY CallsAssumption DEF CallsAssumption
  <2> QED
    BY <1>1, <1>2, <1>3, <2>1 DEF TypeInv, NewConnection
<1> QED
  BY <1>1, <1>3, <1>4, StartsAgain

LEMMA MainPublishesKeeps ==
    ASSUME CallsInv, NEW kind \in {"app", "sure"}, MainPublishes(kind)
    PROVE  CallsInv'
<1>1. /\ Begins(Publish(kind))
      /\ UNCHANGED <<serverLoggingEnabled, age, since, enabled, publishCount, ipstackCorrupted,
                     line, contents, heap, lastPubTopic, lastPubPayload, waitingForPuback,
                     pubAckRecvAttempts, handlerAttached, unanswered>>
  <2>1. guaranteed \in Nat
    BY DEF CallsInv, CountInv
  <2>2. guaranteed' \in Nat
    BY <2>1 DEF MainPublishes
  <2> QED
    BY <2>2 DEF MainPublishes, Begins, loggingVars, lineVars, pubVars
<1>2. TypeInv'
  BY <1>1 DEF CallsInv, TypeInv
<1> QED
  BY <1>1, <1>2, BeginsKeeps DEF CallsInv

LEMMA MainReadsKeeps ==
    ASSUME CallsInv, MainReads
    PROVE  CallsInv'
<1>1. /\ Begins(ReadAndProcess)
      /\ UNCHANGED <<serverLoggingEnabled, age, since, enabled, publishCount, ipstackCorrupted,
                     line, contents, heap, lastPubTopic, lastPubPayload, waitingForPuback,
                     pubAckRecvAttempts, handlerAttached, unanswered>>
  BY DEF MainReads, Begins, loggingVars, lineVars, pubVars, serverVars, CallsInv, CountInv
<1>2. TypeInv'
  BY <1>1 DEF CallsInv, TypeInv
<1> QED
  BY <1>1, <1>2, BeginsKeeps DEF CallsInv

LEMMA SecondKeepsType ==
    ASSUME TypeInv, ASecond
    PROVE  /\ age' \in -1..(EXPIRY_SECONDS + 1) /\ since' \in 0..(EXPIRY_SECONDS + 2)
           /\ serverLoggingEnabled' \in 0..1
<1>1. EXPIRY_SECONDS \in Nat
  BY CallsAssumption DEF CallsAssumption
<1> QED
  BY <1>1 DEF TypeInv, ASecond, Capped, FRESH_SERVER_LOGS_TIME

LEMMA HeapUnchanged ==
    ASSUME UNCHANGED <<stack, heap, lastPubTopic, lastPubPayload, handlerAttached>>
    PROVE  HeapInv' = HeapInv
<1>1. Tracking' = Tracking
  BY DEF Tracking
<1>2. \A w : Layout(w)' = Layout(w)
  BY DEF Layout
<1>3. \A p : MessageOK(p)' = MessageOK(p)
  BY <1>1 DEF MessageOK, Kept
<1>4. Sound' = Sound
  BY <1>2, <1>3 DEF Sound
<1> QED
  BY <1>4 DEF HeapInv

LEMMA MainWaitsKeeps ==
    ASSUME CallsInv, MainWaits
    PROVE  CallsInv'
<1>1. /\ stack = <<>> /\ ASecond
      /\ UNCHANGED <<stack, publishCount, ipstackCorrupted, line, inbox, contents, heap,
                     lastPubTopic, lastPubPayload, waitingForPuback, pubAckRecvAttempts,
                     handlerAttached, packets, guaranteed, unanswered>>
      /\ UNCHANGED <<serverLoggingEnabled, enabled>>
  BY DEF MainWaits, ASecond, lineVars, pubVars, serverVars
<1>2. StackOK'
  BY <1>1 DEF CallsInv, StackOK
<1>3. TypeInv'
  BY <1>1, SecondKeepsType DEF CallsInv, TypeInv
<1>4. CountInv'
  BY <1>1 DEF CallsInv, CountInv, Pending
<1>5. HeapInv'
  BY <1>1, HeapUnchanged DEF CallsInv
<1>6. PayloadInv'
  BY <1>1 DEF CallsInv, PayloadInv
<1>7. WindowInv'
  <2>1. enabled' = 0 => serverLoggingEnabled' = 0
    BY <1>1 DEF CallsInv, WindowInv
  <2>2. serverLoggingEnabled = 1 => age' = Capped(since', EXPIRY_SECONDS + 1)
    BY <1>1, SecondCounts DEF CallsInv, At
  <2>3. Counted'
    BY <1>1, <2>2 DEF Counted, Capped
  <2> QED
    BY <1>1, <2>1, <2>3 DEF WindowInv, InTime, At
<1>8. DepthInv'
  <2>1. TypeInv /\ CountInv
    BY DEF CallsInv
  <2>2. /\ stack' = <<>> /\ enabled' = enabled
        /\ Earlier' = Earlier /\ Spent' \in Nat
    BY <1>1, <2>1, SecondSpent
  <2>3. enabled # 0 => Earlier \in Nat
    BY <2>1, Budget, Zenon
  <2>4. Depth' = 0
    BY <2>2, DepthOfNone
  <2>5. enabled' # 0 => Depth' <= Earlier' + Spent'
    BY <2>2, <2>3, <2>4
  <2> QED
    BY <2>2, <2>4, <2>5 DEF DepthInv
<1> QED
  BY <1>2, <1>3, <1>4, <1>5, <1>6, <1>7, <1>8 DEF CallsInv

(* What the network does leaves the driver alone.                          *)
LEMMA OutsideKeeps ==
    ASSUME CallsInv, CountInv', line' \in {"up", "broken"}, unanswered' \in 0..1,
           UNCHANGED <<stack, serverLoggingEnabled, age, since, enabled, publishCount,
                       ipstackCorrupted, contents, heap, lastPubTopic, lastPubPayload,
                       waitingForPuback, pubAckRecvAttempts, handlerAttached>>
    PROVE  CallsInv'
<1>1. StackOK'
  BY DEF CallsInv, StackOK
<1>2. TypeInv'
  BY DEF CallsInv, TypeInv
<1>3. HeapInv'
  BY HeapUnchanged DEF CallsInv
<1>4. PayloadInv'
  BY DEF CallsInv, PayloadInv
<1>5. WindowInv'
  BY DEF CallsInv, WindowInv, Noticed, Counted, InTime, At, Top, Capped
<1>6. DepthInv'
  BY DEF CallsInv, DepthInv, Depth, Earlier, Spent, MayFail, Top, Capped
<1> QED
  BY <1>1, <1>2, <1>3, <1>4, <1>5, <1>6 DEF CallsInv

LEMMA ArrivesKeeps ==
    ASSUME CallsInv, NEW kind \in {"message", "enable", "disable", "puback"}, Arrives(kind)
    PROVE  CallsInv'
<1> DEFINE p == [kind |-> kind, n |-> packets + 1,
                 id |-> IF kind = "puback" THEN guaranteed ELSE 0]
<1>1. /\ packets < MaxPackets /\ packets' = packets + 1 /\ inbox' = Append(inbox, p)
      /\ unanswered' = IF kind = "puback" THEN 0 ELSE unanswered
      /\ UNCHANGED <<stack, serverLoggingEnabled, age, since, enabled, publishCount,
                     ipstackCorrupted, line, contents, heap, lastPubTopic, lastPubPayload,
                     waitingForPuback, pubAckRecvAttempts, handlerAttached, guaranteed>>
  BY DEF Arrives, loggingVars, lineVars, pubVars
<1>2. /\ inbox \in Seq(OnLine) /\ packets \in 0..MaxPackets /\ enabled \in Nat
      /\ guaranteed \in Nat /\ enabled + Cardinality(Pending) + Len(inbox) <= packets
      /\ stack \in Seq(Frames)
  BY DEF CallsInv, CountInv, StackOK
<1>3. MaxPackets \in Nat
  BY CallsAssumption DEF CallsAssumption
<1>4. p \in OnLine
  <2>1. packets + 1 \in 0..MaxPackets /\ (IF kind = "puback" THEN guaranteed ELSE 0) \in Nat
    BY <1>1, <1>2, <1>3
  <2> QED
    BY <2>1 DEF OnLine
<1> HIDE DEF p
<1>5. inbox' \in Seq(OnLine) /\ Len(inbox') = Len(inbox) + 1 /\ Len(inbox) \in Nat
  BY <1>1, <1>2, <1>4
<1>6. Pending' = Pending /\ Cardinality(Pending) \in Nat
  BY <1>1, <1>2, PendingFinite DEF Pending
<1>7. Cardinality(Pending') = Cardinality(Pending)
  BY <1>6
<1>8. enabled' + Cardinality(Pending') + Len(inbox') <= packets' /\ packets' \in 0..MaxPackets
  BY <1>1, <1>2, <1>3, <1>5, <1>6, <1>7
<1>9. CountInv'
  BY <1>1, <1>2, <1>5, <1>8 DEF CountInv
<1>10. line' \in {"up", "broken"} /\ unanswered' \in 0..1
  BY <1>1 DEF CallsInv, TypeInv
<1> QED
  BY <1>1, <1>9, <1>10, OutsideKeeps

LEMMA LineBreaksKeeps ==
    ASSUME CallsInv, LineBreaks
    PROVE  CallsInv'
<1>1. /\ line' = "broken"
      /\ UNCHANGED <<stack, serverLoggingEnabled, age, since, enabled, publishCount,
                     ipstackCorrupted, contents, heap, lastPubTopic, lastPubPayload,
                     waitingForPuback, pubAckRecvAttempts, handlerAttached, inbox, packets,
                     guaranteed, unanswered>>
  BY DEF LineBreaks, loggingVars, pubVars, serverVars
<1>2. CountInv'
  BY <1>1 DEF CallsInv, CountInv, Pending
<1>3. unanswered' \in 0..1
  BY <1>1 DEF CallsInv, TypeInv
<1> QED
  BY <1>1, <1>2, <1>3, OutsideKeeps

-----------------------------------------------------------------------------
(* The driver.                                                             *)
LEMMA GoesKeeps ==
    ASSUME StackOK, CountInv, PayloadInv, stack # <<>>,
           NEW k, NEW f, NEW g, NEW e, Goes(k, f, g, e)
    PROVE  StackOK' /\ CountInv' /\ PayloadInv'
<1>1. Grown(k, f, g, e) /\ Fits(k, f, g, e) /\ Counts(f, g, e) /\ Keeps(k, f, g, e)
  BY DEF Goes
<1>2. StackOK'
  BY <1>1, StackKept
<1>3. CountInv'
  BY <1>1, CountKept
<1>4. enabled' = 0 => enabled = 0
  BY <1>1 DEF Counts, CountInv
<1>5. PayloadInv'
  BY <1>1, <1>4, PayloadKept
<1> QED
  BY <1>2, <1>3, <1>5

(* What the lemmas about a step have shown is enough.                      *)
LEMMA QuietKeeps ==
    ASSUME CallsInv, stack # <<>>, TypeInv', HeapInv',
           NEW k, NEW f, NEW g, NEW e, Goes(k, f, g, e), Quiet(f, g, e)
    PROVE  CallsInv'
<1>1. Timed(k, f, g, e)
  BY QuietIsTimed DEF CallsInv
<1>2. WindowInv'
  BY <1>1, WindowKept DEF CallsInv, Goes
<1>3. StackOK' /\ CountInv' /\ PayloadInv'
  BY GoesKeeps DEF CallsInv
<1>4. DepthInv'
  <2>1. Grown(k, f, g, e) /\ StackOK /\ TypeInv /\ CountInv /\ DepthInv
    BY DEF Goes, CallsInv
  <2>2. Deepens(k, f, g, e)
    BY <2>1, QuietDeepens
  <2> QED
    BY <2>1, <2>2, DepthKept
<1> QED
  BY <1>2, <1>3, <1>4 DEF CallsInv

LEMMA TimedKeeps ==
    ASSUME CallsInv, stack # <<>>, TypeInv', HeapInv', WindowInv', DepthInv',
           NEW k, NEW f, NEW g, NEW e, Goes(k, f, g, e)
    PROVE  CallsInv'
<1>1. StackOK' /\ CountInv' /\ PayloadInv'
  BY GoesKeeps DEF CallsInv
<1> QED
  BY <1>1 DEF CallsInv

LEMMA SoundIsEnough ==
    ASSUME heap.misused = 0
    PROVE  /\ HeapInv => Sound
           /\ Sound' /\ heap'.misused = heap.misused => HeapInv'
           /\ Sound' /\ heap' = heap => HeapInv'
BY DEF HeapInv

LEMMA QuietAndIdleKeeps ==
    ASSUME CallsInv, heap.misused = 0, stack # <<>>,
           TypeInv' /\ \E k, f, g, e : Goes(k, f, g, e) /\ Quiet(f, g, e) /\ Idle(k, f, g, e)
    PROVE  CallsInv'
<1>1. PICK k, f, g, e : Goes(k, f, g, e) /\ Quiet(f, g, e) /\ Idle(k, f, g, e)
  OBVIOUS
<1>2. StackOK /\ Sound
  BY SoundIsEnough DEF CallsInv
<1>3. Sound' /\ heap' = heap
  BY <1>1, <1>2, IdleIsSound
<1>4. HeapInv'
  BY <1>3, SoundIsEnough
<1> QED
  BY <1>1, <1>4, QuietKeeps

LEMMA IdleKeeps ==
    ASSUME CallsInv, heap.misused = 0, stack # <<>>, WindowInv', DepthInv',
           TypeInv' /\ \E k, f, g, e : Goes(k, f, g, e) /\ Idle(k, f, g, e)
    PROVE  CallsInv'
<1>1. PICK k, f, g, e : Goes(k, f, g, e) /\ Idle(k, f, g, e)
  OBVIOUS
<1>2. StackOK /\ Sound
  BY SoundIsEnough DEF CallsInv
<1>3. Sound' /\ heap' = heap
  BY <1>1, <1>2, IdleIsSound
<1>4. HeapInv'
  BY <1>3, SoundIsEnough
<1> QED
  BY <1>1, <1>4, TimedKeeps

LEMMA AllocatesKeeps ==
    ASSUME CallsInv, heap.misused = 0, TypeInv' /\ \E n : Allocates(n)
    PROVE  CallsInv'
<1>1. PICK n : Allocates(n)
  OBVIOUS
<1>2. stack # <<>> /\ \E k, f, g, e : Goes(k, f, g, e) /\ Quiet(f, g, e)
  BY <1>1 DEF Allocates
<1>3. StackOK /\ Sound
  BY SoundIsEnough DEF CallsInv
<1>4. Sound' /\ heap'.misused = heap.misused
  BY <1>1, <1>3, AllocatesIsSound
<1>5. HeapInv'
  BY <1>4, SoundIsEnough
<1> QED
  BY <1>2, <1>5, QuietKeeps

(* The steps that neither go to the server nor touch the heap.             *)
LEMMA QuietDriver ==
    ASSUME CallsInv, heap.misused = 0,
           \/ Send \/ WriteFailed \/ Sent \/ Published \/ PublishFailed \/ Wait \/ Waited
           \/ ReadCorrupted \/ RecvError \/ ReadFailed \/ TopicName \/ OneToOne \/ Body
           \/ NoMemory
    PROVE  CallsInv'
<1>1. StackOK /\ TypeInv /\ CountInv
  BY DEF CallsInv
<1>2. ASSUME stack # <<>>,
             TypeInv' /\ \E k, f, g, e : Goes(k, f, g, e) /\ Quiet(f, g, e) /\ Idle(k, f, g, e)
      PROVE  CallsInv'
  BY <1>2, QuietAndIdleKeeps
<1>3. CASE Send
  BY <1>1, <1>2, <1>3, SendStep DEF Send, At
<1>4. CASE WriteFailed
  BY <1>1, <1>2, <1>4, WriteFailedStep DEF WriteFailed, At
<1>5. CASE Sent
  BY <1>1, <1>2, <1>5, SentStep DEF Sent, At
<1>6. CASE Published
  BY <1>1, <1>2, <1>6, PublishedStep DEF Published, At
<1>7. CASE PublishFailed
  BY <1>1, <1>2, <1>7, PublishFailedStep DEF PublishFailed, At
<1>8. CASE Wait
  BY <1>1, <1>2, <1>8, WaitStep DEF Wait, At
<1>9. CASE Waited
  BY <1>1, <1>2, <1>9, WaitedStep DEF Waited, At
<1>10. CASE ReadCorrupted
  BY <1>1, <1>2, <1>10, ReadCorruptedStep DEF ReadCorrupted, At
<1>11. CASE RecvError
  BY <1>1, <1>2, <1>11, RecvErrorStep DEF RecvError, At
<1>12. CASE ReadFailed
  BY <1>1, <1>2, <1>12, ReadFailedStep DEF ReadFailed, At
<1>13. CASE TopicName
  BY <1>1, <1>2, <1>13, TopicNameStep, Zenon DEF TopicName, At
<1>14. CASE OneToOne
  BY <1>1, <1>2, <1>14, OneToOneStep, Zenon DEF OneToOne, At
<1>15. CASE Body
  BY <1>1, <1>2, <1>15, BodyStep DEF Body, At
<1>16. CASE NoMemory
  BY <1>1, <1>2, <1>16, NoMemoryStep, Zenon DEF NoMemory, At
<1> QED
  BY <1>3, <1>4, <1>5, <1>6, <1>7, <1>8, <1>9, <1>10, <1>11, <1>12, <1>13, <1>14, <1>15, <1>16

(* Those that take time, or switch the logs.                               *)
LEMMA TimedDriver ==
    ASSUME CallsInv, heap.misused = 0,
           Metadata \/ Emit \/ PublishStart \/ ReadNothing \/ Switch
    PROVE  CallsInv'
<1>1. StackOK /\ TypeInv /\ CountInv /\ WindowInv /\ DepthInv /\ Sound
  BY SoundIsEnough DEF CallsInv
<1>2. ASSUME stack # <<>>, WindowInv', TypeInv' => DepthInv',
             TypeInv' /\ \E k, f, g, e : Goes(k, f, g, e) /\ Idle(k, f, g, e)
      PROVE  CallsInv'
  BY <1>2, IdleKeeps
<1>3. CASE Metadata
  BY <1>1, <1>2, <1>3, MetadataStep, MetadataIsTimed, MetadataDeepens
     DEF Metadata, At
<1>4. CASE Emit
  BY <1>1, <1>2, <1>4, EmitStep, EmitIsTimed, EmitDeepens
     DEF Emit, At
<1>5. CASE PublishStart /\ Top.kind # "sure"
  BY <1>1, <1>2, <1>5, PublishStartShortStep, PublishStartIsTimed,
     PublishStartDeepens DEF PublishStart, At
<1>6. CASE PublishStart /\ Top.kind = "sure"
  <2>1. stack # <<>>
    BY <1>6 DEF PublishStart, At
  <2>2. TypeInv' /\ Goes(1, Then("topic"), Log, Log)
    BY <1>1, <1>6, PublishStartSureStep
  <2>3. HeapInv'
    BY <1>1, <1>6, PublishStartIsSound, SoundIsEnough
  <2>4. WindowInv'
    BY <1>1, <1>6, PublishStartIsTimed
  <2>5. DepthInv'
    BY <1>1, <1>6, <2>2, PublishStartDeepens
  <2> QED
    BY <2>1, <2>2, <2>3, <2>4, <2>5, TimedKeeps
<1>7. CASE ReadNothing
  BY <1>1, <1>2, <1>7, ReadNothingStep, ReadNothingIsTimed, ReadNothingDeepens
     DEF ReadNothing, At
<1>8. CASE Switch
  BY <1>1, <1>2, <1>8, SwitchStep, SwitchIsTimed, SwitchDeepens
     DEF Switch, At
<1> QED
  BY <1>3, <1>4, <1>5, <1>6, <1>7, <1>8

(* Those that allocate and free.                                           *)
LEMMA HandlerAllocates ==
    ASSUME CallsInv, heap.misused = 0,
           \/ CopyTopicName \/ AllocatePeerMessage \/ AllocatePeer
           \/ AllocateClientId \/ AllocateLogging
    PROVE  CallsInv'
<1>1. StackOK /\ TypeInv /\ CountInv /\ IsHeap(heap)
  BY SoundIsEnough DEF CallsInv, Sound
<1>2. TypeInv' /\ \E n : Allocates(n)
  <2>1. CASE CopyTopicName
    BY <1>1, <2>1, CopyTopicNameStep
  <2>2. CASE AllocatePeerMessage
    BY <1>1, <2>2, AllocatePeerMessageStep
  <2>3. CASE AllocatePeer
    BY <1>1, <2>3, AllocatePeerStep
  <2>4. CASE AllocateClientId
    BY <1>1, <2>4, AllocateClientIdStep
  <2>5. CASE AllocateLogging
    BY <1>1, <2>5, AllocateLoggingStep
  <2> QED
    BY <2>1, <2>2, <2>3, <2>4, <2>5
<1> QED
  BY <1>2, AllocatesKeeps

LEMMA MessageDriver ==
    ASSUME CallsInv, heap.misused = 0,
           AllocateTopic \/ AllocatePayload \/ Track \/ Save
    PROVE  CallsInv'
<1>1. StackOK /\ TypeInv /\ CountInv /\ Sound /\ IsHeap(heap)
  BY SoundIsEnough DEF CallsInv, Sound
<1>2. ASSUME stack # <<>>, TypeInv', Sound', heap'.misused = heap.misused,
             \E k, f, g, e : Goes(k, f, g, e) /\ Quiet(f, g, e)
      PROVE  CallsInv'
  BY <1>2, SoundIsEnough, QuietKeeps
<1>3. CASE AllocateTopic
  <2>1. TypeInv' /\ \E k, f, g, e : Goes(k, f, g, e) /\ Quiet(f, g, e)
    BY <1>1, <1>3, AllocateTopicStep
  <2> QED
    BY <1>1, <1>2, <1>3, <2>1, AllocateTopicIsSound DEF AllocateTopic, At
<1>4. CASE AllocatePayload
  <2>1. TypeInv' /\ \E k, f, g, e : Goes(k, f, g, e) /\ Quiet(f, g, e)
    BY <1>1, <1>4, AllocatePayloadStep
  <2> QED
    BY <1>1, <1>2, <1>4, <2>1, AllocatePayloadIsSound DEF AllocatePayload, At
<1>5. CASE Track
  BY <1>1, <1>2, <1>5, TrackStep, TrackIsSound DEF Track, At
<1>6. CASE Save
  <2>1. TypeInv' /\ \E k, f, g, e : Goes(k, f, g, e) /\ Quiet(f, g, e)
    BY <1>1, <1>6, SaveStep
  <2> QED
    BY <1>1, <1>2, <1>6, <2>1, SaveIsSound DEF Save, At
<1> QED
  BY <1>3, <1>4, <1>5, <1>6

LEMMA FreeingDriver ==
    ASSUME CallsInv, heap.misused = 0,
           Saved \/ GiveUp \/ Acked \/ Free \/ ReadAPacket
    PROVE  CallsInv'
<1>1. StackOK /\ TypeInv /\ CountInv /\ Sound
  BY SoundIsEnough DEF CallsInv
<1>2. CASE Saved
  <2>1. TypeInv' /\ \E k, f, g, e : Goes(k, f, g, e) /\ Quiet(f, g, e)
    <3> DEFINE f == Frame("give up")
    <3>1. TypeInv' /\ Goes(2, f, Log, Log) /\ Quiet(f, Log, Log)
      BY <1>1, <1>2, SavedStep, Zenon
    <3> HIDE DEF f
    <3> QED
      BY <3>1
  <2>2. HeapInv'
    BY <1>1, <1>2, SavedIsSound, SoundIsEnough
  <2>3. stack # <<>>
    BY <1>2, Zenon DEF Saved, At
  <2> QED
    BY <2>1, <2>2, <2>3, QuietKeeps
<1>3. CASE GiveUp
  <2>1. TypeInv' /\ \E k, f, g, e : Goes(k, f, g, e) /\ Quiet(f, g, e)
    BY <1>1, <1>3, GiveUpStep
  <2>2. HeapInv'
    BY <1>1, <1>3, GiveUpIsSound, SoundIsEnough
  <2>3. stack # <<>>
    BY <1>3, Zenon DEF GiveUp, At
  <2> QED
    BY <2>1, <2>2, <2>3, QuietKeeps
<1>4. CASE Acked
  <2>1. TypeInv' /\ \E k, f, g, e : Goes(k, f, g, e) /\ Quiet(f, g, e)
    BY <1>1, <1>4, AckedStep
  <2>2. HeapInv'
    BY <1>1, <1>4, AckedIsSound
  <2> QED
    BY <1>4, <2>1, <2>2, QuietKeeps DEF Acked, At
<1>5. CASE Free
  <2>1. TypeInv' /\ \E k, f, g, e : Goes(k, f, g, e) /\ Quiet(f, g, e)
    BY <1>1, <1>5, FreeStep
  <2>2. HeapInv'
    BY <1>1, <1>5, FreeIsSound, SoundIsEnough
  <2> QED
    BY <1>5, <2>1, <2>2, QuietKeeps DEF Free, At
<1>6. CASE ReadAPacket
  <2>1. TypeInv' /\ \E k, f, g, e : Goes(k, f, g, e) /\ Quiet(f, g, e)
    BY <1>1, <1>6, ReadAPacketStep
  <2>2. HeapInv'
    BY <1>1, <1>6, ReadAPacketIsSound, SoundIsEnough
  <2> QED
    BY <1>6, <2>1, <2>2, QuietKeeps DEF ReadAPacket, At
<1> QED
  BY <1>2, <1>3, <1>4, <1>5, <1>6

LEMMA DriverKeeps ==
    ASSUME CallsInv, heap.misused = 0, Driver
    PROVE  CallsInv'
<1>1. \/ Send \/ WriteFailed \/ Sent \/ Published \/ PublishFailed \/ Wait \/ Waited
      \/ ReadCorrupted \/ RecvError \/ ReadFailed \/ TopicName \/ OneToOne \/ Body
      \/ NoMemory
      \/ Metadata \/ Emit \/ PublishStart \/ ReadNothing \/ Switch
      \/ CopyTopicName \/ AllocatePeerMessage \/ AllocatePeer
      \/ AllocateClientId \/ AllocateLogging
      \/ AllocateTopic \/ AllocatePayload \/ Track \/ Save
      \/ Saved \/ GiveUp \/ Acked \/ Free \/ ReadAPacket
      \/ \E kind \in {"app", "sure"} : MainPublishes(kind)
      \/ MainReads \/ MainWaits \/ Reconnect
  BY Zenon DEF Driver
<1>2. CASE \E kind \in {"app", "sure"} : MainPublishes(kind)
  BY <1>2, MainPublishesKeeps
<1>3. CASE MainReads \/ MainWaits \/ Reconnect
  BY <1>3, MainReadsKeeps, MainWaitsKeeps, ReconnectKeeps
<1>4. CASE \/ Send \/ WriteFailed \/ Sent \/ Published \/ PublishFailed \/ Wait \/ Waited
           \/ ReadCorrupted \/ RecvError \/ ReadFailed \/ TopicName \/ OneToOne \/ Body
           \/ NoMemory
  BY <1>4, QuietDriver, Zenon
<1>5. CASE Metadata \/ Emit \/ PublishStart \/ ReadNothing \/ Switch
  BY <1>5, TimedDriver, Zenon
<1>6. CASE \/ CopyTopicName \/ AllocatePeerMessage \/ AllocatePeer
           \/ AllocateClientId \/ AllocateLogging
  BY <1>6, HandlerAllocates, Zenon
<1>7. CASE AllocateTopic \/ AllocatePayload \/ Track \/ Save
  BY <1>7, MessageDriver, Zenon
<1>8. CASE Saved \/ GiveUp \/ Acked \/ Free \/ ReadAPacket
  BY <1>8, FreeingDriver, Zenon
<1> QED
  BY <1>1, <1>2, <1>3, <1>4, <1>5, <1>6, <1>7, <1>8, Zenon

LEMMA NextKeeps ==
    CallsInv /\ [CallsNext]_callsVars => CallsInv'
<1> SUFFICES ASSUME CallsInv, [CallsNext]_callsVars PROVE CallsInv'
  OBVIOUS
<1>1. CASE Restart
  BY <1>1, RestartKeeps
<1>2. CASE heap.misused = 0 /\ Driver
  BY <1>2, DriverKeeps
<1>3. CASE Network
  BY <1>3, ArrivesKeeps, LineBreaksKeeps, Zenon DEF Network
<1>4. CASE UNCHANGED callsVars
  <2>1. UNCHANGED <<stack, serverLoggingEnabled, age, since, enabled, publishCount,
                    ipstackCorrupted, contents, heap, lastPubTopic, lastPubPayload,
                    waitingForPuback, pubAckRecvAttempts, handlerAttached, line, inbox,
                    packets, guaranteed, unanswered>>
    BY <1>4 DEF callsVars, loggingVars, lineVars, pubVars, serverVars
  <2>2. CountInv' /\ line' \in {"up", "broken"} /\ unanswered' \in 0..1
    BY <2>1 DEF CallsInv, CountInv, Pending, TypeInv
  <2> QED
    BY <2>1, <2>2, OutsideKeeps
<1> QED
  BY <1>1, <1>2, <1>3, <1>4, Zenon DEF CallsNext

(* What is shown of every step and every state below is about this one. *)
LEMMA InvHolds == CallsSpec => []CallsInv
<1>1. CallsInit => CallsInv
  BY InitIsInv
<1>2. CallsInv /\ [CallsNext]_callsVars => CallsInv'
  BY NextKeeps
<1> QED
  BY <1>1, <1>2, PTL DEF CallsSpec

-----------------------------------------------------------------------------
(* The theorems.                                                           *)

(* The variables have their types: the frames are those of the calls of    *)
(* the driver, and the server has asked for logs no more often than it has *)
(* sent packets on the connection.                                         *)
THEOREM TypeCorrect == CallsSpec => []CallsTypeOK
<1>1. ASSUME CallsInv PROVE CallsTypeOK
  <2>1. enabled \in 0..MaxPackets
    <3>1. stack \in Seq(Frames) /\ CountInv /\ MaxPackets \in Nat
      BY <1>1, CallsAssumption DEF CallsInv, StackOK, CallsAssumption
    <3>2. Cardinality(Pending) \in Nat
      BY <3>1, PendingFinite
    <3>3. Len(inbox) \in Nat
      BY <3>1 DEF CountInv
    <3> QED
      BY <3>1, <3>2, <3>3 DEF CountInv
  <2> QED
    BY <1>1, <2>1 DEF CallsInv, StackOK, TypeInv, HeapType, CallsTypeOK
<1> QED
  BY <1>1, InvHolds, PTL

(* The body of a handler, and its switch of the logs, find in readbuf the  *)
(* packet they were called for, unless the server has asked for logs.      *)
THEOREM PayloadIsIntact == CallsSpec => []PayloadIntact
<1>1. ASSUME CallsInv PROVE PayloadIntact
  <2>1. ASSUME At("body") \/ At("switch") PROVE contents = Top.n \/ enabled > 0
    <3>1. stack # <<>> /\ (Top.at = "body" \/ Top.at = "switch")
      BY <2>1, Zenon DEF At
    <3>2. Top.at \in Active
      BY <3>1, Zenon DEF Active
    <3>3. Len(stack) \in DOMAIN stack /\ Top = stack[Len(stack)] /\ enabled \in Nat
      BY <1>1, <3>1, TopFrame DEF CallsInv, CountInv
    <3>4. enabled = 0 => Top.n = contents
      BY <1>1, <3>2, <3>3 DEF CallsInv, PayloadInv
    <3> QED
      BY <3>3, <3>4
  <2> QED
    BY <2>1, Zenon DEF PayloadIntact
<1> QED
  BY <1>1, InvHolds, PTL

(* The live blocks of the heap never overlap while they are freed in       *)
(* reverse order, and the only ones that are not are those of a guaranteed *)
(* message, at its PUBACK, while another call has a block to free.         *)
THEOREM HeapIsSound == CallsSpec => []HeapSound
<1>1. ASSUME CallsInv PROVE HeapSound
  <2>1. heap.misused \in 0..1 /\ HeapInv
    BY <1>1 DEF CallsInv, TypeInv, HeapType
  <2>2. heap.misused = 0 => Stacked(heap)
    BY <2>1 DEF HeapInv, Sound, IsHeap
  <2> QED
    BY <2>1, <2>2 DEF HeapSound, HeapInv
<1> QED
  BY <1>1, InvHolds, PTL

(* The first time that the server asks for logs they are sent to it for as *)
(* long as the limit says, and a second.                                   *)
THEOREM LogsAreInTime == CallsSpec => LogsInWindow
<1>1. ASSUME CallsInv
      PROVE  [Send /\ Top.kind = "log" /\ enabled = 1
                => since <= EXPIRY_SECONDS + 1]_callsVars
  <2>1. ASSUME Send, Top.kind = "log", enabled = 1 PROVE since <= EXPIRY_SECONDS + 1
    <3>1. At("send")
      BY <2>1 DEF Send
    <3> QED
      BY <1>1, <2>1, <3>1 DEF CallsInv, WindowInv, InTime
  <2> QED
    BY <2>1, Zenon
<1> QED
  BY <1>1, InvHolds, PTL DEF LogsInWindow

(* The logs about a connection that is lost fail one inside the other, but *)
(* each of them has waited a second: the recursion is no deeper than the   *)
(* seconds for which the server gets logs, once for each of its wishes.    *)
THEOREM RecursionIsBounded == CallsSpec => []RecursionBounded
<1>1. CallsInv => RecursionBounded
  <2> SUFFICES ASSUME CallsInv PROVE RecursionBounded
    OBVIOUS
  <2>1. StackOK /\ TypeInv /\ CountInv /\ DepthInv
    BY DEF CallsInv
  <2>2. {k \in DOMAIN stack : /\ stack[k].at \in {"failed", "corrupted"}
                              /\ stack[k].kind \in {"log", "notice"}}
          = {k \in 1..((Len(stack) + 1) - 1) : Fails(stack[k])}
    BY <2>1 DEF StackOK, Fails
  <2>3. Cardinality({k \in DOMAIN stack : /\ stack[k].at \in {"failed", "corrupted"}
                                          /\ stack[k].kind \in {"log", "notice"}}) = Depth
    BY <2>2 DEF Depth, Below
  <2>4. /\ EXPIRY_SECONDS \in Nat /\ enabled \in Nat /\ Earlier \in Int
        /\ Spent \in 0..(EXPIRY_SECONDS + 2)
        /\ Earlier + EXPIRY_SECONDS + 2 = (EXPIRY_SECONDS + 2) * enabled
    BY <2>1, Budget, Zenon
  <2>5. Depth \in Nat
    <3>1. Len(stack) + 1 \in Nat \ {0}
      BY <2>1 DEF StackOK
    <3> QED
      BY <3>1, BelowIs DEF Depth
  <2>6. Depth <= (EXPIRY_SECONDS + 2) * enabled
    <3> DEFINE most == (EXPIRY_SECONDS + 2) * enabled
    <3>1. most = Earlier + EXPIRY_SECONDS + 2
      BY <2>4
    <3>2. enabled = 0 => most = 0
      BY <2>4
    <3> HIDE DEF most
    <3>3. enabled = 0 => Depth <= most
      BY <2>1, <3>2 DEF DepthInv
    <3>4. enabled # 0 => Depth <= Earlier + Spent
      BY <2>1 DEF DepthInv
    <3>5. Depth <= most
      BY <2>4, <2>5, <3>1, <3>3, <3>4
    <3> QED
      BY <3>5 DEF most
  <2> QED
    BY <2>3, <2>6 DEF RecursionBounded
<1> QED
  BY <1>1, InvHolds, PTL

=============================================================================
