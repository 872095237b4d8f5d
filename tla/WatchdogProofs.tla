---------------------------- MODULE WatchdogProofs ----------------------------
(***************************************************************************)
(* Proofs about Watchdog, for every set of guards.  The accesses of the    *)
(* two threads interleave freely; what the proofs use is that a set-up the *)
(* watchdog's thread slept through leaves it with the guard's whole time.  *)
(***************************************************************************)
EXTENDS Watchdog, TLAPS

(* The time that is left of the guard, when e seconds have been counted.   *)
Enough(t, e) == e >= guard.n \/ t + e >= guard.n

(* Not more than the seconds that have passed has been taken off the time. *)
NotEarly ==
    raced = 0 =>
      /\ pc \in Setup => tpc = "sleep" /\ elapsed = 0 /\ watchdog_expired = 0
      /\ pc \in {"time", "immediate", "guarded"} /\ tpc # "log.exit" =>
           watchdog = 1
      /\ pc \in {"immediate", "guarded", "idle"} =>
           (tpc = "sleep" /\ watchdog = 1 => Enough(watchdog_time, elapsed))
      /\ tpc = "test" /\ watchdog = 1 => Enough(watchdog_time, elapsed - 1)
      /\ tpc = "load" => Enough(watchdog_time, elapsed - 1)
      /\ tpc = "store" => Enough(loaded, elapsed - 1)
      /\ tpc = "compare" => Enough(watchdog_time, elapsed)
      /\ tpc \in {"expire", "reboot"} \cup Logging => elapsed >= guard.n
      /\ watchdog_expired = 1 => elapsed >= guard.n

(* Until the expiry is on record, all the seconds have been taken off.     *)
NotLate ==
    /\ pc = "immediate" /\ raced = 0 => watchdog_time = guard.n
    /\ pc = "guarded" /\ raced = 0 /\ watchdog_expired = 0
         /\ tpc \notin Logging =>
         /\ elapsed <= guard.n /\ tpc # "reboot"
         /\ tpc = "sleep" =>
              elapsed < guard.n /\ watchdog_time = guard.n - elapsed
         /\ tpc \in {"test", "load"} =>
              elapsed >= 1 /\ watchdog_time = guard.n - elapsed + 1
         /\ tpc = "store" => elapsed >= 1 /\ loaded = guard.n - elapsed + 1
         /\ tpc = "compare" => watchdog_time = guard.n - elapsed
         /\ tpc = "expire" => elapsed = guard.n

(* No time is counted when nothing is guarded and nothing was left on.     *)
Off ==
    /\ pc = "down" => tpc = "sleep" /\ watchdog_expired = 0
    /\ pc = "down" => watchdog = 0 /\ reporting = 0
    /\ pc = "check" /\ tpc \notin Logging => watchdog = 0

IInv == TypeOK /\ NotEarly /\ NotLate /\ Off

(* The values a time can take.                                             *)
LEMMA TimesFacts ==
    /\ Times \subseteq Int /\ 0 \in Times /\ -1 \in Times
    /\ \A t \in Times : t >= -1 /\ AtLeastMinusOne(t - 1) \in Times
    /\ \A g \in Guards : g.n \in Times
<1>1. \A g \in Guards : g.n \in Nat \ {0}
  BY GuardsAssumption
<1>2. PICK g \in Guards : TRUE
  BY GuardsAssumption
<1>3. 0 \in 0..g.n
  BY <1>1
<1>4. Times \subseteq Int /\ 0 \in Times /\ -1 \in Times
  BY <1>1, <1>2, <1>3 DEF Times
<1>5. ASSUME NEW t \in Times
      PROVE  t >= -1 /\ AtLeastMinusOne(t - 1) \in Times
  <2>1. CASE t = -1
    BY <2>1, <1>4 DEF AtLeastMinusOne
  <2>2. CASE t # -1
    <3>1. PICK h \in Guards : t \in 0..h.n
      BY <2>2 DEF Times
    <3>2. CASE t = 0
      BY <3>2, <1>4 DEF AtLeastMinusOne
    <3>3. CASE t # 0
      <4>1. t - 1 \in 0..h.n /\ AtLeastMinusOne(t - 1) = t - 1
        BY <1>1, <3>1, <3>3 DEF AtLeastMinusOne
      <4>2. QED
        BY <4>1, <3>1 DEF Times
    <3>4. QED
      BY <3>2, <3>3
  <2>3. QED
    BY <2>1, <2>2
<1>6. \A g1 \in Guards : g1.n \in Times
  <2>1. TAKE g1 \in Guards
  <2>2. g1.n \in 0..g1.n
    BY <1>1
  <2>3. QED
    BY <2>2 DEF Times
<1>7. QED
  BY <1>4, <1>5, <1>6

LEMMA InitIInv == Init => IInv
<1>1. \A g \in Guards : g.n \in Nat \ {0}
  BY GuardsAssumption
<1>2. QED
  BY <1>1, TimesFacts
     DEF Init, IInv, TypeOK, NotEarly, NotLate, Off, Setup, Logging, Enough

(* Every access of either thread preserves the invariant.                  *)
LEMMA NextIInv == IInv /\ [Next]_vars => IInv'
<1> SUFFICES ASSUME IInv, [Next]_vars PROVE IInv'
  OBVIOUS
<1> USE DEF driverVars, logVars, sharedVars, threadVars, history, Setup, Logging
<1>g. /\ guard \in Guards /\ \A g \in Guards : g.n \in Nat \ {0}
      /\ \A g \in Guards : g.immediate \in 0..1
      /\ elapsed \in 0..(guard.n + 1) /\ guard.n \in Nat \ {0}
      /\ watchdog_time \in Int /\ loaded \in Int
      /\ SendPacketGuard \in Guards
  BY GuardsAssumption, TimesFacts DEF IInv, TypeOK
<1>r. ASSUME Reset, pc # "down" PROVE IInv'
  BY <1>r, <1>g, TimesFacts
     DEF Reset, IInv, TypeOK, NotEarly, NotLate, Off, Enough
<1>s. ASSUME NEW g \in Guards, SetUp(g), pc # "down", reporting' \in 0..1
      PROVE  IInv'
  BY <1>s, <1>g DEF SetUp, IInv, TypeOK, NotEarly, NotLate, Off, Enough
<1>1. CASE InitWatchdog
  BY <1>1, <1>g DEF InitWatchdog, IInv, TypeOK, NotEarly, NotLate, Off, Enough
<1>2. ASSUME NEW g \in Guards, Enable(g) PROVE IInv'
  BY <1>2, <1>s DEF Enable, IInv, TypeOK
<1>3. CASE SetWatchdog
  BY <1>3, <1>g DEF SetWatchdog, IInv, TypeOK, NotEarly, NotLate, Off, Enough
<1>4. CASE SetTime
  BY <1>4, <1>g, TimesFacts
     DEF SetTime, IInv, TypeOK, NotEarly, NotLate, Off, Enough
<1>5. CASE SetImmediate
  BY <1>5, <1>g DEF SetImmediate, IInv, TypeOK, NotEarly, NotLate, Off, Enough
<1>6. CASE Disable
  BY <1>6, <1>g DEF Disable, IInv, TypeOK, NotEarly, NotLate, Off, Enough
<1>7. CASE CheckExpired
  <2>1. CASE Reset
    BY <1>7, <2>1, <1>r DEF CheckExpired
  <2>2. CASE SetUp(SendPacketGuard) /\ reporting' = 1
    BY <1>7, <2>2, <1>s, <1>g DEF CheckExpired
  <2>3. CASE /\ pc = "check" /\ pc' = "idle"
             /\ UNCHANGED <<guard, logVars, sharedVars, threadVars, history>>
    BY <2>3, <1>g DEF IInv, TypeOK, NotEarly, NotLate, Off, Enough
  <2>4. QED
    BY <1>7, <2>1, <2>2, <2>3 DEF CheckExpired
<1>8. CASE FailureInTimeSyncing
  BY <1>8, <1>g
     DEF FailureInTimeSyncing, IInv, TypeOK, NotEarly, NotLate, Off, Enough
<1>9. CASE Wake
  BY <1>9, <1>g
     DEF Wake, Seconds, IInv, TypeOK, NotEarly, NotLate, Off, Enough
<1>10. CASE TestWatchdog
  BY <1>10, <1>g DEF TestWatchdog, IInv, TypeOK, NotEarly, NotLate, Off, Enough
<1>11. CASE LoadTime
  BY <1>11, <1>g DEF LoadTime, IInv, TypeOK, NotEarly, NotLate, Off, Enough
<1>12. CASE StoreTime
  BY <1>12, <1>g, TimesFacts
     DEF StoreTime, AtLeastMinusOne, IInv, TypeOK, NotEarly, NotLate, Off, Enough
<1>13. CASE CompareTime
  BY <1>13, <1>g DEF CompareTime, IInv, TypeOK, NotEarly, NotLate, Off, Enough
<1>14. CASE Expire
  BY <1>14, <1>g DEF Expire, IInv, TypeOK, NotEarly, NotLate, Off, Enough
<1>15. CASE RebootImmediately
  <2>1. CASE Reset
    <3>1. pc # "down"
      BY <1>15 DEF RebootImmediately, IInv, Off
    <3>2. QED
      BY <2>1, <3>1, <1>r
  <2>2. CASE ~Reset
    BY <1>15, <2>2, <1>g
       DEF RebootImmediately, IInv, TypeOK, NotEarly, NotLate, Off, Enough
  <2>3. QED
    BY <2>1, <2>2
<1>16. CASE ServerLoggingTopicMessage
  BY <1>16, <1>g
     DEF ServerLoggingTopicMessage, IInv, TypeOK, NotEarly, NotLate, Off, Enough
<1>17. CASE LogSetWatchdog
  BY <1>17, <1>g DEF LogSetWatchdog, IInv, TypeOK, NotEarly, NotLate, Off, Enough
<1>18. CASE LogSetTime
  BY <1>18, <1>g, TimesFacts
     DEF LogSetTime, IInv, TypeOK, NotEarly, NotLate, Off, Enough
<1>19. CASE LogSetImmediate
  BY <1>19, <1>g DEF LogSetImmediate, IInv, TypeOK, NotEarly, NotLate, Off, Enough
<1>20. CASE LogWritten
  BY <1>20, <1>g DEF LogWritten, IInv, TypeOK, NotEarly, NotLate, Off, Enough
<1>21. CASE LogExit
  <2>1. pc # "down"
    BY <1>21 DEF LogExit, IInv, Off
  <2>2. QED
    BY <1>21, <2>1, <1>r DEF LogExit
<1>22. CASE UNCHANGED vars
  BY <1>22 DEF vars, IInv, TypeOK, NotEarly, NotLate, Off, Enough
<1>23. QED
  BY <1>1, <1>2, <1>3, <1>4, <1>5, <1>6, <1>7, <1>8, <1>9, <1>10, <1>11,
     <1>12, <1>13, <1>14, <1>15, <1>16, <1>17, <1>18, <1>19, <1>20, <1>21,
     <1>22 DEF Next, Driver, Thread

LEMMA Invariance == Spec => []IInv
  BY InitIInv, NextIInv, PTL DEF Spec

(* The variables of the two threads have their types.                      *)
THEOREM TypeCorrect == Spec => []TypeOK
<1>1. IInv => TypeOK
  BY DEF IInv
<1>2. QED
  BY <1>1, Invariance, PTL

(* The expiry of a guard is never overlooked by the call that returns,     *)
(* unless the watchdog's thread was awake while the guard was set up.      *)
THEOREM ExpiryIsNoticed == Spec => []ExpiryNoticed
<1>1. IInv => ExpiryNoticed
  <2>1. IInv => watchdog_expired \in 0..1 /\ guard.n \in Nat
                /\ elapsed \in 0..(guard.n + 1)
    BY GuardsAssumption DEF IInv, TypeOK
  <2>2. QED
    BY <2>1 DEF IInv, NotLate, ExpiryNoticed
<1>2. QED
  BY <1>1, Invariance, PTL

(* The watchdog neither resets the device nor begins to report a reset     *)
(* before the guard's time is over, unless its thread was awake while the  *)
(* guard was set up.                                                       *)
THEOREM ResetOnlyWhenDue == Spec => ResetIsDue
<1> DEFINE Due == elapsed >= guard.n \/ raced = 1 \/ reporting = 1
           Resets == \/ pc # "down" /\ pc' = "down"
                     \/ reporting = 0 /\ reporting' = 1
<1>1. ASSUME IInv, [Next]_vars PROVE [Resets => Due]_vars
  <2>0. SUFFICES ASSUME Next, Resets, raced # 1, reporting # 1
                 PROVE  elapsed >= guard.n
    BY <1>1
  <2> HIDE DEF Due
  <2>r. raced = 0
    BY <1>1, <2>0 DEF IInv, TypeOK
  <2>1. CASE CheckExpired
    <3>1. watchdog_expired = 1
      BY <2>0, <2>1 DEF CheckExpired, driverVars, logVars
    <3>2. QED
      BY <1>1, <2>r, <3>1 DEF IInv, NotEarly
  <2>2. CASE RebootImmediately \/ LogExit
    <3>1. tpc \in {"expire", "reboot"} \cup Logging
      BY <2>2 DEF RebootImmediately, LogExit, Logging
    <3>2. QED
      BY <1>1, <2>r, <3>1 DEF IInv, NotEarly
  <2>3. QED
    BY <2>0, <2>1, <2>2
       DEF Next, Driver, Thread, InitWatchdog, Enable, SetUp, SetWatchdog, SetTime,
           SetImmediate, Disable, FailureInTimeSyncing, Wake, TestWatchdog,
           LoadTime, StoreTime, CompareTime, Expire, driverVars, logVars,
           ServerLoggingTopicMessage, LogSetWatchdog, LogSetTime,
           LogSetImmediate, LogWritten
<1>2. QED
  BY <1>1, Invariance, PTL DEF Spec, ResetIsDue

=============================================================================
