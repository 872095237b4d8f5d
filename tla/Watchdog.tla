------------------------------- MODULE Watchdog -------------------------------
(***************************************************************************)
(* The software watchdog (common/instamsg/driver/watchdog.c) over that of  *)
(* the Linux port (device_watchdog.c).  The driver's thread guards its     *)
(* blocking calls with watchdog_reset_and_enable / watchdog_disable; a     *)
(* second thread counts the seconds down.  They share five variables and   *)
(* no lock, so every access to one of them is an action of its own: a      *)
(* decrement is a load and a store.                                        *)
(*                                                                         *)
(* Both threads announce a reset in the log.  While the server has asked   *)
(* for logs, that announcement is published (log.c), and the write of      *)
(* sendPacket() sets up a guard of its own, in whichever thread it is.     *)
(***************************************************************************)
EXTENDS Integers

CONSTANTS
    Guards,             \* the guards in use: seconds, immediate, has a callback
    SendPacketGuard     \* the one of sendPacket()

ASSUME GuardsAssumption ==
    /\ Guards # {}
    /\ \A g \in Guards :
        /\ g \in [n : Nat \ {0}, immediate : 0..1, callback : 0..1]
        \* every immediate guard of the driver is disabled without a callback
        /\ g.immediate + g.callback = 1
    /\ SendPacketGuard \in Guards /\ SendPacketGuard.immediate = 1

VARIABLES
    pc, guard,          \* the driver's thread, and the guard it is using
    reporting,          \* it is publishing that it is about to reset
    serverLoggingEnabled,   \* logs are published
    watchdog_expired, watchdog, watchdog_time, immediate_reboot,
    tpc, loaded,        \* the watchdog's thread, and its copy of the time
    \* history: the seconds since the guard was set up, and whether the
    \* watchdog's thread was awake while the guard was being set up
    elapsed, raced

logVars    == <<reporting, serverLoggingEnabled>>
driverVars == <<pc, guard, logVars>>
sharedVars == <<watchdog_expired, watchdog, watchdog_time, immediate_reboot>>
threadVars == <<tpc, loaded>>
history    == <<elapsed, raced>>
vars == <<driverVars, sharedVars, threadVars, history>>

Setup == {"enable", "time", "immediate"}

(* A time below zero never becomes zero again (in 68 years), so that -1    *)
(* stands for all of them; time above the guard's is not counted either.   *)
AtLeastMinusOne(t) == IF t < 0 THEN -1 ELSE t

Seconds(e) == IF e > guard.n THEN guard.n + 1 ELSE e

(* exitApp(): the process ends, and all of its state with it.              *)
Reset ==
    /\ pc' = "down" /\ tpc' = "sleep" /\ loaded' = 0
    /\ watchdog_expired' = 0 /\ watchdog' = 0
    /\ watchdog_time' = 0 /\ immediate_reboot' = 0
    /\ reporting' = 0 /\ serverLoggingEnabled' = 0
    /\ UNCHANGED <<guard, history>>

-----------------------------------------------------------------------------
(* The driver's thread.                                                    *)

(* init_watchdog starts the other thread.                                  *)
InitWatchdog ==
    /\ pc = "down"
    /\ pc' = "idle"
    /\ UNCHANGED <<guard, logVars, sharedVars, threadVars, history>>

(* The server enables or disables the logs, in a packet read between two   *)
(* guarded calls.                                                          *)
ServerLoggingTopicMessage ==
    /\ pc = "idle"
    /\ serverLoggingEnabled' = 1 - serverLoggingEnabled
    /\ UNCHANGED <<pc, guard, reporting, sharedVars, threadVars, history>>

(* Mutant: the flag of an earlier guard is not cleared. *)
SetUpKeepingExpired(g) ==
    /\ pc' = "enable" /\ guard' = g
    /\ elapsed' = 0 /\ raced' = IF tpc # "sleep" THEN 1 ELSE 0
    /\ UNCHANGED <<watchdog_expired, watchdog, watchdog_time, immediate_reboot,
                   serverLoggingEnabled, threadVars>>

(* watchdog_reset_and_enable, and then, in this order, what                *)
(* do_watchdog_reset_and_enable writes.                                    *)
SetUp(g) ==
    /\ pc' = "enable" /\ guard' = g
    /\ watchdog_expired' = 0
    /\ elapsed' = 0 /\ raced' = IF tpc # "sleep" THEN 1 ELSE 0
    /\ UNCHANGED <<watchdog, watchdog_time, immediate_reboot,
                   serverLoggingEnabled, threadVars>>

Enable(g) ==
    /\ pc = "idle"
    /\ SetUp(g)
    /\ UNCHANGED reporting

SetWatchdog ==
    /\ pc = "enable"
    /\ pc' = "time"
    /\ watchdog' = 1
    /\ UNCHANGED <<guard, logVars, watchdog_expired, watchdog_time, immediate_reboot,
                   threadVars, history>>

(* Mutant: minutes for seconds. *)
SetMinutes ==
    /\ pc = "time"
    /\ pc' = "immediate"
    /\ watchdog_time' = 60 * guard.n
    /\ UNCHANGED <<guard, logVars, watchdog_expired, watchdog, immediate_reboot,
                   threadVars, history>>

SetTime ==
    /\ pc = "time"
    /\ pc' = "immediate"
    /\ watchdog_time' = guard.n
    /\ UNCHANGED <<guard, logVars, watchdog_expired, watchdog, immediate_reboot,
                   threadVars, history>>

(* Mutant: the flag keeps the value an earlier guard gave it. *)
SetNothing ==
    /\ pc = "immediate"
    /\ pc' = "guarded"
    /\ UNCHANGED <<guard, logVars, sharedVars, threadVars, history>>

SetImmediate ==
    /\ pc = "immediate"
    /\ pc' = "guarded"
    /\ immediate_reboot' = guard.immediate
    /\ UNCHANGED <<guard, logVars, watchdog_expired, watchdog, watchdog_time,
                   threadVars, history>>

(* The blocking call returns, and watchdog_disable ...                     *)
Disable ==
    /\ pc = "guarded"
    /\ pc' = "check"
    /\ watchdog' = 0
    /\ UNCHANGED <<guard, logVars, watchdog_expired, watchdog_time, immediate_reboot,
                   threadVars, history>>

(* ... looks whether the time was exceeded.  The callback does nothing;    *)
(* without one the device is reset, once that has been logged.             *)
CheckExpired ==
    /\ pc = "check"
    /\ \/ /\ watchdog_expired = 1 /\ guard.callback = 0
          /\ serverLoggingEnabled = 1
          /\ SetUp(SendPacketGuard)
          /\ reporting' = 1
       \/ /\ watchdog_expired = 1 /\ guard.callback = 0
          /\ serverLoggingEnabled = 0
          /\ Reset
       \/ /\ watchdog_expired = 0 \/ guard.callback = 1
          /\ IF reporting = 1
             THEN Reset
             ELSE /\ pc' = "idle"
                  /\ UNCHANGED <<guard, logVars, sharedVars, threadVars, history>>

(* sync_time_through_NTP fails, and leaves its guard enabled.              *)
FailureInTimeSyncing ==
    /\ pc = "guarded" /\ guard.immediate = 1 /\ reporting = 0
    /\ pc' = "idle"
    /\ UNCHANGED <<guard, logVars, sharedVars, threadVars, history>>

Driver ==
    \/ InitWatchdog
    \/ ServerLoggingTopicMessage
    \/ \E g \in Guards : Enable(g)
    \/ SetWatchdog
    \/ SetTime
    \/ SetImmediate
    \/ Disable
    \/ CheckExpired
    \/ FailureInTimeSyncing

-----------------------------------------------------------------------------
(* watchdog_func: once a second.                                           *)

Wake ==
    /\ tpc = "sleep" /\ pc # "down"
    /\ tpc' = "test"
    /\ elapsed' = IF watchdog = 1 THEN Seconds(elapsed + 1) ELSE elapsed
    /\ raced' = IF pc \in Setup THEN 1 ELSE raced
    /\ UNCHANGED <<driverVars, sharedVars, loaded>>

TestWatchdog ==
    /\ tpc = "test"
    /\ tpc' = IF watchdog = 1 THEN "load" ELSE "sleep"
    /\ UNCHANGED <<driverVars, sharedVars, loaded, history>>

LoadTime ==
    /\ tpc = "load"
    /\ tpc' = "store"
    /\ loaded' = watchdog_time
    /\ UNCHANGED <<driverVars, sharedVars, history>>

StoreTime ==
    /\ tpc = "store"
    /\ tpc' = "compare"
    /\ watchdog_time' = AtLeastMinusOne(loaded - 1)
    /\ UNCHANGED <<driverVars, watchdog_expired, watchdog, immediate_reboot,
                   loaded, history>>

CompareTime ==
    /\ tpc = "compare"
    /\ tpc' = IF watchdog_time = 0 THEN "expire" ELSE "sleep"
    /\ UNCHANGED <<driverVars, sharedVars, loaded, history>>

(* Mutant: only an immediate guard is marked. *)
ExpireImmediate ==
    /\ tpc = "expire"
    /\ tpc' = "reboot"
    /\ watchdog_expired' = immediate_reboot
    /\ UNCHANGED <<driverVars, watchdog, watchdog_time, immediate_reboot,
                   loaded, history>>

Expire ==
    /\ tpc = "expire"
    /\ tpc' = "reboot"
    /\ watchdog_expired' = 1
    /\ UNCHANGED <<driverVars, watchdog, watchdog_time, immediate_reboot,
                   loaded, history>>

(* print_rebooting_message and exitApp.                                    *)
RebootImmediately ==
    /\ tpc = "reboot"
    /\ \/ /\ immediate_reboot = 0
          /\ tpc' = "sleep"
          /\ UNCHANGED <<driverVars, sharedVars, loaded, history>>
       \/ /\ immediate_reboot = 1 /\ serverLoggingEnabled = 0
          /\ Reset
       \/ /\ immediate_reboot = 1 /\ serverLoggingEnabled = 1
          /\ tpc' = "log.enable"
          /\ watchdog_expired' = 0
          /\ UNCHANGED <<driverVars, watchdog, watchdog_time, immediate_reboot,
                         loaded, history>>

(* sendPacket() in this thread: its guard, which nobody counts down, ...   *)
LogSetWatchdog ==
    /\ tpc = "log.enable"
    /\ tpc' = "log.time"
    /\ watchdog' = 1
    /\ UNCHANGED <<driverVars, watchdog_expired, watchdog_time,
                   immediate_reboot, loaded, history>>

LogSetTime ==
    /\ tpc = "log.time"
    /\ tpc' = "log.immediate"
    /\ watchdog_time' = SendPacketGuard.n
    /\ UNCHANGED <<driverVars, watchdog_expired, watchdog, immediate_reboot,
                   loaded, history>>

LogSetImmediate ==
    /\ tpc = "log.immediate"
    /\ tpc' = "log.write"
    /\ immediate_reboot' = 1
    /\ UNCHANGED <<driverVars, watchdog_expired, watchdog, watchdog_time,
                   loaded, history>>

(* ... its write, which may hang like any other, ...                       *)
LogWritten ==
    /\ tpc = "log.write"
    /\ tpc' = "log.exit"
    /\ watchdog' = 0
    /\ UNCHANGED <<driverVars, watchdog_expired, watchdog_time,
                   immediate_reboot, loaded, history>>

(* ... and the reset: whatever watchdog_disable finds, exitApp follows.    *)
LogExit ==
    /\ tpc = "log.exit"
    /\ Reset

(* What this thread does unaided: everything but that write.               *)
Thread ==
    \/ Wake
    \/ TestWatchdog
    \/ LoadTime
    \/ StoreTime
    \/ CompareTime
    \/ Expire
    \/ RebootImmediately
    \/ LogSetWatchdog
    \/ LogSetTime
    \/ LogSetImmediate
    \/ LogExit

-----------------------------------------------------------------------------
Init ==
    /\ pc = "down" /\ guard \in Guards
    /\ watchdog_expired = 0 /\ watchdog = 0
    /\ watchdog_time = 0 /\ immediate_reboot = 0
    /\ tpc = "sleep" /\ loaded = 0
    /\ elapsed = 0 /\ raced = 0
    /\ reporting = 0 /\ serverLoggingEnabled = 0

Next == Driver \/ Thread \/ LogWritten

(* The watchdog's thread keeps running, but for its write; the driver's    *)
(* may hang anywhere.                                                      *)
Spec == Init /\ [][Next]_vars /\ WF_vars(Thread)

-----------------------------------------------------------------------------
(* Properties                                                              *)

Logging == {"log.enable", "log.time", "log.immediate", "log.write", "log.exit"}

Times == {-1} \cup UNION {0..g.n : g \in Guards}

(* The type of every variable. *)
TypeOK ==
    /\ pc \in {"down", "idle", "guarded", "check"} \cup Setup
    /\ guard \in Guards
    /\ watchdog_expired \in 0..1 /\ watchdog \in 0..1
    /\ immediate_reboot \in 0..1
    /\ watchdog_time \in Times /\ loaded \in Times
    /\ tpc \in {"sleep", "test", "load", "store", "compare", "expire",
                "reboot"} \cup Logging
    /\ reporting \in 0..1 /\ serverLoggingEnabled \in 0..1
    /\ elapsed \in 0..(guard.n + 1)
    /\ raced \in 0..1

(* The device is reset, or begins to report that it will be, only when the *)
(* time of the guard is over (or that of an earlier guard was, when it is  *)
(* reporting), unless the watchdog's thread was awake while the guard was  *)
(* being set up.                                                           *)
ResetIsDue ==
    [][(pc # "down" /\ pc' = "down") \/ (reporting = 0 /\ reporting' = 1)
          => elapsed >= guard.n \/ raced = 1 \/ reporting = 1]_vars

(* Once the guard's time is over and the thread has acted on it, the       *)
(* expiry is on record for watchdog_disable, or the device was reset,      *)
(* unless the set-up was interfered with, or the thread is publishing.     *)
ExpiryNoticed ==
    (pc = "guarded" /\ raced = 0 /\ tpc \notin Logging
        /\ (elapsed > guard.n \/ (elapsed = guard.n /\ tpc = "sleep")))
    => watchdog_expired = 1

(* A guarded call that hangs does not hang the device: an immediate guard  *)
(* resets it, unless the set-up was interfered with, or the reset is to be *)
(* published first.                                                        *)
HangIsReset ==
    ~ <>[](/\ pc = "guarded" /\ guard.immediate = 1
           /\ raced = 0 /\ serverLoggingEnabled = 0)

=============================================================================
