----------------------------- MODULE DurableStore -----------------------------
(***************************************************************************)
(* What the device's storage promises: a rolling log of records and a map  *)
(* of settings, each operation all or nothing, whenever the device crashes.*)
(***************************************************************************)
EXTENDS Naturals, Sequences

CONSTANTS
    Records,
    Settings, Values, Unset,
    Capacity            \* of the log, at least 1

VARIABLES
    log,                \* oldest record first
    taken,              \* records handed out and not stored again
    settings,           \* the value of each setting, Unset if it has none
    heapless            \* an input: there is no heap for the settings now

storeVars == <<log, taken, settings>>

StoreInit ==
    log = <<>> /\ taken = {} /\ settings = [k \in Settings |-> Unset]

Push(r) ==
    /\ Len(log) < Capacity
    /\ r \notin {log[i] : i \in DOMAIN log}
    /\ log' = Append(log, r)
    /\ taken' = taken \ {r}
    /\ UNCHANGED settings

DropOldest ==
    /\ Len(log) = Capacity
    /\ log' = Tail(log)
    /\ UNCHANGED <<taken, settings>>

(* The record leaves the log before it is handed out: never twice.         *)
Take ==
    /\ log # <<>>
    /\ log' = Tail(log)
    /\ taken' = taken \cup {Head(log)}
    /\ UNCHANGED settings

Set(k, v) ==
    /\ settings' = [settings EXCEPT ![k] = v]
    /\ UNCHANGED <<log, taken>>

(* The one thing that is not all or nothing: the others are lost.          *)
SetAlone(k, v) ==
    /\ heapless
    /\ settings' = [s \in Settings |-> IF s = k THEN v ELSE Unset]
    /\ UNCHANGED <<log, taken>>

StoreNext ==
    \/ \E r \in Records : Push(r)
    \/ DropOldest
    \/ Take
    \/ \E k \in Settings, v \in Values \cup {Unset} : Set(k, v) \/ SetAlone(k, v)

Promise == StoreInit /\ [][StoreNext]_storeVars

=============================================================================
