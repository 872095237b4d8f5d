--------------------------- MODULE StoreAndForward ---------------------------
(***************************************************************************)
(* What the driver promises for a message published with guarantee, with   *)
(* no word of packets, ids, handlers, retries or connections.  A message   *)
(* is held while it is being sent, and waits in a rolling log otherwise.   *)
(* The driver lets go of a held message in three ways only: the server has *)
(* received it, it goes back to the log, or the process ends.  A device    *)
(* that runs out of memory may also lose the one message it works on.      *)
(***************************************************************************)
EXTENDS Naturals, Sequences

CONSTANTS
    Messages,
    Nothing,    \* no message is held; not one of Messages
    Capacity,   \* of the log, at least 1
    MayStarve   \* memory may run out

VARIABLES
    running,    \* there is a process
    accepted,   \* messages the application has handed over
    held,       \* the message being sent
    log,        \* the messages waiting, oldest first
    received,   \* messages the server has
    starved     \* an input: there was no memory for the last message

promiseVars == <<running, accepted, held, log, received>>

Store(queue, m) ==
    Append(IF Len(queue) < Capacity THEN queue ELSE Tail(queue), m)

PromiseInit ==
    /\ ~running
    /\ accepted = {} /\ held = Nothing /\ log = <<>> /\ received = {}

(* A new message is sent, or stored because it cannot be.                  *)
Accept(m) ==
    /\ running /\ held = Nothing /\ m \notin accepted
    /\ accepted' = accepted \cup {m}
    /\ \/ held' = m /\ UNCHANGED log
       \/ log' = Store(log, m) /\ UNCHANGED held
    /\ UNCHANGED <<running, received>>

(* The oldest stored message is sent, or stored again.                     *)
Forward ==
    /\ running /\ held = Nothing /\ log # <<>>
    /\ \/ held' = Head(log) /\ log' = Tail(log)
       \/ log' = Store(Tail(log), Head(log)) /\ UNCHANGED held
    /\ UNCHANGED <<running, accepted, received>>

Receive(m) ==
    /\ m \in accepted
    /\ received' = received \cup {m}
    /\ UNCHANGED <<running, accepted, held, log>>

(* The only way to forget a message on purpose.                            *)
Forget ==
    /\ running /\ held \in received
    /\ held' = Nothing
    /\ UNCHANGED <<running, accepted, log, received>>

PutBack ==
    /\ running /\ held # Nothing
    /\ log' = Store(log, held)
    /\ held' = Nothing
    /\ UNCHANGED <<running, accepted, received>>

(* No memory to track a new message, to put one back, or to send an old one. *)
Starve ==
    /\ running /\ MayStarve
    /\ \/ \E m \in Messages \ accepted :
             starved' /\ accepted' = accepted \cup {m} /\ UNCHANGED <<held, log>>
       \/ starved' /\ held' = Nothing /\ UNCHANGED <<accepted, log>>
       \/ /\ held = Nothing /\ log # <<>>
          /\ log' = Tail(log) /\ UNCHANGED <<accepted, held>>
    /\ UNCHANGED <<running, received>>

ProcessStarts ==
    /\ ~running /\ running'
    /\ UNCHANGED <<accepted, held, log, received>>

ProcessEnds ==
    /\ running /\ ~running'
    /\ held' = Nothing
    /\ UNCHANGED <<accepted, log, received>>

PromiseNext ==
    \/ \E m \in Messages : Accept(m) \/ Receive(m)
    \/ Forward
    \/ Forget
    \/ PutBack
    \/ Starve
    \/ ProcessStarts
    \/ ProcessEnds

Promise == PromiseInit /\ [][PromiseNext]_promiseVars

=============================================================================
