------------------------------ MODULE MCWatchdog ------------------------------
(* Instances of Watchdog for TLC: the immediate guards of the socket calls *)
(* and the guard of the SMS scan, with their times scaled down.            *)
EXTENDS Watchdog

Immediate(n)  == [n |-> n, immediate |-> 1, callback |-> 0]
WithCallback(n) == [n |-> n, immediate |-> 0, callback |-> 1]

SocketAndSmsGuards == {Immediate(2), Immediate(4), WithCallback(3)}
ShortGuard == Immediate(2)

=============================================================================
