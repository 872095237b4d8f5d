------------------------------- MODULE MCConfig -------------------------------
(* Instances of Config for TLC: the interval of the compulsory reads, which *)
(* no process reads before it is registered, and that of the application,   *)
(* whose default is what the application asks for.                          *)
EXTENDS Config
CONSTANTS interval, business
Order == <<interval, business>>
AtStart == (interval :> 0) @@ (business :> 0)
Defaults == (interval :> 1) @@ (business :> 0)

=============================================================================
