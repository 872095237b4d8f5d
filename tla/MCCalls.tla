-------------------------------- MODULE MCCalls --------------------------------
(* The constants are numbers: Calls_nested.cfg gives them. *)
EXTENDS Calls

=============================================================================
