----------------------------- MODULE MCAccounts -----------------------------
(* Instances of Accounts for TLC. *)
EXTENDS Accounts, TLC

CONSTANTS u1, robot
MCStart == u1 :> 2 @@ robot :> 9
=============================================================================
