----------------------------- MODULE MCAccounts -----------------------------
(* Two registrations that share the username. *)
EXTENDS Accounts

CONSTANTS name, mail1, mail2
SharedName == {{name, mail1}, {name, mail2}}
=============================================================================
