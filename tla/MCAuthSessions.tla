--------------------------- MODULE MCAuthSessions ---------------------------
(* Instances of AuthSessions for TLC. *)
EXTENDS AuthSessions, TLC

\* The handlers are interchangeable.
Interchangeable == Permutations(Requests)
=============================================================================
