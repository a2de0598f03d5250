-------------------------- MODULE MCBookingService --------------------------
(* Instances of BookingService for TLC. *)
EXTENDS BookingServiceProps, TLC

\* Sessions, rooms and users are interchangeable (booking ids are not: their order
\* is the scan order of the sweep).
Interchangeable == Permutations(Sessions) \cup Permutations(Rooms) \cup Permutations(Users)
=============================================================================
