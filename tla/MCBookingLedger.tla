--------------------------- MODULE MCBookingLedger ---------------------------
(* Instances of BookingLedger, with the search beside it, for TLC. *)
EXTENDS AvailabilitySearch, TLC

\* Rooms, users and booking ids are interchangeable.
Interchangeable ==
  Permutations(Rooms) \cup Permutations(Users) \cup Permutations(BookingIds)
=============================================================================
