---------------------------- MODULE MCReminders ----------------------------
(* Bookings are interchangeable. *)
EXTENDS Reminders, TLC

Interchangeable == Permutations(BookingIds)
=============================================================================
