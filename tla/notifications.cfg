\* One booking, its two jobs competing for one worker process, any number of failures.
SPECIFICATION FairSpec
CONSTANTS
  Bookings = {b1}
  PoolSize = 1
INVARIANTS TypeOK MailsBounded CancellationIsTrue LateConfirmationAtMostOnce
PROPERTIES EveryJobEnds
CHECK_DEADLOCK FALSE
