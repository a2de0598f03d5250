\* Two handlers over an administrator and up to two more accounts, with one session.
SPECIFICATION FairSpec
CONSTANTS
  Requests = {q1, q2}
  name = name
  mail1 = mail1
  mail2 = mail2
  KeySets <- SharedName
  MaxUsers = 3
  MaxSessions = 1
  None = None
INVARIANTS TypeOK UniqueNames NothingOrphaned
PROPERTIES AnswersAreTrue EveryRequestAnswered
