\* Four tasks, two tokens: tasks queue for a token, fail in every order, and ctx may
\* be cancelled at any moment.  A goroutine started without a token may then block for
\* ever on s.sem, so the system really may stop.
SPECIFICATION FairSpec
CONSTANTS
  NTasks = 4
  Concurrency = 2
INVARIANTS
  ConcurrencyBound
  Outcome
PROPERTIES
  FirstErrorKept
  ImplementsPool
  ReturnsUncancelled
CHECK_DEADLOCK FALSE
