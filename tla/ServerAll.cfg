\* Whole sessions, with exit while commands are running, and two commands and a save
\* that write frames at the same time.
SPECIFICATION FairSpec
CONSTANTS
  Sessions <- All
INVARIANTS
  AnsweredOnce
  FramesWhole
  ProgressInOrder
PROPERTIES
  NothingLeftOpen
