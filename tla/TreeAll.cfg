\* Any small tree one task at a time, full trees two at a time, with a failing call
\* and a file removed meanwhile; "log" is ignored.
SPECIFICATION FairSpec
CONSTANTS
  Name = {"a", "b", "log"}
  Depth = 2
  Calls <- SmallCalls
  Ignored = {"log"}
  MaxEdits = 1
  MaxFaults = 1
INVARIANTS
  TypeOK
  Arrived
  Confined
  CopiesBounded
PROPERTIES
  TransferReturns
