\* The flags in both one-way directions, update twice in a row, and both directions
\* at once; one failed call; "b" is ignored.
SPECIFICATION FairSpec
CONSTANTS
  Name = {"a", "b"}
  Depth = 2
  Calls <- AllCalls
  Ignored = {"b"}
  Now = 2
  MaxFaults = 1
  MaxListFaults = 0
INVARIANTS
  TypeOK
  OnlyWhatIsDue
  InLine
  UpdateSettles
  BothAgree
  SerialCounts
PROPERTIES
  OverwritesOnlyOlder
  SyncReturns
