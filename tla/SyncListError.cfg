\* A List call fails on a directory that exists.
SPECIFICATION Spec
CONSTANTS
  Name = {"a", "b"}
  Depth = 2
  Calls <- DeleteCalls
  Ignored = {}
  Now = 2
  MaxFaults = 0
  MaxListFaults = 1
PROPERTIES
  DeletesOnlyExtraneous
