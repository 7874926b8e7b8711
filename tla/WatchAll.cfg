\* Files and a directory come and go, with --delete and with --dry-run.
SPECIFICATION FairSpec
CONSTANTS
  File = {"f", "d/g"}
  Dir = {"d"}
  Parent <- Parents
  Root = "."
  Preexisting = {"d"}
  Flags <- AllFlags
  MaxEdits = 4
  MaxFaults = 1
INVARIANTS
  TypeOK
  Uploaded
  DirsWatched
PROPERTIES
  CatchesUp
