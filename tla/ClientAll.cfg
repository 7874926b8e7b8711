\* SFTP clients with every mix of key, proxy and up to three jump hosts, one connection
\* lost; an FTP client that works on small trees beside another client of the server.
SPECIFICATION Spec
CONSTANTS
  Settings <- AllSettings
  MaxDrops = 1
  Name = {"d", "s", "f"}
  Trees <- AllTrees
  Operations <- AllOperations
  MaxOther = 2
  MaxFaults = 1
INVARIANTS Released Tunnelled RemovedIsGone MadeIsThere
PROPERTY RemovesOnlyBelow
