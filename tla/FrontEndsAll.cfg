\* Two commands of either front end from three directories, two profiles in two orders,
\* a remotePath with and without a slash at its end, sftp.json edited between.
SPECIFICATION Spec
CONSTANTS
  NameTail <- NameTailDef
  Name <- NameDef
  Workspace <- WorkspaceDef
  Configs <- ConfigsDef
  Cwds <- CwdsDef
  LocalArgs <- LocalArgsDef
  RemoteArgs <- RemoteArgsDef
  Profiles <- ProfilesDef
  ConfigFlags <- ConfigFlagsDef
  EditorRoots <- EditorRootsDef
  LocalTree <- LocalTreeDef
  RemoteTree <- RemoteTreeDef
  HomeDir <- HomeDirDef
  MaxCommands = 2
INVARIANT InPlace
PROPERTY StaysInside
