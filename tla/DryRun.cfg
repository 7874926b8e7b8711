\* The same; "sync" and "mkdir" do not look at --dry-run.
SPECIFICATION Spec
CONSTANTS
  NameTail <- NameTailDef
  Name <- NameDef
  Workspace <- WorkspaceDef
  Configs <- ConfigsDef
  Cwds <- CwdsDef
  LocalArgs <- LocalArgsDef
  RemoteArgs <- RemoteArgsDef
  Profiles <- ProfilesDef
  ConfigFlags <- ConfigFlagsDef
  EditorRoots <- EditorRootsDef
  LocalTree <- LocalTreeDef
  RemoteTree <- RemoteTreeDef
  HomeDir <- HomeDirDef
  MaxCommands = 2

PROPERTY DryRunChangesNothing
