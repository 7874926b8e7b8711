------------------------------ MODULE FrontEnds ------------------------------
(***************************************************************************)
(* The two ways to use the program on one workspace: commands of the        *)
(* command line (internal/cli/commands.go), each a process that reads       *)
(* sftp.json, connects, does one thing and closes; and an editor's session  *)
(* (internal/lsp/handler.go), which reads sftp.json once.  Each turns what   *)
(* the user named into a local and a remote path and gives both to the       *)
(* Engine or to the remote file system.  What happens below these paths, and *)
(* what a failure leaves there, is in TransferTree, SyncDir and FileUpload:  *)
(* here a command is done as a whole or fails as a whole.                    *)
(*                                                                         *)
(* A file's content is the local path it was written at first, so that a    *)
(* file that has come to a wrong place can be told.                        *)
(***************************************************************************)
EXTENDS PathMapping

CONSTANTS
  Name,          \* the names of files and directories
  Workspace,     \* the directory whose .vscode holds sftp.json
  Configs,       \* what sftp.json may say: sequences of profiles
                 \* [name, remotePath, valid, delete]
  Cwds,          \* directories the user works in
  LocalArgs,     \* local arguments, relative to the current directory
  RemoteArgs,    \* remote arguments: [absolute, path]
  Profiles,      \* names given with --profile or configName, "" for none
  ConfigFlags,   \* files given with --config: [dir, vscode]
  EditorRoots,   \* directories the editor may be opened on
  LocalTree, RemoteTree,   \* the files at the start: path -> content
  HomeDir,       \* where the SSH server resolves an empty path
  MaxCommands    \* bound on the commands of both front ends

OneWay == {"localToRemote", "remoteToLocal"}
NoFlag == [dir |-> NoDir, vscode |-> FALSE]
Dir == <<>>      \* the "content" of a directory

ASSUME FrontEndsAssumption ==
  /\ Name \cap Special = {}
  /\ NoFlag \notin ConfigFlags
  /\ \A c \in Configs : c # <<>>
  /\ MaxCommands \in Nat

VARIABLES
  local, remote,   \* the two trees: path -> content
  config,          \* what sftp.json says
  editor,          \* the editor's session: its root and the profiles it read
  process,         \* the command that has connected, or Idle
  commands,        \* commands so far
  strayed          \* history: has the user named anything out of place?

vars == <<local, remote, config, editor, process, commands, strayed>>

(***************************************************************************)
(* What the Engine, Sync and the remote file system do with two paths.     *)
(***************************************************************************)
Under(tree, path) == {q \in DOMAIN tree : IsPrefix(path, q)}
Ancestors(path) == {SubSeq(path, 1, n) : n \in 0 .. Len(path) - 1}
IsFile(tree, path) == path \in DOMAIN tree /\ tree[path] # Dir
Moved(q, from, to) == to \o From(q, Len(from) + 1)

Copied(src, from, dst, to) ==
  LET new == {Moved(q, from, to) : q \in Under(src, from)}
  IN [q \in DOMAIN dst \cup new \cup Ancestors(to) |->
        IF q \in new THEN src[Moved(q, to, from)]
        ELSE IF q \in DOMAIN dst THEN dst[q] ELSE Dir]

\* Transfer, UploadFile and DownloadFile fail when the source is missing or a
\* file stands where a directory must be, or a directory where a file must.
CanCopy(src, from, dst, to) ==
  /\ from \in DOMAIN src
  /\ \A q \in Ancestors(to) : ~IsFile(dst, q)
  /\ \A q \in Under(src, from) :
       Moved(q, from, to) \in DOMAIN dst =>
         (IsFile(src, q) <=> IsFile(dst, Moved(q, from, to)))

Removed(tree, path) == [q \in DOMAIN tree \ Under(tree, path) |-> tree[q]]
Made(tree, path) ==
  [q \in DOMAIN tree \cup Ancestors(path) \cup {path} |->
     IF q \in DOMAIN tree THEN tree[q] ELSE Dir]

\* A one-way Sync without and with the removal of what the source has not; a
\* source that cannot be listed counts as empty.
Synced(src, from, dst, to, delete) ==
  LET extraneous == {q \in Under(dst, to) \ {to} : Moved(q, to, from) \notin DOMAIN src}
      kept == [q \in DOMAIN dst \ (IF delete THEN extraneous ELSE {}) |-> dst[q]]
  IN IF CanCopy(src, from, kept, to) THEN Copied(src, from, kept, to) ELSE kept

\* The server's view of a path the client sends.
Resolve(path) == IF path = <<>> THEN HomeDir ELSE Clean(path)

Request(op, l, r) == [op |-> op, local |-> l, remote |-> Resolve(r), delete |-> FALSE]
Nothing == Request("list", Workspace, <<Blank>>)

\* What a request leaves of the two trees.
Effect(req) ==
  LET l == req.local   r == req.remote IN
  CASE req.op = "upload" /\ CanCopy(local, l, remote, r) ->
         <<local, Copied(local, l, remote, r)>>
    [] req.op = "download" /\ CanCopy(remote, r, local, l) ->
         <<Copied(remote, r, local, l), remote>>
    [] req.op = "localToRemote" -> <<local, Synced(local, l, remote, r, req.delete)>>
    [] req.op = "remoteToLocal" -> <<Synced(remote, r, local, l, req.delete), remote>>
    [] req.op = "delete" -> <<local, Removed(remote, r)>>
    [] req.op = "mkdir" /\ (\A q \in Ancestors(r) \cup {r} : ~IsFile(remote, q)) ->
         <<local, Made(remote, r)>>
    [] OTHER -> <<local, remote>>

Apply(req) == LET both == Effect(req) IN local' = both[1] /\ remote' = both[2]

(***************************************************************************)
(* sftp.json.                                                              *)
(***************************************************************************)
\* Load: one profile that lacks a host, a user or a remote path fails them all.
Loads(profiles) == \A i \in DOMAIN profiles : profiles[i].valid

NoProfile == [name |-> "", remotePath |-> <<>>, valid |-> FALSE, delete |-> FALSE]

\* selectProfile and resolveConfig: the first profile, or the first of a name.
SelectProfile(profiles, name) ==
  LET fits == {i \in DOMAIN profiles : name \in {"", profiles[i].name}}
  IN IF fits = {} THEN NoProfile ELSE profiles[CHOOSE i \in fits : \A j \in fits : i <= j]

(***************************************************************************)
(* The command line.  A call is [cmd, arg, remoteArg, cwd, profile, dryRun,  *)
(* delete, flag] as the user typed it.                                     *)
(***************************************************************************)
ResolveConfigPath(c) ==
  IF c.flag # NoFlag THEN c.flag
  ELSE [dir |-> FindConfigFile(c.cwd, {Workspace}), vscode |-> TRUE]
ResolveLocalPath(c) == Clean(c.cwd \o c.arg)

Root(c) == WorkspaceRootFor(ResolveConfigPath(c), c.cwd)

UploadCmd(c, base) ==
  LET l == ResolveLocalPath(c)
  IN IF c.dryRun THEN Nothing ELSE Request("upload", l, LocalToRemote(l, Root(c), base))

DownloadCmd(c, base) ==
  LET r == ResolveRemotePath(c.remoteArg, base)
      l == IF c.arg # <<>> THEN ResolveLocalPath(c)
           ELSE DefaultLocalDestination(r, base, Root(c), c.cwd)
  IN IF c.dryRun THEN Nothing ELSE Request("download", l, r)

\* --dry-run is not looked at.
SyncCmd(c, base) ==
  LET l == ResolveLocalPath(c)
  IN [Request(c.cmd, l, LocalToRemote(l, Root(c), base)) EXCEPT !.delete = c.delete]

DeleteCmd(c, base) ==
  IF c.dryRun THEN Nothing
  ELSE Request("delete", Workspace, ResolveRemotePath(c.remoteArg, base))

\* Nor here.
MkdirCmd(c, base) == Request("mkdir", Workspace, ResolveRemotePath(c.remoteArg, base))

\* watch maps the watched directory, wherever it is, to remotePath itself; here
\* every file below it has been saved once and none removed (module Watch has the
\* removals, which watch --delete mirrors with --dry-run too).
WatchCmd(c, base) ==
  LET l == ResolveLocalPath(c)
  IN IF c.dryRun THEN Nothing ELSE Request("upload", l, LocalToRemote(l, l, base))

Cli(c, base) ==
  CASE c.cmd = "upload" -> UploadCmd(c, base)
    [] c.cmd = "download" -> DownloadCmd(c, base)
    [] c.cmd \in OneWay -> SyncCmd(c, base)
    [] c.cmd = "delete" -> DeleteCmd(c, base)
    [] c.cmd = "mkdir" -> MkdirCmd(c, base)
    [] c.cmd = "watch" -> WatchCmd(c, base)
    [] c.cmd = "list" -> Nothing

(***************************************************************************)
(* The editor.  A command is [cmd, localPath, remotePath, configName];      *)
(* the project commands may come without a local path (NoDir).             *)
(***************************************************************************)
ProjectLocal(e, root) == IF e.localPath = NoDir THEN root ELSE e.localPath

\* Whether a sync removes is not asked of the user, but of the profile's syncOption.
RunCommand(e, root, profile) ==
  LET base == profile.remotePath IN
  CASE e.cmd = "upload" ->
         Request("upload", e.localPath, LocalToRemote(e.localPath, root, base))
    [] e.cmd = "download" ->
         Request("download", RemoteToLocalPath(e.remotePath, base, root), e.remotePath)
    [] e.cmd = "upload.project" -> Request("upload", ProjectLocal(e, root), base)
    [] e.cmd = "download.project" -> Request("download", ProjectLocal(e, root), base)
    [] e.cmd \in OneWay ->
         [Request(e.cmd, e.localPath, base) EXCEPT !.delete = profile.delete]
    [] e.cmd \in {"delete", "mkdir"} -> Request(e.cmd, Workspace, e.remotePath)
    [] OTHER -> Nothing

(***************************************************************************)
(* The sessions.                                                           *)
(***************************************************************************)
CliCommands == {"upload", "download", "localToRemote", "remoteToLocal", "delete",
                "mkdir", "watch", "list"}
RemoteOnly == {"delete", "mkdir", "list"}
Here == [absolute |-> FALSE, path |-> <<>>]

\* What the user may type; no argument and "." are the same, and a download
\* has a destination when it has a local argument.
Calls(cmd) ==
  [cmd : {cmd}, cwd : Cwds, profile : Profiles, flag : ConfigFlags \cup {NoFlag},
   dryRun : BOOLEAN, delete : IF cmd \in OneWay THEN BOOLEAN ELSE {FALSE},
   arg : IF cmd \in RemoteOnly THEN {<<>>} ELSE LocalArgs,
   remoteArg : IF cmd \in RemoteOnly \cup {"download"} THEN RemoteArgs ELSE {Here}]

Idle == [state |-> "idle"]

InsideBase(r, base) == IsPrefix(TrimRight(base), r)

\* Has the user named something that has no counterpart on the other side: a
\* local path outside the workspace, a remote one outside remotePath, a
\* destination, a directory to watch other than the workspace, or a
\* configuration that stands in no workspace?
CliStrays(c, base) ==
  \/ c.flag # NoFlag /\ ~c.flag.vscode
  \/ c.cmd \in {"upload"} \cup OneWay /\ ~IsPrefix(Workspace, ResolveLocalPath(c))
  \/ c.cmd = "watch" /\ ResolveLocalPath(c) # Workspace
  \/ c.cmd = "download" /\ (c.arg # <<>> \/ (c.remoteArg.absolute /\ ~InsideBase(c.remoteArg.path, base)))

ProjectCommands == {"upload.project", "download.project"}

\* The editor's project and sync commands are given the directory remotePath
\* stands for, or none, its other commands a path on either side.
EditorStrays(e, base) ==
  \/ e.cmd = "upload" /\ ~IsPrefix(Workspace, e.localPath)
  \/ e.cmd = "download" /\ ~InsideBase(e.remotePath, base)
  \/ e.cmd \in ProjectCommands \cup OneWay /\ e.localPath \notin {Workspace, NoDir}

EditorCommands ==
  ProjectCommands \cup OneWay \cup {"upload", "download", "delete", "mkdir", "list"}

\* handleInitialize: the root is what the editor says, wherever the search for
\* sftp.json ends; a file that does not load leaves the session without profiles.
Initialize(root, profiles) ==
  [root |-> root,
   profiles |-> IF FindConfigFile(root, {Workspace}) # NoDir /\ Loads(profiles)
                THEN profiles ELSE <<>>]

Init ==
  /\ local = LocalTree /\ remote = RemoteTree
  /\ config \in Configs
  /\ \E root \in EditorRoots : editor = Initialize(root, config)
  /\ process = Idle
  /\ commands = 0
  /\ strayed = FALSE

\* A command starts: connect() finds and loads sftp.json, selects the profile,
\* and connects.  On any error the process ends and nothing has happened.
Start(c) ==
  LET profile == SelectProfile(config, c.profile)
      found == ResolveConfigPath(c).dir # NoDir
  IN
  /\ process = Idle /\ commands < MaxCommands
  /\ found /\ Loads(config) /\ profile # NoProfile
  /\ process' = [state |-> "connected", request |-> Cli(c, profile.remotePath),
                 dryRun |-> c.dryRun, base |-> profile.remotePath,
                 inside |-> ~c.remoteArg.absolute /\ ~CliStrays(c, profile.remotePath)]
  /\ commands' = commands + 1
  /\ strayed' = (strayed \/ CliStrays(c, profile.remotePath))
  /\ UNCHANGED <<local, remote, config, editor>>

\* What the command is there for, and the deferred Close.
Run ==
  /\ process # Idle
  /\ Apply(process.request)
  /\ process' = Idle
  /\ UNCHANGED <<config, editor, commands, strayed>>

\* handleExecuteCommand and runCommand; a save is the command "upload".
ExecuteCommand(e) ==
  LET profile == SelectProfile(editor.profiles, e.configName) IN
  /\ commands < MaxCommands
  /\ profile # NoProfile
  /\ Apply(RunCommand(e, editor.root, profile))
  /\ commands' = commands + 1
  /\ strayed' = (strayed \/ EditorStrays(e, profile.remotePath))
  /\ UNCHANGED <<config, editor, process>>

\* The user edits sftp.json; only commands that start later notice.
EditConfig ==
  /\ commands < MaxCommands
  /\ config' \in Configs \ {config}
  /\ UNCHANGED <<local, remote, editor, process, commands, strayed>>

\* A file of the workspace is lost.
Lose ==
  /\ \E f \in DOMAIN local : IsFile(local, f) /\ local' = Removed(local, f)
  /\ UNCHANGED <<remote, config, editor, process, commands, strayed>>

Terminated == commands = MaxCommands /\ process = Idle /\ UNCHANGED vars

Next ==
  \/ \E cmd \in CliCommands : \E c \in Calls(cmd) : Start(c)
  \/ Run
  \/ \E cmd \in EditorCommands, l \in DOMAIN LocalTree \cup {NoDir}, r \in RemoteArgs,
        name \in Profiles :
       /\ r.absolute
       /\ l = NoDir => cmd \in ProjectCommands
       /\ ExecuteCommand([cmd |-> cmd, localPath |-> l, remotePath |-> r.path,
                          configName |-> name])
  \/ EditConfig
  \/ Lose
  \/ Terminated

Spec == Init /\ [][Next]_vars

(***************************************************************************)
(* Properties.                                                             *)
(***************************************************************************)
\* What both front ends take for granted, so that paths can be compared: the
\* paths of the two trees and of directories are clean; a remote argument does not
\* climb (".."); --config names the workspace's own sftp.json or one that is in no
\* .vscode; no remotePath is the server's root, lies in another one, or ends in
\* more than one slash; and what is there at the start is in its place.
Part == Name \cup Special
RemoteBases == UNION {{Clean(c[i].remotePath) : i \in DOMAIN c} : c \in Configs}
InOwnPlace(tree, place) ==
  \A q \in Under(tree, place) : tree[q] \in {Moved(q, place, Workspace), Dir}

Orderly ==
  /\ {Workspace, HomeDir} \cup Cwds \cup EditorRoots \subseteq Seq(Name)
  /\ DOMAIN LocalTree \cup DOMAIN RemoteTree \subseteq Seq(Name)
  /\ LocalArgs \subseteq Seq(Part)
  /\ RemoteArgs \subseteq [absolute : BOOLEAN, path : Seq(Part \ {".."})]
  /\ \A flag \in ConfigFlags : flag.vscode => flag.dir = Workspace
  /\ \A d \in DOMAIN NameTail : NameTail[d] \in Part
  /\ Configs \subseteq Seq([name : STRING, remotePath : Seq(Part),
                          valid : BOOLEAN, delete : BOOLEAN])
  /\ \A c \in Configs : \A i \in DOMAIN c :
       LET base == c[i].remotePath
       IN TrimRight(base) # <<>> /\ base \in {TrimRight(base), Append(TrimRight(base), Blank)}
  /\ \A b1, b2 \in RemoteBases : IsPrefix(b1, b2) => b1 = b2
  /\ InOwnPlace(LocalTree, Workspace)
  /\ \A base \in RemoteBases : InOwnPlace(RemoteTree, base)

\* The two front ends agree on where a file lives, in both directions and from
\* every directory: whatever sequence of commands has run, as long as nothing
\* out of place was named and the editor is opened on the workspace, a file of
\* the workspace has its own content, and a file under the remotePath of a
\* profile that of its counterpart.
InPlace ==
  ~strayed /\ editor.root = Workspace =>
    /\ InOwnPlace(local, Workspace)
    /\ \A base \in RemoteBases : InOwnPlace(remote, base)

\* A command that names nothing outside the workspace touches nothing outside
\* it: on the server nothing beside the remotePath of the profile asked for,
\* although arguments are joined with it as strings, and locally nothing
\* beside the workspace, from whatever directory it is called.  At most it makes
\* the directories above them, where they are missing.
Touched(old, new) ==
  {q \in DOMAIN old \cup DOMAIN new :
     ~(q \in DOMAIN old /\ q \in DOMAIN new /\ old[q] = new[q])}
OnlyBelow(place, old, new) ==
  \A q \in Touched(old, new) : IsPrefix(place, q) \/ q \in Ancestors(place) \ DOMAIN old
StaysInside ==
  [][process # Idle /\ process' = Idle /\ process.inside =>
       /\ OnlyBelow(Clean(process.base), remote, remote')
       /\ OnlyBelow(Workspace, local, local')]_vars

\* --dry-run shows what would be done without doing it: no command given the
\* flag changes either side (internal/cli/commands.go, help of the flag).
DryRunChangesNothing ==
  [][process # Idle /\ process' = Idle /\ process.dryRun => UNCHANGED <<local, remote>>]_vars
=============================================================================
