----------------------------- MODULE PathMapping -----------------------------
(***************************************************************************)
(* Where a file of the workspace lives on the server and back: the path     *)
(* functions of the command line (internal/cli/commands.go), of the server  *)
(* for editors (internal/lsp/handler.go), and the search for sftp.json      *)
(* (internal/config/config.go).                                            *)
(*                                                                         *)
(* A local path is absolute and clean: the sequence of its names.  A remote *)
(* path is a string the code cuts and glues, so it is the sequence of what  *)
(* stands behind each slash: "/var/www" is <<"var", "www">>, "/var/www/" is *)
(* <<"var", "www", "">>, "/" is <<"">> and the empty string is <<>>.        *)
(* TrimRight(s, "/") + "/" + t is then TrimRight(s) \o t.                   *)
(***************************************************************************)
EXTENDS Integers, Sequences, SequencesExt

CONSTANT NameTail   \* for names that begin with another one: what is left of it,
                    \* <<"www2", "www">> |-> "2"

Blank == ""    \* what stands between two slashes in a row, or after the last one
Special == {Blank, ".", ".."}

\* What the operating system or filepath.Join makes of a path: one name after the
\* other is entered from the directory reached so far.
Enter(done, name) ==
  IF name \in {Blank, "."} THEN done
  ELSE IF name # ".." THEN Append(done, name)
  ELSE IF done = <<>> THEN done ELSE Front(done)
Clean(path) == FoldLeft(Enter, <<>>, path)

From(path, i) == SubSeq(path, i, Len(path))

\* strings.TrimRight(path, "/")
TrimRight(path) ==
  LET named == {i \in DOMAIN path : path[i] # Blank}
  IN IF named = {} THEN <<>> ELSE SubSeq(path, 1, CHOOSE i \in named : \A j \in named : j <= i)

\* filepath.Rel(base, path): "." is <<>>.
Rel(base, path) ==
  IF IsPrefix(base, path) THEN From(path, Len(base) + 1)
  ELSE LET shared == {n \in 0 .. Len(base) : IsPrefix(SubSeq(base, 1, n), path)}
           common == CHOOSE n \in shared : \A k \in shared : k <= n
       IN [i \in 1 .. Len(base) - common |-> ".."] \o From(path, common + 1)

\* localToRemote of the command line, localToRemotePath of the handler.
LocalToRemote(localPath, localBase, remoteBase) ==
  LET rel == Rel(localBase, localPath)
  IN IF rel = <<>> THEN remoteBase ELSE TrimRight(remoteBase) \o rel

\* Faulty variant: a relative argument is not joined with remotePath.
ResolveRemotePath_Bare(arg, remoteBase) == arg.path

\* resolveRemotePath: `absolute` says whether the argument begins with a slash.
\* "" and "." are <<>>.
ResolveRemotePath(arg, remoteBase) ==
  IF arg.absolute THEN arg.path ELSE TrimRight(remoteBase) \o arg.path

\* defaultLocalDestination: a path under remotePath mirrors its place in the
\* workspace, anything else is dropped into the current directory.
DefaultLocalDestination(remotePath, remoteBase, workspaceRoot, cwd) ==
  LET base == TrimRight(remoteBase)
  IN IF IsPrefix(base, remotePath)
     THEN Clean(workspaceRoot \o From(remotePath, Len(base) + 1))
     ELSE LET named == TrimRight(remotePath)
          IN IF named = <<>> THEN cwd ELSE Clean(Append(cwd, Last(named)))

\* strings.HasPrefix on remote paths: the last name of the prefix need not be
\* a whole name of the path.
HasPrefix(path, prefix) ==
  \/ prefix = <<>>
  \/ /\ Len(prefix) <= Len(path)
     /\ Front(prefix) = SubSeq(path, 1, Len(prefix) - 1)
     /\ LET name == path[Len(prefix)]
        IN Last(prefix) \in {Blank, name} \/ <<name, Last(prefix)>> \in DOMAIN NameTail
TrimPrefix(path, prefix) ==
  IF prefix = <<>> THEN path
  ELSE LET name == path[Len(prefix)]
           left == IF Last(prefix) = Blank THEN name
                   ELSE IF Last(prefix) = name THEN Blank ELSE NameTail[<<name, Last(prefix)>>]
       IN <<left>> \o From(path, Len(prefix) + 1)

StripSlash(rel) == IF rel # <<>> /\ Head(rel) = Blank THEN Tail(rel) ELSE rel

\* remoteToLocalPath of the handler: what is left of the path after the base,
\* under the local base; the local base itself for every other path.
RemoteToLocalPath(remotePath, remoteBase, localBase) ==
  IF HasPrefix(remotePath, remoteBase)
  THEN Clean(localBase \o StripSlash(TrimPrefix(remotePath, remoteBase)))
  ELSE localBase

\* FindConfigFile: the nearest directory, upwards, that holds .vscode/sftp.json.
NoDir == <<"no such directory">>
FindConfigFile(startDir, holders) ==
  LET found == {n \in 0 .. Len(startDir) : SubSeq(startDir, 1, n) \in holders}
  IN IF found = {} THEN NoDir
     ELSE SubSeq(startDir, 1, CHOOSE n \in found : \A k \in found : k <= n)

\* Faulty variant: the workspace is the current directory.
WorkspaceRootFor_Cwd(file, cwd) == cwd

\* workspaceRootFor: `vscode` says whether the file's directory is a .vscode.
WorkspaceRootFor(file, cwd) == IF file.vscode THEN file.dir ELSE cwd
=============================================================================
