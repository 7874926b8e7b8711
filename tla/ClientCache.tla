------------------------------ MODULE ClientCache ------------------------------
(***************************************************************************)
(* The connections of the language server (internal/lsp/handler.go): every *)
(* command and save runs in a goroutine of its own, takes its client from  *)
(* getOrConnectClient, which holds h.mu while it connects, and then uses   *)
(* it without the lock.  shutdown closes every client in the map.          *)
(*                                                                         *)
(* Each goroutine opens at most one connection, so a connection is named   *)
(* by the goroutine that opened it.                                        *)
(***************************************************************************)
EXTENDS Integers, FiniteSets

CONSTANTS
  Use,         \* the goroutines that run a command or a save
  Nobody,      \* no goroutine: a free mutex, no entry in the map
  Profile,     \* the profiles of sftp.json
  ConfigName,  \* cfg.Name of each profile, "" when it has none
  Host,        \* cfg.Host of each profile
  MaxDrops     \* bound on the connections the network or the server ends

ASSUME CacheAssumption ==
  /\ Nobody \notin Use
  /\ ConfigName \in [Profile -> STRING]
  /\ Host \in [Profile -> STRING]
  /\ MaxDrops \in Nat

\* Faulty variant: the map is keyed by host alone.
Key_HostOnly(p) == Host[p]

\* The map's key for a profile.
Key(p) == IF ConfigName[p] = "" THEN Host[p] ELSE ConfigName[p]
Keys == {ConfigName[p] : p \in Profile} \cup {Host[p] : p \in Profile}

VARIABLES
  mu,        \* the holder of h.mu while it connects
  clients,   \* h.clients: key -> connection
  conn,      \* state of the connection each goroutine opened
  pc,        \* control point of each goroutine
  prof,      \* the profile it resolved
  held,      \* the connection it was given
  shutdown,  \* has closeAll run?
  drops      \* connections ended by the other side so far

cacheVars == <<mu, clients, conn, pc, prof, held, shutdown, drops>>

Control == {"idle", "lock", "connect", "install", "using", "done", "failed"}
Ended == {"done", "failed"}

TypeOK ==
  /\ mu \in Use \cup {Nobody}
  /\ mu # Nobody => pc[mu] \in {"connect", "install"}
  /\ clients \in [Keys -> Use \cup {Nobody}]
  /\ conn \in [Use -> {"none", "open", "dropped", "closed"}]
  /\ pc \in [Use -> Control]
  /\ prof \in [Use -> Profile]
  /\ held \in [Use -> Use \cup {Nobody}]
  /\ shutdown \in BOOLEAN
  /\ drops \in 0 .. MaxDrops

--------------------------------------------------------------------------------

CacheInit ==
  /\ mu = Nobody
  /\ clients = [k \in Keys |-> Nobody]
  /\ conn = [u \in Use |-> "none"]
  /\ pc = [u \in Use |-> "idle"]
  /\ prof \in [Use -> Profile]
  /\ held = [u \in Use |-> Nobody]
  /\ shutdown = FALSE
  /\ drops = 0

\* handleExecuteCommand or handleDidSave starts runCommand; an editor sends
\* nothing more once it has asked for the shutdown.
Begin(u) ==
  /\ pc[u] = "idle"
  /\ ~shutdown
  /\ pc' = [pc EXCEPT ![u] = "lock"]
  /\ UNCHANGED <<mu, clients, conn, prof, held, shutdown, drops>>

\* Lock and lookup: a client in the map is returned, whatever has become of its
\* connection.
Hit(u) ==
  /\ pc[u] = "lock"
  /\ mu = Nobody
  /\ clients[Key(prof[u])] # Nobody
  /\ held' = [held EXCEPT ![u] = clients[Key(prof[u])]]
  /\ pc' = [pc EXCEPT ![u] = "using"]
  /\ UNCHANGED <<mu, clients, conn, prof, shutdown, drops>>

\* Faulty variant: the lock is given up before Connect.
Miss_Unlocked(u) ==
  /\ pc[u] = "lock"
  /\ mu = Nobody
  /\ clients[Key(prof[u])] = Nobody
  /\ pc' = [pc EXCEPT ![u] = "connect"]
  /\ UNCHANGED <<mu, clients, conn, prof, held, shutdown, drops>>

\* No client yet: the lock is kept while New and Connect run.
Miss(u) ==
  /\ pc[u] = "lock"
  /\ mu = Nobody
  /\ clients[Key(prof[u])] = Nobody
  /\ mu' = u
  /\ pc' = [pc EXCEPT ![u] = "connect"]
  /\ UNCHANGED <<clients, conn, prof, held, shutdown, drops>>

Connect(u) ==
  /\ pc[u] = "connect"
  /\ conn' = [conn EXCEPT ![u] = "open"]
  /\ pc' = [pc EXCEPT ![u] = "install"]
  /\ UNCHANGED <<mu, clients, prof, held, shutdown, drops>>

\* Faulty variant: the lock is not released on the error path.
ConnectFails_Locked(u) ==
  /\ pc[u] = "connect"
  /\ pc' = [pc EXCEPT ![u] = "failed"]
  /\ UNCHANGED <<mu, clients, conn, prof, held, shutdown, drops>>

\* New or Connect returns an error; the deferred Unlock runs.
ConnectFails(u) ==
  /\ pc[u] = "connect"
  /\ pc' = [pc EXCEPT ![u] = "failed"]
  /\ mu' = Nobody
  /\ UNCHANGED <<clients, conn, prof, held, shutdown, drops>>

\* h.clients[key] = c, return, Unlock.
Install(u) ==
  /\ pc[u] = "install"
  /\ clients' = [clients EXCEPT ![Key(prof[u])] = u]
  /\ held' = [held EXCEPT ![u] = u]
  /\ pc' = [pc EXCEPT ![u] = "using"]
  /\ mu' = Nobody
  /\ UNCHANGED <<conn, prof, shutdown, drops>>

\* The rest of runCommand: it fails when its connection is no longer open.  Its
\* other errors, of a file that is not there for one, are left out.
Finish(u) ==
  /\ pc[u] = "using"
  /\ pc' = [pc EXCEPT ![u] = IF conn[held[u]] = "open" THEN "done" ELSE "failed"]
  /\ UNCHANGED <<mu, clients, conn, prof, held, shutdown, drops>>

\* The server or the network ends an open connection: nobody is told.
Drop(u) ==
  /\ drops < MaxDrops
  /\ conn[u] = "open"
  /\ conn' = [conn EXCEPT ![u] = "dropped"]
  /\ drops' = drops + 1
  /\ UNCHANGED <<mu, clients, pc, prof, held, shutdown>>

Cached == {clients[k] : k \in Keys} \ {Nobody}

\* Faulty variant: the map is not replaced.
CloseAll_KeepsMap ==
  /\ ~shutdown
  /\ mu = Nobody
  /\ conn' = [u \in Use |-> IF u \in Cached THEN "closed" ELSE conn[u]]
  /\ shutdown' = TRUE
  /\ UNCHANGED <<mu, clients, pc, prof, held, drops>>

\* The shutdown request: every client in the map is closed, used or not.
CloseAll ==
  /\ ~shutdown
  /\ mu = Nobody
  /\ conn' = [u \in Use |-> IF u \in Cached THEN "closed" ELSE conn[u]]
  /\ clients' = [k \in Keys |-> Nobody]
  /\ shutdown' = TRUE
  /\ UNCHANGED <<mu, pc, prof, held, drops>>

CacheTerminated ==
  /\ shutdown
  /\ \A u \in Use : pc[u] \in Ended \cup {"idle"}
  /\ UNCHANGED cacheVars

\* A goroutine's own steps, once it has begun.
Step(u) ==
  Hit(u) \/ Miss(u) \/ Connect(u) \/ ConnectFails(u) \/ Install(u) \/ Finish(u)

CacheNext ==
  \/ \E u \in Use : Begin(u) \/ Step(u) \/ Drop(u)
  \/ CloseAll
  \/ CacheTerminated

CacheSpec == CacheInit /\ [][CacheNext]_cacheVars

\* Goroutines run, and Connect returns.  Of a server that accepts the connection and
\* then says nothing this is an assumption: connectTimeout covers the TCP dial and,
\* for FTP, later reads, not the SSH handshake, a proxy command or the hops.
CacheFairSpec == CacheSpec /\ \A u \in Use : WF_cacheVars(Step(u))

--------------------------------------------------------------------------------

\* "creating one if it doesn't exist yet": a connection that was opened and not
\* closed is the one in the map under its profile's key, or is about to be by the
\* goroutine that holds the lock.  So no two unclosed connections share a key, and
\* closeAll misses none.
OneClient ==
  \A c \in Use :
    conn[c] \in {"open", "dropped"} =>
      clients[Key(prof[c])] = c \/ (mu = c /\ pc[c] = "install")

\* Profiles that go by one name: a name given twice, two without a name on one host
\* (be they of different users, ports or protocols), or one named like the host of one
\* without a name.
Unnamed(p, host) == ConfigName[p] = "" /\ Host[p] = host
Mistakable(p, q) ==
  \/ ConfigName[p] # "" /\ (ConfigName[q] = ConfigName[p] \/ Unnamed(q, ConfigName[p]))
  \/ Unnamed(p, Host[p]) /\ (ConfigName[q] = Host[p] \/ Unnamed(q, Host[p]))

\* "returns a connected client for the given config": what a command works on is the
\* server of the profile it resolved, with one exception, in which the code does not do
\* what the comment says: of profiles that go by one name, all get the client of the
\* one that connected first, also when that is on another port or another user's.
OwnServer ==
  \A u \in Use :
    pc[u] = "using" => prof[held[u]] = prof[u] \/ Mistakable(prof[u], prof[held[u]])

\* closeAll and getOrConnectClient exclude each other: no command is given a
\* client that closeAll had closed.
NeverGivenClosed ==
  [][\A u \in Use :
       pc[u] # "using" /\ pc'[u] = "using" => conn'[held'[u]] # "closed"]_cacheVars

\* Every command and save ends, although they queue for the lock behind a Connect.
UsesEnd == \A u \in Use : pc[u] = "lock" ~> pc[u] \in Ended
================================================================================
