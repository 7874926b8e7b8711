------------------------------ MODULE Connection ------------------------------
(***************************************************************************)
(* One RemoteClient from New to Close (internal/client): the SFTP client    *)
(* with its jump hosts, proxy command and SSH agent, or the FTP client with *)
(* its control connection.                                                 *)
(*                                                                         *)
(* SSH connections are numbered in the order they are made: 1 .. Hops lead  *)
(* to the jump hosts and Target to the server.  What a client has open is a *)
(* set of resources, each with the number of the connection it belongs to   *)
(* and of the one it was dialled through.                                  *)
(***************************************************************************)
EXTENDS Integers, Sequences, FiniteSets

CONSTANTS
  Settings,     \* the sftp.json and ~/.ssh/config a client may be given
  MaxDrops      \* bound on the connections lost meanwhile

Keys == {"none", "good", "bad"}   \* no key file, one that loads, one that does not
Params == {"none", "other", "ProxyCommand"}   \* sshCustomParams

ASSUME ConnectionAssumption ==
  /\ \A s \in Settings :
       /\ s.protocol \in {"sftp", "ftp"}
       /\ s.key \in Keys /\ s.sshKey \in Keys
       /\ s.params \in Params /\ s.sshProxy \in BOOLEAN /\ s.agent \in BOOLEAN
       /\ s.hopsParse \in BOOLEAN /\ s.hopKeys \in Seq(Keys)
  /\ MaxDrops \in Nat

VARIABLES
  cfg,      \* the client's settings
  pc,       \* where Connect or Close stands
  link,     \* number of the connection that is being made
  open,     \* the resources that are open
  drops     \* connections lost so far

connVars == <<cfg, pc, link, open, drops>>

Hops == Len(cfg.hopKeys)
Target == Hops + 1

\* What the overlay of ~/.ssh/config leaves of the settings.
EffectiveKey == IF cfg.key = "none" THEN cfg.sshKey ELSE cfg.key
EffectiveProxy == cfg.params = "ProxyCommand" \/ (cfg.params = "none" /\ cfg.sshProxy)

Res(kind, of, via) == [kind |-> kind, of |-> of, via |-> via]
Ssh(i) == Res("ssh", i, i)
Agent(i) == Res("agent", i, 0)
Session == Res("sftp", Target, Target)
Control == Res("control", 1, 0)

\* Faulty variant: every connection is dialled through the first hop.
Current_First == IF link = 1 THEN 0 ELSE 1

\* The connection a new one is dialled through: none for the first.
Current == link - 1

\* What carries connection `link`: a channel of the previous one, the pipes of
\* the proxy process, or a socket.
Transport ==
  IF Current > 0 THEN Res("channel", link, Current)
  ELSE IF link = Target /\ EffectiveProxy THEN Res("proxy", link, 0)
  ELSE Res("socket", link, 0)

TypeOK ==
  /\ cfg \in Settings
  /\ pc \in {"new", "config", "dial", "handshake", "subsystem", "login",
             "connected", "failed", "closed"}
  /\ link \in 1 .. Target
  /\ \A r \in open :
       /\ r.kind \in {"ssh", "agent", "sftp", "control", "channel", "proxy", "socket"}
       /\ r.of \in 1 .. Target /\ r.via \in 0 .. Target
  /\ drops \in 0 .. MaxDrops

ConnInit ==
  /\ cfg \in Settings
  /\ pc = "new"
  /\ link = 1
  /\ open = {}
  /\ drops = 0

\* What closing connection i closes: itself and what carries it.  A session on
\* it ends with it.
Closing(i) == {r \in open : r.of = i /\ r.kind # "agent"}

Fail(closed) == pc' = "failed" /\ open' = open \ closed

\* buildSSHConfig for connection i: a key that cannot be loaded is an error,
\* an agent that cannot be reached is not.  Nothing ever closes the socket to
\* the agent.
BuildSSHConfig(i, key) ==
  \/ /\ key = "bad"
     /\ Fail({})
  \/ /\ key # "bad"
     /\ pc' = "config"
     /\ \/ open' = open
        \/ cfg.agent /\ open' = open \cup {Agent(i)}

\* Connect of the SFTP client: the target's configuration comes first.
Connect ==
  /\ pc = "new" /\ cfg.protocol = "sftp"
  /\ BuildSSHConfig(Target, EffectiveKey)
  /\ UNCHANGED <<cfg, link, drops>>

HopConfigs ==
  /\ pc = "config" /\ link = 1 /\ ~cfg.hopsParse
  /\ Fail({})
  /\ UNCHANGED <<cfg, link, drops>>

\* The body of the loop over the hops up to its dial; after the last hop the
\* target is dialled with the configuration built at the start.
HopConfig ==
  /\ pc = "config" /\ cfg.hopsParse
  /\ IF link <= Hops
     THEN \/ /\ cfg.hopKeys[link] = "bad"
             /\ Fail({})
          \/ /\ cfg.hopKeys[link] # "bad"
             /\ pc' = "dial"
             /\ \/ open' = open
                \/ cfg.agent /\ open' = open \cup {Agent(link)}
     ELSE pc' = "dial" /\ open' = open
  /\ UNCHANGED <<cfg, link, drops>>

Carried == Current = 0 \/ Ssh(Current) \in open

\* net.Dial, Dial of the previous connection, or the start of the proxy command.
Dial ==
  /\ pc = "dial"
  /\ \/ /\ Carried
        /\ pc' = "handshake" /\ open' = open \cup {Transport}
     \/ Fail({})
  /\ UNCHANGED <<cfg, link, drops>>

\* NewClientConn closes what carries it when the handshake fails.
Handshake ==
  /\ pc = "handshake"
  /\ \/ /\ Transport \in open
        /\ open' = open \cup {Ssh(link)}
        /\ IF link = Target
           THEN pc' = "subsystem" /\ link' = link
           ELSE pc' = "config" /\ link' = link + 1
     \/ Fail({Transport}) /\ link' = link
  /\ UNCHANGED <<cfg, drops>>

\* Faulty variant: the target's connection is not closed.
OpenSubsystem_KeepsTarget ==
  /\ pc = "subsystem"
  /\ \/ /\ Ssh(Target) \in open
        /\ pc' = "connected" /\ open' = open \cup {Session}
     \/ Fail({})
  /\ UNCHANGED <<cfg, link, drops>>

\* pkgsftp.NewClient, and the Close of the target when it fails.
OpenSubsystem ==
  /\ pc = "subsystem"
  /\ \/ /\ Ssh(Target) \in open
        /\ pc' = "connected" /\ open' = open \cup {Session}
     \/ Fail(Closing(Target))
  /\ UNCHANGED <<cfg, link, drops>>

\* Connect of the FTP client.
FtpDial ==
  /\ pc = "new" /\ cfg.protocol = "ftp"
  /\ \/ pc' = "login" /\ open' = {Control}
     \/ Fail({})
  /\ UNCHANGED <<cfg, link, drops>>

FtpLogin ==
  /\ pc = "login"
  /\ \/ /\ Control \in open
        /\ pc' = "connected" /\ open' = open
     \/ Fail({Control})
  /\ UNCHANGED <<cfg, link, drops>>

\* Close: the session and the target's connection, or Quit.
Close ==
  /\ pc = "connected"
  /\ pc' = "closed"
  /\ open' = open \ (IF cfg.protocol = "ftp" THEN {Control} ELSE Closing(Target))
  /\ UNCHANGED <<cfg, link, drops>>

\* A server goes away: the connections through it are lost as well.  Nobody is
\* told.
Drop ==
  /\ drops < MaxDrops
  /\ \E r \in open :
       /\ r.kind \in {"ssh", "channel", "proxy", "socket", "control"}
       /\ open' = {q \in open : q.kind = "agent" \/ q.of < r.of}
  /\ drops' = drops + 1
  /\ UNCHANGED <<cfg, pc, link>>

ConnNext == \/ Connect \/ HopConfigs \/ HopConfig \/ Dial \/ Handshake
            \/ OpenSubsystem \/ FtpDial \/ FtpLogin \/ Close \/ Drop

ConnSpec == ConnInit /\ [][ConnNext]_connVars

(***************************************************************************)
(* Properties.                                                             *)
(***************************************************************************)
\* Once Connect has returned an error, at whatever step it failed and whatever
\* was lost meanwhile, or Close has returned, nothing that belongs to the
\* server is left: no connection, session, channel, control connection or
\* proxy process.  The connections to the jump hosts and the agent's sockets
\* are not claimed: nothing closes them.
Released ==
  pc \in {"failed", "closed"} =>
    \A r \in open : r.kind = "agent" \/ (cfg.protocol = "sftp" /\ r.of <= Hops)

\* The server is reached through every jump host in the order of the settings,
\* never around one and never through the proxy command as well: each
\* connection after the first runs in a channel of the one before it, which is
\* still up, and an SFTP session runs on the target's connection.
Tunnelled ==
  \A r \in open :
    /\ r.kind = "ssh" /\ r.of > 1 => Res("channel", r.of, r.of - 1) \in open
    /\ r.kind = "channel" => r.via = r.of - 1 /\ Ssh(r.via) \in open
    /\ r.kind = "sftp" => Ssh(Target) \in open
    /\ r.kind = "proxy" => Hops = 0
=============================================================================
