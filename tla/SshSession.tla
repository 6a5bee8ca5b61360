----------------------------- MODULE SshSession -----------------------------
(***************************************************************************)
(* The SSH facade (facades/ssh.py).  A library owns the transport: it asks *)
(* the facade's server object about each credential, and starts a shell    *)
(* for each session an authenticated connection opens, in a task of its    *)
(* own.  The facade keeps in _conns, under id(conn), which connection an   *)
(* object is; ids of freed objects are used again, and a shell may run     *)
(* after its connection.                                                   *)
(*                                                                         *)
(* One action is one callback of the library or one turn of the shell.     *)
(***************************************************************************)
EXTENDS Integers

CONSTANTS
  SshObjects,     \* connection objects, that is their ids
  SshSessions,    \* bound: the sessions of one connection
  Planted,        \* cfg.accept_creds is not empty
  PasswordKept,   \* cfg.auth_methods is unmeasured or has "password"
  KbdintKept,     \* cfg.auth_methods has "keyboard-interactive"
  KeyKept,        \* cfg.auth_methods is unmeasured or has "publickey"
  MaxSshConns     \* bound: connections accepted

ASSUME SshAssumption ==
  /\ Planted \in BOOLEAN /\ PasswordKept \in BOOLEAN
  /\ KbdintKept \in BOOLEAN /\ KeyKept \in BOOLEAN
  /\ MaxSshConns \in Nat

VARIABLES
  sshPhase,    \* of the object's connection: "free", "made", "authed", "lost"
  sshConn,     \* the number of the connection the object stands for
  sshNext,     \* the number of the next connection
  sshMap,      \* _conns: object -> connection number, 0 when absent
  \* Of an object's sessions, each:
  sshShell,    \* "none", "started" (its task is scheduled), "running", "done"
  sshInfo,     \* the shell's `info`: a connection number, 0 for {}
  sshCommand,  \* the connection the shell's last command was attributed to
  \* History, for the properties only:
  sshLogged,   \* objects whose connection has a successful ssh_auth event
  sshEarly     \* sessions whose connection was lost before their shell ran

sshVars == <<sshPhase, sshConn, sshNext, sshMap, sshShell, sshInfo, sshCommand,
             sshLogged, sshEarly>>

NoCommand == -1
Each(value) == [s \in SshSessions |-> value]

SshInit ==
  /\ sshPhase = [o \in SshObjects |-> "free"]
  /\ sshConn = [o \in SshObjects |-> 0]
  /\ sshNext = 1
  /\ sshMap = [o \in SshObjects |-> 0]
  /\ sshShell = [o \in SshObjects |-> Each("none")]
  /\ sshInfo = [o \in SshObjects |-> Each(0)]
  /\ sshCommand = [o \in SshObjects |-> Each(NoCommand)]
  /\ sshLogged = {} /\ sshEarly = {}

(* An object is freed, and its id used again, once nothing refers to it:   *)
(* a shell that has not ended does.                                        *)
Freed(o) ==
  /\ sshPhase[o] \in {"free", "lost"}
  /\ \A s \in SshSessions : sshShell[o][s] \in {"none", "done"}

(* connection_made                                                         *)
SshMade(o) ==
  /\ Freed(o)
  /\ sshNext <= MaxSshConns
  /\ sshPhase' = [sshPhase EXCEPT ![o] = "made"]
  /\ sshConn' = [sshConn EXCEPT ![o] = sshNext]
  /\ sshNext' = sshNext + 1
  /\ sshMap' = [sshMap EXCEPT ![o] = sshNext]
  /\ sshShell' = [sshShell EXCEPT ![o] = Each("none")]
  /\ sshInfo' = [sshInfo EXCEPT ![o] = Each(0)]
  /\ sshCommand' = [sshCommand EXCEPT ![o] = Each(NoCommand)]
  /\ sshLogged' = sshLogged \ {o}
  /\ sshEarly' = sshEarly \ ({o} \X SshSessions)

(* password_auth_supported: a planted credential is always offered.  And   *)
(* kbdint_auth_supported: the library takes a password that way too.       *)
PasswordOffered == Planted \/ PasswordKept \/ KbdintKept

(* validate_password: accept_creds.get(username) == password.              *)
SshPassword(o, right) ==
  /\ sshPhase[o] = "made" /\ PasswordOffered
  /\ right => Planted
  /\ sshPhase' = [sshPhase EXCEPT ![o] = IF right THEN "authed" ELSE @]
  /\ sshLogged' = IF right THEN sshLogged \cup {o} ELSE sshLogged
  /\ UNCHANGED <<sshConn, sshNext, sshMap, sshShell, sshInfo, sshCommand, sshEarly>>

(* validate_public_key: logged as a failure, and refused.                  *)
SshKey(o) ==
  /\ sshPhase[o] = "made" /\ KeyKept
  /\ UNCHANGED sshVars

(* The library starts a session's process: a task for _shell.              *)
SshStart(o, s) ==
  /\ sshPhase[o] = "authed" /\ sshShell[o][s] = "none"
  /\ sshShell' = [sshShell EXCEPT ![o][s] = "started"]
  /\ UNCHANGED <<sshPhase, sshConn, sshNext, sshMap, sshInfo, sshCommand,
                 sshLogged, sshEarly>>

(* The first turn of _shell looks the connection up, once.  A command that *)
(* came with the request is logged at once and ends the shell.             *)
SshShellRuns(o, s, hasCommand) ==
  /\ sshShell[o][s] = "started"
  /\ sshInfo' = [sshInfo EXCEPT ![o][s] = sshMap[o]]
  /\ sshShell' = [sshShell EXCEPT ![o][s] = IF hasCommand THEN "done" ELSE "running"]
  /\ sshCommand' = [sshCommand EXCEPT ![o][s] = IF hasCommand THEN sshMap[o] ELSE @]
  /\ UNCHANGED <<sshPhase, sshConn, sshNext, sshMap, sshLogged, sshEarly>>

\* Mutation: the connection is looked up when the command is logged.
SshLineLookedUpLate(o, s, ends) ==
  /\ sshShell[o][s] = "running"
  /\ sshCommand' = [sshCommand EXCEPT ![o][s] = sshMap[o]]
  /\ sshShell' = [sshShell EXCEPT ![o][s] = IF ends THEN "done" ELSE @]
  /\ UNCHANGED <<sshPhase, sshConn, sshNext, sshMap, sshInfo, sshLogged, sshEarly>>

(* A line of the shell; the lines already received are read even after the *)
(* connection is lost.  exit and logout end it.                            *)
SshLine(o, s, ends) ==
  /\ sshShell[o][s] = "running"
  /\ sshCommand' = [sshCommand EXCEPT ![o][s] = sshInfo[o][s]]
  /\ sshShell' = [sshShell EXCEPT ![o][s] = IF ends THEN "done" ELSE @]
  /\ UNCHANGED <<sshPhase, sshConn, sshNext, sshMap, sshInfo, sshLogged, sshEarly>>

(* End of input.                                                           *)
SshShellEnds(o, s) ==
  /\ sshShell[o][s] = "running"
  /\ sshShell' = [sshShell EXCEPT ![o][s] = "done"]
  /\ UNCHANGED <<sshPhase, sshConn, sshNext, sshMap, sshInfo, sshCommand,
                 sshLogged, sshEarly>>

(* connection_lost                                                         *)
SshLost(o) ==
  /\ sshPhase[o] \in {"made", "authed"}
  /\ sshPhase' = [sshPhase EXCEPT ![o] = "lost"]
  /\ sshMap' = [sshMap EXCEPT ![o] = 0]
  /\ sshEarly' = sshEarly \cup ({o} \X {s \in SshSessions : sshShell[o][s] = "started"})
  /\ UNCHANGED <<sshConn, sshNext, sshShell, sshInfo, sshCommand, sshLogged>>

SshShell(o, s) ==
  \/ SshStart(o, s)
  \/ \E hasCommand \in BOOLEAN : SshShellRuns(o, s, hasCommand)
  \/ \E ends \in BOOLEAN : SshLine(o, s, ends)
  \/ SshShellEnds(o, s)

SshConnection(o) ==
  \/ SshMade(o)
  \/ \E right \in BOOLEAN : SshPassword(o, right)
  \/ SshKey(o)
  \/ SshLost(o)
  \/ \E s \in SshSessions : SshShell(o, s)

SshNext == \E o \in SshObjects : SshConnection(o)

SshSpec == SshInit /\ [][SshNext]_sshVars
-----------------------------------------------------------------------------
(* A command is attributed to the connection it came on, whose login is in *)
(* the log, whatever objects are freed and used again meanwhile; it is     *)
(* attributed to nobody only when that connection was lost between the     *)
(* library's scheduling of the shell and its first turn.                   *)
SshOwnCommands ==
  \A o \in SshObjects, s \in SshSessions :
    sshCommand[o][s] # NoCommand =>
      /\ o \in sshLogged /\ Planted
      /\ sshCommand[o][s] = IF <<o, s>> \in sshEarly THEN 0 ELSE sshConn[o]
=============================================================================
