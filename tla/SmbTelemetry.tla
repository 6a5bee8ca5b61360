---------------------------- MODULE SmbTelemetry ----------------------------
(***************************************************************************)
(* The SMB facade (facades/smb.py).  A library owns the sockets and serves *)
(* each connection on a thread of its own; the facade configures it, hooks *)
(* some of its commands, and learns what happens from its log: a logging   *)
(* handler translates the records of a thread into events, and remembers   *)
(* under the thread's id whose connection it is and which logon is not yet *)
(* decided.  Thread ids are used again.  The log is the whole process's:   *)
(* one SMB facade per host is assumed, by the code and here.               *)
(*                                                                         *)
(* One action is what a thread does up to its next log record, with the    *)
(* translation of that record, which the handler's lock makes atomic.      *)
(***************************************************************************)
EXTENDS Integers, Sequences, FiniteSetsExt, SequencesExt

CONSTANTS
  SmbThreads,       \* thread ids
  SmbShares,        \* cfg.shares
  SmbRestricted,    \* those with restrict_anonymous
  HavePasswords,    \* some identity has a password
  RejectUnknown,    \* cfg.reject_unknown_users
  Smb1Enabled,      \* cfg.smb1_enabled
  SmbCeiling,       \* cfg.max_dialect
  SmbOffers,        \* the sets of dialects clients offer
  MaxSmbConns,      \* bound: connections accepted
  MaxLogons         \* bound: logons of one connection

VARIABLES
  smbOpen,       \* the threads that serve a connection
  smbConn,       \* the number of the connection a thread serves or served
  smbNext,       \* the number of the next connection
  smbDialect,    \* the dialect negotiated, Smb1 for SMB1, 0 before
  smbUser,       \* "none" before a session, "null" without a user_name, "named"
  smbTrees,      \* the trees connected: the share, and whose session it was then
  smbOutcome,    \* the outcome of a logon whose record is still to come
  smbHandler,    \* the telemetry handler is installed
  smbEntry,      \* _conns: the connection remembered for a thread, or 0
  smbPending,    \* its pending_auth
  \* History, for the properties only:
  smbDid,        \* the logons of the connection, as they were decided
  smbTold,       \* the smb_auth events of the connection
  smbConnects    \* the shares its smb_tree_connect events name

libVars == <<smbOpen, smbConn, smbNext, smbDialect, smbUser, smbTrees, smbOutcome>>
smbVars == <<libVars, smbHandler, smbEntry, smbPending, smbDid, smbTold, smbConnects>>

Ladder == {202, 210, 300, 311}    \* _DIALECTS
Smb1 == 1

ASSUME SmbAssumption ==
  /\ SmbRestricted \subseteq SmbShares
  /\ HavePasswords \in BOOLEAN /\ RejectUnknown \in BOOLEAN
  /\ Smb1Enabled \in BOOLEAN /\ SmbCeiling \in Ladder
  /\ MaxSmbConns \in Nat /\ MaxLogons \in Nat

SmbInit ==
  /\ smbOpen = {}
  /\ smbConn = [t \in SmbThreads |-> 0]
  /\ smbNext = 1
  /\ smbDialect = [t \in SmbThreads |-> 0]
  /\ smbUser = [t \in SmbThreads |-> "none"]
  /\ smbTrees = [t \in SmbThreads |-> {}]
  /\ smbOutcome = [t \in SmbThreads |-> "none"]
  /\ smbHandler = TRUE
  /\ smbEntry = [t \in SmbThreads |-> 0]
  /\ smbPending = [t \in SmbThreads |-> "none"]
  /\ smbDid = [t \in SmbThreads |-> <<>>]
  /\ smbTold = [t \in SmbThreads |-> <<>>]
  /\ smbConnects = [t \in SmbThreads |-> {}]

(* "Incoming connection": a new entry, with an id of its own.              *)
SmbAccept(t) ==
  /\ t \notin smbOpen
  /\ smbNext <= MaxSmbConns
  /\ smbOpen' = smbOpen \cup {t}
  /\ smbConn' = [smbConn EXCEPT ![t] = smbNext]
  /\ smbNext' = smbNext + 1
  /\ smbEntry' = [smbEntry EXCEPT ![t] = IF smbHandler THEN smbNext ELSE @]
  /\ smbPending' = [smbPending EXCEPT ![t] = IF smbHandler THEN "none" ELSE @]
  /\ smbDid' = [smbDid EXCEPT ![t] = <<>>]
  /\ smbTold' = [smbTold EXCEPT ![t] = <<>>]
  /\ smbConnects' = [smbConnects EXCEPT ![t] = {}]
  /\ UNCHANGED <<smbDialect, smbUser, smbTrees, smbOutcome, smbHandler>>
-----------------------------------------------------------------------------
(* The hook on SMB2_NEGOTIATE, with _select_dialect: the highest dialect   *)
(* offered that the ceiling admits, else the library's 2.0.2; but an SMB1  *)
(* negotiate that the library has upgraded is answered with the ceiling.   *)
Candidates(offered) == {d \in offered \cap Ladder : d <= SmbCeiling}

Selected(offered, smb1) ==
  CASE smb1 -> SmbCeiling
    [] ~smb1 /\ Candidates(offered) # {} -> Max(Candidates(offered))
    [] OTHER -> 202

SmbNegotiate(t, offered, smb1) ==
  /\ t \in smbOpen /\ smbDialect[t] = 0
  /\ smbDialect' = [smbDialect EXCEPT ![t] = Selected(offered, smb1)]
  /\ UNCHANGED <<smbOpen, smbConn, smbNext, smbUser, smbTrees, smbOutcome,
                 smbHandler, smbEntry, smbPending, smbDid, smbTold, smbConnects>>

(* A client that speaks only SMB1, answered by the library or, where SMB1  *)
(* is not enabled, by _install_smb1_policy: NT LM 0.12 either way.         *)
Smb1Negotiate(t) ==
  /\ t \in smbOpen /\ smbDialect[t] = 0
  /\ smbDialect' = [smbDialect EXCEPT ![t] = Smb1]
  /\ UNCHANGED <<smbOpen, smbConn, smbNext, smbUser, smbTrees, smbOutcome,
                 smbHandler, smbEntry, smbPending, smbDid, smbTold, smbConnects>>

(* start() registers the accounts with a password; with none, and          *)
(* reject_unknown_users, one that nobody can use.  The library validates   *)
(* credentials once it has any, and makes everybody a guest before; then   *)
(* it also refuses the anonymous over SMB1, but not over SMB2.             *)
Registered == HavePasswords \/ RejectUnknown

Decided(t, kind) ==
  CASE kind = "anonymous" ->
         IF Registered /\ smbDialect[t] = Smb1 THEN {"refused"} ELSE {"null", "success"}
    [] kind = "right" /\ HavePasswords -> {"success"}
    [] OTHER -> IF Registered THEN {"failure"} ELSE {"success"}

(* "AUTHENTICATE_MESSAGE": the handler keeps the logon until its outcome   *)
(* is known, in place of one that is still undecided.  Where SMB1 is not   *)
(* enabled its sessions are refused before any logon, and nothing is told. *)
SmbAuthenticate(t, kind) ==
  /\ t \in smbOpen /\ smbDialect[t] # 0 /\ smbOutcome[t] = "none"
  /\ smbDialect[t] = Smb1 => Smb1Enabled
  /\ Len(smbDid[t]) < MaxLogons
  /\ kind = "right" => HavePasswords
  /\ \E o \in Decided(t, kind) :
       /\ smbOutcome' = [smbOutcome EXCEPT ![t] = o]
       /\ smbDid' = [smbDid EXCEPT ![t] = Append(@, o)]
       /\ smbUser' = [smbUser EXCEPT ![t] =
            IF o \in {"failure", "refused"} THEN @
            ELSE IF kind = "right" THEN "named" ELSE "null"]
  /\ smbPending' = [smbPending EXCEPT ![t] =
       IF ~smbHandler THEN @ ELSE IF kind = "anonymous" THEN "anonymous" ELSE "ntlm"]
  /\ UNCHANGED <<smbOpen, smbConn, smbNext, smbDialect, smbTrees, smbHandler,
                 smbEntry, smbTold, smbConnects>>

\* Mutation: an anonymous logon is told like any other.
FlushTellingAll(t, outcome) ==
  /\ smbTold' = [smbTold EXCEPT ![t] =
       IF smbPending[t] # "none" THEN Append(@, outcome) ELSE @]

(* _flush_auth: tells the pending logon, if any; an anonymous one that was *)
(* never confirmed is enumeration, not a failed logon.                     *)
Flush(t, outcome) ==
  /\ smbTold' = [smbTold EXCEPT ![t] =
       IF smbPending[t] = "none"
          \/ (outcome = "failure" /\ smbPending[t] = "anonymous")
       THEN @ ELSE Append(@, outcome)]

(* The library answers the logon: "authenticated successfully", or no      *)
(* record at all.                                                          *)
SmbAnswer(t) ==
  /\ smbOutcome[t] # "none"
  /\ smbOutcome' = [smbOutcome EXCEPT ![t] = "none"]
  /\ IF smbHandler /\ smbOutcome[t] = "success"
     THEN /\ Flush(t, "success")
          /\ smbPending' = [smbPending EXCEPT ![t] = "none"]
     ELSE UNCHANGED <<smbTold, smbPending>>
  /\ UNCHANGED <<smbOpen, smbConn, smbNext, smbDialect, smbUser, smbTrees,
                 smbHandler, smbEntry, smbDid, smbConnects>>
-----------------------------------------------------------------------------
\* Mutation: the hook asks whether there is a session, not whose it is.
RevokedWithoutSession(t, share) ==
  share \in SmbRestricted /\ smbUser[t] = "none"

(* The hook on SMB2_TREE_CONNECT takes back the tree that the library has  *)
(* just granted, and no earlier one.                                       *)
Revoked(t, share) ==
  smbDialect[t] # Smb1 /\ share \in SmbRestricted /\ smbUser[t] # "named"

(* A tree: its share, and whose session it was granted to.                 *)
Tree(share, by) == [share |-> share, by |-> by]

(* The library grants the share and logs it; then the hook decides.  The   *)
(* event says success either way.                                          *)
SmbTreeConnect(t, share) ==
  /\ t \in smbOpen /\ smbUser[t] # "none" /\ smbOutcome[t] = "none"
  /\ smbTrees' = [smbTrees EXCEPT ![t] =
       IF Revoked(t, share) THEN @ ELSE @ \cup {Tree(share, smbUser[t])}]
  /\ smbConnects' = [smbConnects EXCEPT ![t] =
       IF smbHandler THEN @ \cup {share} ELSE @]
  /\ UNCHANGED <<smbOpen, smbConn, smbNext, smbDialect, smbUser, smbOutcome,
                 smbHandler, smbEntry, smbPending, smbDid, smbTold>>

(* The library forgets the connection's session and trees.                 *)
Release(t) ==
  /\ smbDialect' = [smbDialect EXCEPT ![t] = 0]
  /\ smbUser' = [smbUser EXCEPT ![t] = "none"]
  /\ smbTrees' = [smbTrees EXCEPT ![t] = {}]

\* Mutation: the entry of a connection outlives it.
SmbCloseKeepingEntry(t) ==
  /\ t \in smbOpen /\ smbOutcome[t] = "none"
  /\ smbOpen' = smbOpen \ {t}
  /\ IF smbHandler
     THEN /\ Flush(t, "failure")
          /\ smbPending' = [smbPending EXCEPT ![t] = "none"]
          /\ UNCHANGED smbEntry
     ELSE UNCHANGED <<smbTold, smbPending, smbEntry>>
  /\ Release(t)
  /\ UNCHANGED <<smbConn, smbNext, smbOutcome, smbHandler, smbDid, smbConnects>>

(* "Closing down connection": a logon still pending has failed.            *)
SmbClose(t) ==
  /\ t \in smbOpen /\ smbOutcome[t] = "none"
  /\ smbOpen' = smbOpen \ {t}
  /\ IF smbHandler
     THEN /\ Flush(t, "failure")
          /\ smbPending' = [smbPending EXCEPT ![t] = "none"]
          /\ smbEntry' = [smbEntry EXCEPT ![t] = 0]
     ELSE UNCHANGED <<smbTold, smbPending, smbEntry>>
  /\ Release(t)
  /\ UNCHANGED <<smbConn, smbNext, smbOutcome, smbHandler, smbDid, smbConnects>>

(* stop(): the handler is removed; connection threads are daemons and may  *)
(* go on for as long as the process does, unheard.                         *)
SmbStop ==
  /\ smbHandler
  /\ smbHandler' = FALSE
  /\ UNCHANGED <<libVars, smbEntry, smbPending, smbDid, smbTold, smbConnects>>

SmbThread(t) ==
  \/ SmbAccept(t)
  \/ \E offered \in SmbOffers, smb1 \in BOOLEAN : SmbNegotiate(t, offered, smb1)
  \/ Smb1Negotiate(t)
  \/ \E kind \in {"anonymous", "right", "wrong"} : SmbAuthenticate(t, kind)
  \/ SmbAnswer(t)
  \/ \E share \in SmbShares : SmbTreeConnect(t, share)
  \/ SmbClose(t)

SmbNext == SmbStop \/ \E t \in SmbThreads : SmbThread(t)

SmbSpec == SmbInit /\ [][SmbNext]_smbVars
-----------------------------------------------------------------------------
(* The handler's records name the connection their thread is serving, and  *)
(* no connection that is over, however often thread ids are used again.    *)
SmbOwnConnection ==
  smbHandler =>
    \A t \in SmbThreads :
      smbEntry[t] = IF t \in smbOpen THEN smbConn[t] ELSE 0

Count(s, x) == Cardinality({i \in DOMAIN s : s[i] = x})

(* What the log says of a connection's logons while it is heard: never     *)
(* more successes or failures than there were; and once it has ended,      *)
(* every success, and a failure when its last logon failed.  (An earlier   *)
(* failure is overwritten by the next logon and is never told.)            *)
SmbLogonsTold ==
  \A t \in SmbThreads :
    /\ \A o \in {"success", "failure"} : Count(smbTold[t], o) <= Count(smbDid[t], o)
    /\ smbHandler /\ t \notin smbOpen /\ smbDid[t] # <<>> =>
         /\ Count(smbTold[t], "success") = Count(smbDid[t], "success")
         /\ Last(smbDid[t]) = "failure" =>
              smbTold[t] # <<>> /\ Last(smbTold[t]) = "failure"

(* A tree of a share captured as closed to null sessions was granted to a  *)
(* session that had a name at that time, and the log of its connection has *)
(* a successful logon by then and a connect of the share, in whatever      *)
(* order logons, refused and granted tree connects and further logons      *)
(* come.  (A later anonymous logon takes no tree back, and the log has the *)
(* refused connects as well.  The hook covers SMB2 only: a host that       *)
(* enables SMB1 and registers no credential serves such a share to null    *)
(* sessions over SMB1.)                                                    *)
SmbRestrictedClosed ==
  (Smb1Enabled => Registered) =>
    \A t \in SmbThreads : \A tree \in smbTrees[t] :
      tree.share \in SmbRestricted =>
        /\ tree.by = "named"
        /\ smbHandler => /\ Count(smbTold[t], "success") >= 1
                         /\ tree.share \in smbConnects[t]
=============================================================================
