---------------------------- MODULE LdapSession ----------------------------
(***************************************************************************)
(* The connections of one LDAP facade (facades/ldap.py).                   *)
(*                                                                         *)
(* Each connection runs handle(): it reads one request at a time, answers  *)
(* it and emits its telemetry event before it reads the next one.  The     *)
(* handler keeps two things in local variables: whether the connection is  *)
(* bound (session["authenticated"]) and the NTLM challenge it issued last  *)
(* (ntlm_state), shared by the SASL GSS-SPNEGO and the Sicily exchanges.   *)
(* One action below is one request, from reading it to emitting its event; *)
(* requests of different connections interleave.                           *)
(*                                                                         *)
(* A DN is a user whose password the range knows, a Stranger, or NoDN.  A  *)
(* password or an NTLM response is right or wrong; a response is computed  *)
(* over some challenge the facade issued, on this connection or on         *)
(* another, now or earlier, or over none of them (0).                      *)
(***************************************************************************)
EXTENDS Integers

CONSTANTS
  Conns,               \* connection slots; a slot is used again
  Users,               \* accounts with a stored password (self._passwords)
  Stranger,            \* a DN that names no such account
  NoDN,                \* the empty bind DN
  AllowAnonymousBind,  \* cfg.allow_anonymous_bind
  MaxEntries,          \* bound: entries a directory search can match
  MaxChallenges        \* bound: NTLM challenges issued by the facade

ASSUME NamesAssumption ==
  /\ Stranger \notin Users
  /\ NoDN \notin Users
  /\ Stranger # NoDN
ASSUME ConfigAssumption == AllowAnonymousBind \in BOOLEAN
ASSUME BoundsAssumption == MaxEntries \in Nat /\ MaxChallenges \in Nat

VARIABLES
  phase,          \* "free", "open", or "lost": the client went away mid-answer
  authenticated,  \* session["authenticated"]
  challenge,      \* the challenge in ntlm_state, 0 when there is none
  nextChallenge,  \* os.urandom(8) never repeats: challenges are numbered
  reply,          \* the last answer written on the connection
  logged,         \* the event its handler emitted for that request
  lastBind,       \* result code of the connection's last ldap_bind event
  \* History, for the properties only:
  issued,         \* the challenges issued on this connection
  evidence        \* the kinds of credential this connection has presented

handlerVars == <<phase, authenticated, challenge, reply, logged, lastBind>>
vars == <<phase, authenticated, challenge, nextChallenge, reply, logged,
          lastBind, issued, evidence>>

Passwords == {"right", "wrong", "empty"}
DNs == Users \cup {Stranger, NoDN}
Evidence == {"password", "ntlm", "mechanism"}
BindCodes == {"success", "invalidCredentials", "inappropriateAuthentication"}
Codes == BindCodes \cup {"saslBindInProgress", "operationsError",
                         "sizeLimitExceeded", "protocolError"}

Reply == [op : {"none", "bind", "exchange", "search", "extended"},
          code : Codes \cup {"none"},
          shown : {"nothing", "rootdse", "directory"},
          entries : 0 .. (MaxEntries + 1)]
NoReply == [op |-> "none", code |-> "none", shown |-> "nothing", entries |-> 0]

(* Of an answer that was lost only what it may have disclosed is kept.     *)
LostReply(rep) ==
  [op |-> "none", code |-> "none", shown |-> rep.shown, entries |-> 0]

(* A bind answer; "exchange" is an answer that does not conclude a bind.   *)
BindReply(op, code) ==
  [op |-> op, code |-> code, shown |-> "nothing", entries |-> 0]

Event == [action : {"none", "ldap_bind", "ldap_search"},
          code : BindCodes \cup {"none"}, entries : 0 .. (MaxEntries + 1)]
NoEvent == [action |-> "none", code |-> "none", entries |-> 0]
BindEvent(code) == [action |-> "ldap_bind", code |-> code, entries |-> 0]
SearchEvent(n) == [action |-> "ldap_search", code |-> "none", entries |-> n]
-----------------------------------------------------------------------------
Init ==
  /\ phase = [c \in Conns |-> "free"]
  /\ authenticated = [c \in Conns |-> FALSE]
  /\ challenge = [c \in Conns |-> 0]
  /\ nextChallenge = 1
  /\ reply = [c \in Conns |-> NoReply]
  /\ logged = [c \in Conns |-> NoEvent]
  /\ lastBind = [c \in Conns |-> "none"]
  /\ issued = [c \in Conns |-> {}]
  /\ evidence = [c \in Conns |-> {}]

(* A client connects: handle() starts with fresh locals.                   *)
Connect(c) ==
  /\ phase[c] # "open"
  /\ phase' = [phase EXCEPT ![c] = "open"]
  /\ authenticated' = [authenticated EXCEPT ![c] = FALSE]
  /\ challenge' = [challenge EXCEPT ![c] = 0]
  /\ reply' = [reply EXCEPT ![c] = NoReply]
  /\ logged' = [logged EXCEPT ![c] = NoEvent]
  /\ lastBind' = [lastBind EXCEPT ![c] = "none"]
  /\ issued' = [issued EXCEPT ![c] = {}]
  /\ evidence' = [evidence EXCEPT ![c] = {}]
  /\ UNCHANGED nextChallenge

(* handle() ends without an answer: unbind, end of file, a request that is *)
(* neither LDAP nor Sicily, an exception of a decoder, a cancellation.     *)
Leave(c) ==
  /\ phase[c] = "open"
  /\ phase' = [phase EXCEPT ![c] = "free"]
  /\ authenticated' = [authenticated EXCEPT ![c] = FALSE]
  /\ challenge' = [challenge EXCEPT ![c] = 0]
  /\ reply' = [reply EXCEPT ![c] = NoReply]
  /\ logged' = [logged EXCEPT ![c] = NoEvent]
  /\ lastBind' = [lastBind EXCEPT ![c] = "none"]
  /\ issued' = [issued EXCEPT ![c] = {}]
  /\ evidence' = [evidence EXCEPT ![c] = {}]
  /\ UNCHANGED nextChallenge

(* The end of every handler: write the answer rep, drain, emit the event   *)
(* ev, keep auth and chal as the connection's state.  drain() may raise    *)
(* because the client is gone; then no event is emitted and handle() ends, *)
(* but what the answer shows may have reached the client.                  *)
Respond(c, rep, ev, auth, chal) ==
  \/ /\ reply' = [reply EXCEPT ![c] = rep]
     /\ authenticated' = [authenticated EXCEPT ![c] = auth]
     /\ challenge' = [challenge EXCEPT ![c] = chal]
     /\ logged' = [logged EXCEPT ![c] = ev]
     /\ lastBind' = [lastBind EXCEPT ![c] =
                       IF ev.action = "ldap_bind" THEN ev.code ELSE @]
     /\ UNCHANGED phase
  \/ /\ phase' = [phase EXCEPT ![c] = "lost"]
     /\ reply' = [reply EXCEPT ![c] = LostReply(rep)]
     /\ authenticated' = [authenticated EXCEPT ![c] = FALSE]
     /\ challenge' = [challenge EXCEPT ![c] = 0]
     /\ logged' = [logged EXCEPT ![c] = NoEvent]
     /\ lastBind' = [lastBind EXCEPT ![c] = "none"]

Present(c, kinds) == evidence' = [evidence EXCEPT ![c] = @ \cup kinds]
-----------------------------------------------------------------------------
(* _handle_bind: simple binds, and every SASL mechanism but GSS-SPNEGO.    *)

AnonymousResult ==
  IF AllowAnonymousBind THEN "success" ELSE "inappropriateAuthentication"

\* Mutation: the gate's own refusal code leaks into bind answers.
SimpleResultByGate(dn, pw) ==
  IF dn = NoDN \/ pw = "empty" THEN "operationsError" ELSE "success"

SimpleResult(dn, pw) ==
  CASE dn = NoDN /\ pw = "empty" -> AnonymousResult
    [] dn \in Users -> IF pw = "right" THEN "success" ELSE "invalidCredentials"
    [] OTHER -> IF AllowAnonymousBind THEN "success" ELSE "invalidCredentials"

SaslResult(dn) == IF dn = NoDN THEN AnonymousResult ELSE "success"

\* Mutation: a refused re-bind does not reset the session state.
DecideKeepingSession(c, result) ==
  Respond(c, BindReply("bind", result), BindEvent(result),
          authenticated[c] \/ result = "success", challenge[c])

(* A bind that is decided resets the session state to its outcome.         *)
Decide(c, result) ==
  Respond(c, BindReply("bind", result), BindEvent(result),
          result = "success", challenge[c])

SimpleBind(c, dn, pw) ==
  /\ phase[c] = "open"
  /\ Decide(c, SimpleResult(dn, pw))
  /\ Present(c, IF dn \in Users /\ pw = "right" THEN {"password"} ELSE {})
  /\ UNCHANGED <<nextChallenge, issued>>

SaslBind(c, dn) ==
  /\ phase[c] = "open"
  /\ Decide(c, SaslResult(dn))
  /\ Present(c, IF dn = NoDN THEN {} ELSE {"mechanism"})
  /\ UNCHANGED <<nextChallenge, issued>>
-----------------------------------------------------------------------------
(* The NTLM exchanges: _handle_spnego and _handle_sicily.                  *)

(* Type 1: build_challenge() draws a new challenge, which replaces the one *)
(* in ntlm_state; the session state is left alone.                         *)
Negotiate(c, code) ==
  /\ phase[c] = "open"
  /\ nextChallenge <= MaxChallenges
  /\ Respond(c, BindReply("exchange", code), NoEvent,
             authenticated[c], nextChallenge)
  /\ nextChallenge' = nextChallenge + 1
  /\ issued' = [issued EXCEPT ![c] = @ \cup {nextChallenge}]
  /\ UNCHANGED evidence

SpnegoNegotiate(c) == Negotiate(c, "saslBindInProgress")
SicilyNegotiate(c) == Negotiate(c, "success")

SicilyDiscovery(c) ==
  /\ phase[c] = "open"
  /\ Respond(c, BindReply("exchange", "success"), NoEvent,
             authenticated[c], challenge[c])
  /\ UNCHANGED <<nextChallenge, issued, evidence>>

\* Mutation: the challenge is not part of the check.
ValidatesAnyChallenge(c, user, right, n) ==
  /\ user \in Users
  /\ right
  /\ n # 0

(* validate(): the response matches when it was computed with the stored   *)
(* password of a known user over the challenge in ntlm_state.              *)
Validates(c, user, right, n) ==
  /\ user \in Users
  /\ right
  /\ n = challenge[c]

(* Type 3, of GSS-SPNEGO or of Sicily, which treat it alike: a response by *)
(* user, with the right password or not, over the challenge n.  Without a  *)
(* challenge in ntlm_state it is refused on the spot: nothing is logged    *)
(* and the session state is not touched.                                   *)
Type3(c, user, right, n) ==
  /\ phase[c] = "open"
  /\ \/ /\ challenge[c] = 0
        /\ Respond(c, BindReply("bind", "invalidCredentials"), NoEvent,
                   authenticated[c], 0)
     \/ /\ challenge[c] # 0
        /\ Decide(c, IF Validates(c, user, right, n)
                     THEN "success" ELSE "invalidCredentials")
  /\ Present(c, IF user \in Users /\ right /\ n \in issued[c]
                THEN {"ntlm"} ELSE {})
  /\ UNCHANGED <<nextChallenge, issued>>

(* GSS-SPNEGO credentials that hold no NTLM message of type 1 or 3.        *)
SpnegoUnreadable(c) ==
  /\ phase[c] = "open"
  /\ Respond(c, BindReply("bind", "invalidCredentials"), NoEvent,
             authenticated[c], challenge[c])
  /\ UNCHANGED <<nextChallenge, issued, evidence>>
-----------------------------------------------------------------------------
\* Mutation: a client in the middle of an NTLM exchange passes the gate.
GatedUntilChallenged(c, rootdse) ==
  ~AllowAnonymousBind /\ ~authenticated[c] /\ challenge[c] = 0 /\ ~rootdse

(* _handle_search: limit is the request's sizeLimit (0: none).             *)

Gated(c, rootdse) == ~AllowAnonymousBind /\ ~authenticated[c] /\ ~rootdse

Served(matches, limit) ==
  IF limit # 0 /\ matches > limit THEN limit ELSE matches

SearchReply(rootdse, n, truncated) ==
  [op |-> "search",
   code |-> IF truncated THEN "sizeLimitExceeded" ELSE "success",
   shown |-> IF n = 0 THEN "nothing"
             ELSE IF rootdse THEN "rootdse" ELSE "directory",
   entries |-> n]

Refusal == [op |-> "search", code |-> "operationsError",
            shown |-> "nothing", entries |-> 0]

SearchRefused(c, rootdse) ==
  /\ phase[c] = "open"
  /\ Gated(c, rootdse)
  /\ Respond(c, Refusal, SearchEvent(0), authenticated[c], challenge[c])
  /\ UNCHANGED <<nextChallenge, issued, evidence>>

\* Mutation: the event counts the matches, not what sizeLimit let through.
SearchServedLoggingMatches(c, rootdse, candidates, limit) ==
  /\ phase[c] = "open"
  /\ ~Gated(c, rootdse)
  /\ LET n == Served(candidates, limit)
     IN Respond(c, SearchReply(rootdse, n, n < candidates),
                SearchEvent(candidates), authenticated[c], challenge[c])
  /\ UNCHANGED <<nextChallenge, issued, evidence>>

SearchServed(c, rootdse, candidates, limit) ==
  /\ phase[c] = "open"
  /\ ~Gated(c, rootdse)
  /\ LET n == Served(candidates, limit)
     IN Respond(c, SearchReply(rootdse, n, n < candidates),
                SearchEvent(n), authenticated[c], challenge[c])
  /\ UNCHANGED <<nextChallenge, issued, evidence>>

(* An extended operation (StartTLS, whoami) is declined and not logged.    *)
Extended(c) ==
  /\ phase[c] = "open"
  /\ Respond(c, BindReply("extended", "protocolError"), NoEvent,
             authenticated[c], challenge[c])
  /\ UNCHANGED <<nextChallenge, issued, evidence>>
-----------------------------------------------------------------------------
(* What the parsers of SPNEGO and Sicily messages can make of a request.   *)
Exchange(c) ==
  \/ SpnegoNegotiate(c)
  \/ SicilyNegotiate(c)
  \/ SicilyDiscovery(c)
  \/ SpnegoUnreadable(c)
  \/ \E user \in Users \cup {Stranger}, right \in BOOLEAN,
        n \in 0 .. MaxChallenges :
       /\ n < nextChallenge
       /\ Type3(c, user, right, n)

Bind(c) ==
  \/ \E dn \in DNs, pw \in Passwords : SimpleBind(c, dn, pw)
  \/ \E dn \in DNs : SaslBind(c, dn)

(* The entries found: the RootDSE is one; of the others, in_scope() and    *)
(* eval_filter() select any number.                                        *)
Candidates(rootdse) == IF rootdse THEN {1} ELSE 0 .. MaxEntries

Search(c) ==
  \E rootdse \in BOOLEAN :
    \/ SearchRefused(c, rootdse)
    \/ \E candidates \in Candidates(rootdse), limit \in 0 .. MaxEntries :
         SearchServed(c, rootdse, candidates, limit)

Next ==
  \E c \in Conns :
    \/ Connect(c)
    \/ Leave(c)
    \/ Bind(c)
    \/ Exchange(c)
    \/ Search(c)
    \/ Extended(c)

Spec == Init /\ [][Next]_vars
-----------------------------------------------------------------------------
TypeOK ==
  /\ phase \in [Conns -> {"free", "open", "lost"}]
  /\ authenticated \in [Conns -> BOOLEAN]
  /\ challenge \in [Conns -> 0 .. MaxChallenges]
  /\ nextChallenge \in 1 .. (MaxChallenges + 1)
  /\ reply \in [Conns -> Reply]
  /\ logged \in [Conns -> Event]
  /\ lastBind \in [Conns -> BindCodes \cup {"none"}]
  /\ issued \in [Conns -> SUBSET (1 .. MaxChallenges)]
  /\ evidence \in [Conns -> SUBSET Evidence]

(* On a hardened directory a connection is bound only when this very       *)
(* connection presented something: the password of a known account, an     *)
(* NTLM response to a challenge issued on this connection since it was     *)
(* opened, or a SASL mechanism the facade accepts unchecked.  A response   *)
(* computed for another connection, or before a reconnection, never does.  *)
AdmittedOnEvidence ==
  \A c \in Conns :
    authenticated[c] => AllowAnonymousBind \/ evidence[c] # {}

(* The telemetry tells the truth about the session: an open connection is  *)
(* bound exactly when the last ldap_bind event it logged is a success,     *)
(* whatever exchanges, searches and undecided binds came in between.       *)
LogMatchesSession ==
  \A c \in Conns :
    phase[c] = "open" => (authenticated[c] <=> lastBind[c] = "success")

(* Every search answered on a connection that survives is in the log with  *)
(* the number of entries that were really served, cut by sizeLimit or      *)
(* refused by the gate as they may be.                                     *)
SearchAudited ==
  \A c \in Conns :
    phase[c] = "open" /\ reply[c].op = "search" =>
      logged[c] = SearchEvent(reply[c].entries)

(* The facade implements the abstract gate: directory entries are shown to *)
(* bound connections only, unless anonymous clients are allowed.           *)
Gate == INSTANCE DirectoryGate WITH
          Open <- AllowAnonymousBind,
          admitted <- {c \in Conns : authenticated[c]},
          shown <- [c \in Conns |-> reply[c].shown]
ImplementsGate == Gate!GateSpec
-----------------------------------------------------------------------------
(* What a comment says and the code does not do.                           *)

(* "any failure drops it back to unauthenticated": after a refused bind    *)
(* the connection is not bound.  A Type 3 without a challenge and a blob   *)
(* without an NTLM message are refused and leave the session as it was.    *)
RefusedBindUnbinds ==
  \A c \in Conns :
    reply[c].op = "bind" /\ reply[c].code # "success" => ~authenticated[c]
=============================================================================
