---------------------------- MODULE HttpSession ----------------------------
(***************************************************************************)
(* The connections of one HTTP facade (facades/http.py).                   *)
(*                                                                         *)
(* A connection is a loop: read a request and drain its body, pass the     *)
(* gates of its route, log the credentials it carried, answer, log the     *)
(* request, go on unless one side wants to close.  NTLM authenticates the  *)
(* connection (ntlm_state is a local of handle()), Basic the request.  One *)
(* action is one turn of the loop; turns of connections interleave.        *)
(*                                                                         *)
(* Of the byte stream only this is kept: whether part of a body was left   *)
(* unread, so that the next request is read out of it.                     *)
(***************************************************************************)
EXTENDS Integers

CONSTANTS
  Conns,            \* connection slots; a slot is used again
  Routes,           \* the paths of self.routes
  NoRoute,          \* any other path
  Ntlm,             \* routes with auth_ntlm
  Realm,            \* routes with an auth_realm
  Canned401,        \* paths whose own status is 401, NoRoute for the default
  KeepAlive,        \* cfg.keepalive
  TraceEnabled,     \* cfg.trace_enabled
  MethodsMeasured,  \* cfg.allowed_methods is not None
  Requests,         \* the requests clients send
  MaxChallenges     \* bound: NTLM challenges issued by the facade

VARIABLES
  open,           \* the connections whose handle() is running
  unread,         \* the connections with bytes of a body left in the stream
  authenticated,  \* the connections with ntlm_state["authenticated"]
  challenge,      \* the challenge in ntlm_state, 0 when there is none
  nextChallenge,  \* challenges are numbered in the order they are drawn
  answer,         \* the last answer written on a connection
  httpRequest,    \* its http_request event
  httpAuth,       \* its http_auth event
  \* History, for the properties only:
  issued,         \* the challenges drawn for a connection
  proved,         \* has answered a challenge of its own with the password
  strays          \* has had a request read out of a body and answered

httpVars == <<open, unread, authenticated, challenge, nextChallenge, answer,
              httpRequest, httpAuth, issued, proved, strays>>

Methods == {"GET", "HEAD", "POST", "OPTIONS", "TRACE"}
Allowed == {"GET"}     \* the methods of every route (the default)

(* How a request announces its body and how the body comes: "none";        *)
(* "length", whole and in time; "late", with a right Content-Length but    *)
(* after the read has timed out; "over", longer than _MAX_BODY_DRAIN;      *)
(* "notANumber"; "chunked".                                                *)
Framings == {"none", "length", "late", "over", "notANumber", "chunked"}

(* The Authorization header: nothing usable, Basic credentials that are    *)
(* right for the routes of `for`, or an NTLM message; a type 3 is made     *)
(* with a right password or not over the challenge n.                      *)
NoAuth == [scheme |-> "none"]
Basic(for) == [scheme |-> "basic", for |-> for]
Type1 == [scheme |-> "type1"]
Type3(right, n) == [scheme |-> "type3", right |-> right, n |-> n]
BadNtlm == [scheme |-> "ntlm"]
Auths == {NoAuth, BadNtlm, Type1}
         \cup {Basic(for) : for \in SUBSET Realm}
         \cup {Type3(right, n) : right \in BOOLEAN, n \in 0 .. MaxChallenges}

Request == [method : Methods, path : Routes \cup {NoRoute}, auth : Auths,
            framing : Framings, wantsClose : BOOLEAN]

ASSUME RoutesAssumption ==
  /\ NoRoute \notin Routes
  /\ Ntlm \subseteq Routes /\ Realm \subseteq Routes
  /\ Canned401 \subseteq Routes \cup {NoRoute}
ASSUME SwitchesAssumption ==
  KeepAlive \in BOOLEAN /\ TraceEnabled \in BOOLEAN /\ MethodsMeasured \in BOOLEAN
ASSUME RequestsAssumption ==
  MaxChallenges \in Nat /\ Requests \subseteq Request

Statuses == {"200", "401", "405", "default", "canned"}
(* What an answer tells of a route: its content or the methods it takes.   *)
Answer == [status : Statuses \cup {"none"}, route : Routes \cup {NoRoute},
           tells : {"nothing", "echo", "methods", "content"},
           basic : BOOLEAN]
NoAnswer == [status |-> "none", route |-> NoRoute, tells |-> "nothing",
             basic |-> FALSE]
AuthEvents == {"none", "basic success", "basic failure",
               "ntlm success", "ntlm failure"}
-----------------------------------------------------------------------------
HttpInit ==
  /\ open = {} /\ unread = {} /\ authenticated = {}
  /\ challenge = [c \in Conns |-> 0]
  /\ nextChallenge = 1
  /\ answer = [c \in Conns |-> NoAnswer]
  /\ httpRequest = [c \in Conns |-> "none"]
  /\ httpAuth = [c \in Conns |-> "none"]
  /\ issued = [c \in Conns |-> {}]
  /\ proved = {} /\ strays = {}

(* What a connection leaves behind: nothing, all its state is local.       *)
Forget(c) ==
  /\ unread' = unread \ {c}
  /\ authenticated' = authenticated \ {c}
  /\ challenge' = [challenge EXCEPT ![c] = 0]
  /\ answer' = [answer EXCEPT ![c] = NoAnswer]
  /\ httpRequest' = [httpRequest EXCEPT ![c] = "none"]
  /\ httpAuth' = [httpAuth EXCEPT ![c] = "none"]
  /\ issued' = [issued EXCEPT ![c] = {}]
  /\ proved' = proved \ {c}
  /\ strays' = strays \ {c}
  /\ UNCHANGED nextChallenge

Connect(c) ==
  /\ c \notin open
  /\ open' = open \cup {c}
  /\ Forget(c)

(* _read_request returns None: end of file, a read that times out, a line  *)
(* that is too long or is no request line, as leftover bytes may be.       *)
Leave(c) ==
  /\ c \in open
  /\ open' = open \ {c}
  /\ Forget(c)
-----------------------------------------------------------------------------
(* _drain_body reads the whole body of the request.                        *)
Drains(r) == r.framing \in {"none", "length"}

(* _read_request: the request is the client's next one, or was read out of *)
(* what is left of an earlier body, which may then be used up or not.      *)
ReadRequest(c, r) ==
  /\ c \in open
  /\ strays' = IF c \in unread THEN strays \cup {c} ELSE strays
  /\ IF Drains(r)
     THEN \/ unread' = unread \ {c}
          \/ c \in unread /\ UNCHANGED unread
     ELSE unread' = unread \cup {c}

Closes(r) == ~KeepAlive \/ r.wantsClose

(* _send and the http_request event after it.  drain() may raise because   *)
(* the client is gone: then there is no event and handle() ends.  `auth`   *)
(* is the http_auth event, which is emitted before the answer.             *)
Respond(c, r, a, auth) ==
  /\ answer' = [answer EXCEPT ![c] = a]
  /\ httpAuth' = [httpAuth EXCEPT ![c] = auth]
  /\ \/ /\ httpRequest' = [httpRequest EXCEPT ![c] = a.status]
        /\ open' = IF Closes(r) THEN open \ {c} ELSE open
     \/ /\ httpRequest' = [httpRequest EXCEPT ![c] = "none"]
        /\ open' = open \ {c}

(* _handle_trace: before any route and any gate.                           *)
Trace(c, r) ==
  /\ r.method = "TRACE"
  /\ Respond(c, r,
       [status |-> IF TraceEnabled THEN "200" ELSE "405", route |-> NoRoute,
        tells |-> IF TraceEnabled THEN "echo" ELSE "nothing", basic |-> FALSE],
       "none")
  /\ UNCHANGED <<authenticated, challenge, nextChallenge, issued, proved>>
-----------------------------------------------------------------------------
(* _ntlm_gate                                                              *)

Challenged(c, r) == r.path \in Ntlm /\ c \notin authenticated

\* Mutation: a response over any challenge of the facade is taken.
ValidOverAny(c, auth) == auth.right /\ auth.n # 0

(* validate(): over the challenge in ntlm_state, with the stored password. *)
Valid(c, auth) == auth.right /\ auth.n = challenge[c]

(* The 401 with which the gate stops a request.                            *)
Denied(r) == [status |-> "401", route |-> r.path, tells |-> "nothing",
              basic |-> FALSE]

(* A type 1: a new challenge replaces the one in ntlm_state.               *)
Negotiate(c, r) ==
  /\ Challenged(c, r)
  /\ r.auth = Type1
  /\ nextChallenge <= MaxChallenges
  /\ challenge' = [challenge EXCEPT ![c] = nextChallenge]
  /\ nextChallenge' = nextChallenge + 1
  /\ issued' = [issued EXCEPT ![c] = @ \cup {nextChallenge}]
  /\ Respond(c, r, Denied(r), "none")
  /\ UNCHANGED <<authenticated, proved>>

(* No NTLM message, one that is not type 1 or 3, or a type 3 before any    *)
(* challenge: nothing is logged but the request.                           *)
Unusable(c, r) ==
  \/ r.auth.scheme \notin {"type1", "type3"}
  \/ r.auth.scheme = "type3" /\ challenge[c] = 0

NotNegotiated(c, r) ==
  /\ Challenged(c, r)
  /\ Unusable(c, r)
  /\ Respond(c, r, Denied(r), "none")
  /\ UNCHANGED <<authenticated, challenge, nextChallenge, issued, proved>>

(* A type 3 that is not valid.                                             *)
Rejected(c, r) ==
  /\ Challenged(c, r)
  /\ r.auth.scheme = "type3" /\ challenge[c] # 0
  /\ ~Valid(c, r.auth)
  /\ Respond(c, r, Denied(r), "ntlm failure")
  /\ UNCHANGED <<authenticated, challenge, nextChallenge, issued, proved>>
-----------------------------------------------------------------------------
(* _resolve                                                                *)

BasicFor(r) == r.auth.scheme = "basic" /\ r.path \in r.auth.for

Tell(r, status, tells) ==
  [status |-> status, route |-> r.path, tells |-> tells, basic |-> BasicFor(r)]

(* The configured status of a path, route.status or cfg.default_status.    *)
Own(r) ==
  IF r.path \in Canned401 THEN "401"
  ELSE IF r.path = NoRoute THEN "default" ELSE "canned"

\* Mutation: OPTIONS is answered before the Basic gate.
ResolvedOptionsFirst(r) ==
  IF r.path = NoRoute THEN Tell(r, Own(r), "nothing")
  ELSE IF r.method = "OPTIONS" /\ MethodsMeasured THEN Tell(r, "200", "methods")
  ELSE IF r.path \in Realm /\ ~BasicFor(r) THEN Tell(r, "401", "nothing")
  ELSE IF r.method \notin Allowed \cup {"HEAD"} THEN Tell(r, "405", "methods")
  ELSE Tell(r, Own(r), "content")

Resolved(r) ==
  IF r.path = NoRoute THEN Tell(r, Own(r), "nothing")
  ELSE IF r.path \in Realm /\ ~BasicFor(r) THEN Tell(r, "401", "nothing")
  ELSE IF r.method = "OPTIONS" /\ MethodsMeasured THEN Tell(r, "200", "methods")
  ELSE IF r.method \notin Allowed \cup {"HEAD"} THEN Tell(r, "405", "methods")
  ELSE Tell(r, Own(r), "content")

\* Mutation: the outcome is the status of the answer.
BasicEventOfStatus(r) ==
  IF r.auth.scheme # "basic" THEN "none" ELSE Resolved(r).status

\* Mutation: only an answer of the route itself counts as a success.
BasicEventOfContent(r) ==
  IF r.auth.scheme # "basic" THEN "none"
  ELSE IF Resolved(r).status = "canned" THEN "basic success"
                                        ELSE "basic failure"

(* The outcome handle() logs for Basic credentials is read off the status. *)
BasicEvent(r) ==
  IF r.auth.scheme # "basic" THEN "none"
  ELSE IF Resolved(r).status # "401" THEN "basic success" ELSE "basic failure"

(* A request that no gate stops, or that opens the NTLM gate itself.  A    *)
(* type 3 carries no Basic credentials: at most one event is emitted.      *)
Serve(c, r) ==
  /\ r.method # "TRACE"
  /\ \/ /\ ~Challenged(c, r)
        /\ Respond(c, r, Resolved(r), BasicEvent(r))
        /\ UNCHANGED <<authenticated, proved>>
     \/ /\ Challenged(c, r)
        /\ r.auth.scheme = "type3" /\ challenge[c] # 0
        /\ Valid(c, r.auth)
        /\ authenticated' = authenticated \cup {c}
        /\ proved' = IF r.auth.right /\ r.auth.n \in issued[c]
                     THEN proved \cup {c} ELSE proved
        /\ Respond(c, r, Resolved(r), "ntlm success")
  /\ UNCHANGED <<challenge, nextChallenge, issued>>

Gate(c, r) ==
  /\ r.method # "TRACE"
  /\ Negotiate(c, r) \/ NotNegotiated(c, r) \/ Rejected(c, r)

(* One turn of the loop of handle(); a type 3 is over a drawn challenge.   *)
Turn(c, r) ==
  /\ r.auth.scheme = "type3" => r.auth.n < nextChallenge
  /\ ReadRequest(c, r)
  /\ Trace(c, r) \/ Gate(c, r) \/ Serve(c, r)

HttpNext ==
  \E c \in Conns :
    \/ Connect(c)
    \/ Leave(c)
    \/ \E r \in Requests : Turn(c, r)

HttpSpec == HttpInit /\ [][HttpNext]_httpVars
-----------------------------------------------------------------------------
HttpTypeOK ==
  /\ open \subseteq Conns /\ unread \subseteq Conns
  /\ authenticated \subseteq Conns
  /\ challenge \in [Conns -> 0 .. MaxChallenges]
  /\ nextChallenge \in 1 .. (MaxChallenges + 1)
  /\ answer \in [Conns -> Answer]
  /\ httpRequest \in [Conns -> Statuses \cup {"none"}]
  /\ httpAuth \in [Conns -> AuthEvents]
  /\ issued \in [Conns -> SUBSET (1 .. MaxChallenges)]
  /\ proved \subseteq Conns /\ strays \subseteq Conns

(* Nothing of a protected route, its methods no more than its content, is  *)
(* told to a client that has not shown what the route asks for: on an NTLM *)
(* route, a response to a challenge of this very connection (in this or an *)
(* earlier request of it); on a route with a realm, Basic credentials of   *)
(* that route in this very request; on a route with both, both.            *)
ProtectedOnCredentials ==
  \A c \in Conns :
    answer[c].tells \in {"methods", "content"} =>
      /\ answer[c].route \in Ntlm => c \in proved
      /\ answer[c].route \in Realm => answer[c].basic

(* The audit of the gates: a client that got past a Basic gate is in the   *)
(* log as a success, whatever became of its answer; a logged NTLM success  *)
(* and a logged Basic failure are what the gate decided; and an answer on  *)
(* a connection that goes on is in the log with the status it had.         *)
HttpLogTruth ==
  \A c \in Conns :
    /\ answer[c].route \in Realm \ Canned401
         /\ answer[c].tells \in {"methods", "content"}
         => httpAuth[c] = "basic success"
    /\ httpAuth[c] = "ntlm success" => c \in proved /\ answer[c].status # "none"
    /\ httpAuth[c] = "basic failure" => answer[c].status = "401"
    /\ c \in open => httpRequest[c] = answer[c].status

(* What the code means to do and does not: "Drain any request body so      *)
(* keep-alive does not desync".  No request is answered that was read out  *)
(* of the body of another; of a chunked body the code says that the        *)
(* connection will be closed after the response.                           *)
InStep == strays = {}
=============================================================================
