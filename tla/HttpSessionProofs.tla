------------------------- MODULE HttpSessionProofs -------------------------
(***************************************************************************)
(* What is proved of HttpSession, for any routes, any requests and any     *)
(* number of connections.  The inductive invariant is IInv: next to the    *)
(* three properties it says that a connection holds only a challenge that  *)
(* was drawn for it, and that only connections that have proved themselves *)
(* are authenticated.                                                      *)
(***************************************************************************)
EXTENDS HttpSession, TLAPS

ChallengeIsOwn == \A c \in Conns : challenge[c] # 0 => challenge[c] \in issued[c]
SessionProved == authenticated \subseteq proved

Gates == ChallengeIsOwn /\ SessionProved
IInv == HttpTypeOK /\ Gates /\ ProtectedOnCredentials /\ HttpLogTruth
-----------------------------------------------------------------------------
(* What an answer of _resolve is: it tells something of a route only when  *)
(* the credentials are right for the realm of the route, if it has one.    *)
LEMMA ResolvedTold ==
  ASSUME NEW r \in Requests
  PROVE  \E status \in Statuses, tells \in {"nothing", "methods", "content"} :
           /\ Resolved(r) = Tell(r, status, tells)
           /\ tells # "nothing" => r.path # NoRoute
           /\ tells # "nothing" /\ r.path \in Realm => BasicFor(r)
           /\ tells # "nothing" /\ r.path \notin Canned401 => status # "401"
<1>1. Own(r) \in Statuses /\ (r.path \notin Canned401 => Own(r) # "401")
  BY DEF Own, Statuses
<1> QED
  BY <1>1, Zenon DEF Resolved, Statuses

LEMMA TellType ==
  ASSUME NEW r \in Requests, NEW status \in Statuses,
         NEW tells \in {"nothing", "methods", "content"}
  PROVE  /\ Tell(r, status, tells) \in Answer
         /\ Tell(r, status, tells).route = r.path
         /\ Tell(r, status, tells).status = status
         /\ Tell(r, status, tells).tells = tells
         /\ Tell(r, status, tells).basic = BasicFor(r)
<1>1. BasicFor(r) \in BOOLEAN
  BY Zenon DEF BasicFor
<1>2. r.path \in Routes \cup {NoRoute}
  BY RequestsAssumption DEF Request
<1> QED
  BY <1>1, <1>2 DEF Tell, Answer

(* The log and the answer of a Basic gate that is passed.                  *)
LEMMA BasicTold ==
  ASSUME NEW r \in Requests
  PROVE  /\ BasicEvent(r) \in {"none", "basic success", "basic failure"}
         /\ BasicEvent(r) = "basic failure" => Resolved(r).status = "401"
         /\ r.path \in Realm \ Canned401
              /\ Resolved(r).tells \in {"methods", "content"} =>
              BasicEvent(r) = "basic success"
<1>1. PICK status \in Statuses, tells \in {"nothing", "methods", "content"} :
           /\ Resolved(r) = Tell(r, status, tells)
           /\ tells # "nothing" /\ r.path \in Realm => BasicFor(r)
           /\ tells # "nothing" /\ r.path \notin Canned401 => status # "401"
  BY ResolvedTold, Zenon
<1>2. Resolved(r).status = status /\ Resolved(r).tells = tells
  BY <1>1, TellType
<1>3. BasicFor(r) => r.auth.scheme = "basic"
  BY DEF BasicFor
<1> QED
  BY <1>1, <1>2, <1>3 DEF BasicEvent

(* What a turn must answer and log for the properties to go on holding.    *)
Deserved(c, a, auth) ==
  /\ a \in Answer /\ auth \in AuthEvents /\ a.status # "none"
  /\ a.tells \in {"methods", "content"} =>
       /\ a.route \in Ntlm => c \in proved'
       /\ a.route \in Realm => a.basic
       /\ a.route \in Realm \ Canned401 => auth = "basic success"
  /\ auth = "ntlm success" => c \in proved'
  /\ auth = "basic failure" => a.status = "401"

(* What a turn may do to the NTLM state of connections.                    *)
GatesKept ==
  /\ authenticated' \subseteq Conns /\ proved' \subseteq Conns
  /\ challenge' \in [Conns -> 0 .. MaxChallenges]
  /\ nextChallenge' \in 1 .. (MaxChallenges + 1)
  /\ issued' \in [Conns -> SUBSET (1 .. MaxChallenges)]
  /\ proved \subseteq proved' /\ Gates'

LEMMA DeniedDeserved ==
  ASSUME NEW c \in Conns, NEW r \in Requests,
         NEW auth \in {"none", "ntlm failure"}
  PROVE  Deserved(c, Denied(r), auth)
<1>1. r.path \in Routes \cup {NoRoute}
  BY RequestsAssumption DEF Request
<1> QED
  BY <1>1 DEF Deserved, Denied, Answer, Statuses, AuthEvents

(* Nothing of the NTLM state changes.                                      *)
LEMMA GatesStay ==
  ASSUME HttpTypeOK, Gates,
         UNCHANGED <<authenticated, challenge, nextChallenge, issued, proved>>
  PROVE  GatesKept
BY DEF HttpTypeOK, Gates, GatesKept, ChallengeIsOwn, SessionProved

LEMMA TraceTurn ==
  ASSUME HttpTypeOK, Gates, NEW c \in Conns, NEW r \in Requests, Trace(c, r)
  PROVE  GatesKept /\ \E a, auth : Respond(c, r, a, auth) /\ Deserved(c, a, auth)
<1> DEFINE a == [status |-> IF TraceEnabled THEN "200" ELSE "405", route |-> NoRoute,
                 tells |-> IF TraceEnabled THEN "echo" ELSE "nothing", basic |-> FALSE]
<1>1. Respond(c, r, a, "none")
  BY DEF Trace
<1>2. Deserved(c, a, "none")
  BY DEF Deserved, Answer, Statuses, AuthEvents
<1>3. GatesKept
  BY GatesStay DEF Trace
<1> HIDE DEF a
<1> QED
  BY <1>1, <1>2, <1>3

LEMMA GateTurn ==
  ASSUME HttpTypeOK, Gates, NEW c \in Conns, NEW r \in Requests, Gate(c, r)
  PROVE  GatesKept /\ \E a, auth : Respond(c, r, a, auth) /\ Deserved(c, a, auth)
<1>1. CASE Negotiate(c, r)
  <2>1. GatesKept
    BY <1>1, RequestsAssumption
       DEF Negotiate, HttpTypeOK, Gates, GatesKept, ChallengeIsOwn, SessionProved
  <2> QED
    BY <1>1, <2>1, DeniedDeserved DEF Negotiate
<1>2. CASE NotNegotiated(c, r)
  BY <1>2, GatesStay, DeniedDeserved DEF NotNegotiated
<1>3. CASE Rejected(c, r)
  BY <1>3, GatesStay, DeniedDeserved DEF Rejected
<1> QED
  BY <1>1, <1>2, <1>3 DEF Gate

(* The answer of _resolve is deserved when the NTLM gate is open, by now,  *)
(* and when the event is the one of Basic credentials or stands in for it. *)
LEMMA ResolvedDeserved ==
  ASSUME NEW c \in Conns, NEW r \in Requests, NEW auth,
         r.path \in Ntlm => c \in proved',
         \/ auth = BasicEvent(r)
         \/ auth = "ntlm success" /\ c \in proved' /\ r.auth.scheme = "type3"
  PROVE  Deserved(c, Resolved(r), auth)
<1>1. PICK status \in Statuses, tells \in {"nothing", "methods", "content"} :
           /\ Resolved(r) = Tell(r, status, tells)
           /\ tells # "nothing" /\ r.path \in Realm => BasicFor(r)
  BY ResolvedTold, Zenon
<1>2. /\ Resolved(r) \in Answer /\ Resolved(r).route = r.path
      /\ Resolved(r).status = status /\ Resolved(r).tells = tells
      /\ Resolved(r).basic = BasicFor(r)
  <2>1. /\ Tell(r, status, tells) \in Answer
        /\ Tell(r, status, tells).route = r.path
        /\ Tell(r, status, tells).status = status
        /\ Tell(r, status, tells).tells = tells
        /\ Tell(r, status, tells).basic = BasicFor(r)
    BY TellType
  <2> QED
    BY <1>1, <2>1, Zenon
<1>3. BasicFor(r) => r.auth.scheme = "basic"
  BY DEF BasicFor
<1>4. status # "none"
  BY DEF Statuses
<1>5. CASE auth = BasicEvent(r)
  BY <1>1, <1>2, <1>4, <1>5, BasicTold DEF Deserved, AuthEvents
<1>6. CASE auth = "ntlm success" /\ c \in proved' /\ r.auth.scheme = "type3"
  BY <1>1, <1>2, <1>3, <1>4, <1>6 DEF Deserved, AuthEvents
<1> QED
  BY <1>5, <1>6

LEMMA ServeTurn ==
  ASSUME HttpTypeOK, Gates, NEW c \in Conns, NEW r \in Requests, Serve(c, r)
  PROVE  GatesKept /\ \E a, auth : Respond(c, r, a, auth) /\ Deserved(c, a, auth)
<1>1. CASE /\ ~Challenged(c, r)
           /\ Respond(c, r, Resolved(r), BasicEvent(r))
           /\ UNCHANGED <<authenticated, proved>>
  <2>1. GatesKept
    BY <1>1, GatesStay DEF Serve
  <2>2. r.path \in Ntlm => c \in proved'
    BY <1>1 DEF Challenged, Gates, SessionProved
  <2>3. Deserved(c, Resolved(r), BasicEvent(r))
    BY <2>2, ResolvedDeserved
  <2> QED
    BY <1>1, <2>1, <2>3
<1>2. CASE /\ Challenged(c, r)
           /\ r.auth.scheme = "type3" /\ challenge[c] # 0
           /\ Valid(c, r.auth)
           /\ authenticated' = authenticated \cup {c}
           /\ proved' = IF r.auth.right /\ r.auth.n \in issued[c]
                        THEN proved \cup {c} ELSE proved
           /\ Respond(c, r, Resolved(r), "ntlm success")
  <2>1. r.auth.right /\ r.auth.n \in issued[c]
    BY <1>2 DEF Valid, Gates, ChallengeIsOwn
  <2>2. c \in proved' /\ proved \subseteq proved'
    BY <1>2, <2>1
  <2>3. GatesKept
    BY <1>2, <2>1, <2>2
       DEF Serve, HttpTypeOK, Gates, GatesKept, ChallengeIsOwn, SessionProved
  <2>4. Deserved(c, Resolved(r), "ntlm success")
    BY <1>2, <2>2, ResolvedDeserved
  <2> QED
    BY <1>2, <2>3, <2>4
<1> QED
  BY <1>1, <1>2 DEF Serve
-----------------------------------------------------------------------------
(* Reading a request concerns the stream of its connection only.           *)
LEMMA ReadKeeps ==
  ASSUME HttpTypeOK, NEW c \in Conns, NEW r \in Requests, ReadRequest(c, r)
  PROVE  unread' \subseteq Conns /\ strays' \subseteq Conns
BY DEF ReadRequest, HttpTypeOK

(* A deserved answer keeps the types and the two properties of answers.    *)
LEMMA RespondKeeps ==
  ASSUME HttpTypeOK, ProtectedOnCredentials, HttpLogTruth, NEW c \in Conns,
         NEW r \in Requests, NEW a, NEW auth, c \in open, proved \subseteq proved',
         Respond(c, r, a, auth), Deserved(c, a, auth)
  PROVE  /\ open' \subseteq Conns /\ answer' \in [Conns -> Answer]
         /\ httpRequest' \in [Conns -> Statuses \cup {"none"}]
         /\ httpAuth' \in [Conns -> AuthEvents]
         /\ ProtectedOnCredentials' /\ HttpLogTruth'
<1>1. /\ a \in Answer /\ auth \in AuthEvents
      /\ a.status \in Statuses \cup {"none"}
  BY DEF Deserved, Answer
<1>2. /\ answer' = [answer EXCEPT ![c] = a] /\ httpAuth' = [httpAuth EXCEPT ![c] = auth]
      /\ open' \subseteq open
      /\ httpRequest' \in {[httpRequest EXCEPT ![c] = a.status],
                           [httpRequest EXCEPT ![c] = "none"]}
      /\ c \in open' => httpRequest'[c] = a.status
  BY DEF Respond, HttpTypeOK
<1>3. /\ open' \subseteq Conns /\ answer' \in [Conns -> Answer]
      /\ httpRequest' \in [Conns -> Statuses \cup {"none"}]
      /\ httpAuth' \in [Conns -> AuthEvents]
  BY <1>1, <1>2 DEF HttpTypeOK
<1>4. \A d \in Conns : d # c => /\ answer'[d] = answer[d] /\ httpAuth'[d] = httpAuth[d]
                                /\ httpRequest'[d] = httpRequest[d]
  BY <1>2 DEF HttpTypeOK
<1>5. answer'[c] = a /\ httpAuth'[c] = auth
  BY <1>2 DEF HttpTypeOK
<1>6. ProtectedOnCredentials'
  BY <1>4, <1>5, <1>1 DEF ProtectedOnCredentials, Deserved
<1>7. HttpLogTruth'
  <2> SUFFICES ASSUME NEW d \in Conns
      PROVE  /\ answer'[d].route \in Realm \ Canned401
                  /\ answer'[d].tells \in {"methods", "content"}
                  => httpAuth'[d] = "basic success"
             /\ httpAuth'[d] = "ntlm success" => d \in proved' /\ answer'[d].status # "none"
             /\ httpAuth'[d] = "basic failure" => answer'[d].status = "401"
             /\ d \in open' => httpRequest'[d] = answer'[d].status
    BY Zenon DEF HttpLogTruth
  <2>1. CASE d = c
    BY <1>2, <1>5, <2>1 DEF Deserved
  <2>2. CASE d # c
    BY <1>2, <1>4, <2>2, ZenonT(30) DEF HttpLogTruth
  <2> QED
    BY <2>1, <2>2
<1> QED
  BY <1>3, <1>6, <1>7

LEMMA TurnKeeps ==
  ASSUME IInv, NEW c \in Conns, NEW r \in Requests, Turn(c, r)
  PROVE  IInv'
<1>1. HttpTypeOK /\ Gates /\ c \in open
  BY DEF IInv, Turn, ReadRequest
<1>2. GatesKept /\ \E a, auth : Respond(c, r, a, auth) /\ Deserved(c, a, auth)
  BY <1>1, TraceTurn, GateTurn, ServeTurn DEF Turn
<1>3. PICK a, auth : Respond(c, r, a, auth) /\ Deserved(c, a, auth)
  BY <1>2
<1>4. /\ open' \subseteq Conns /\ answer' \in [Conns -> Answer]
      /\ httpRequest' \in [Conns -> Statuses \cup {"none"}]
      /\ httpAuth' \in [Conns -> AuthEvents]
      /\ ProtectedOnCredentials' /\ HttpLogTruth'
  BY <1>1, <1>2, <1>3, RespondKeeps DEF IInv, GatesKept
<1>5. unread' \subseteq Conns /\ strays' \subseteq Conns
  BY ReadKeeps DEF IInv, Turn
<1> QED
  BY <1>2, <1>4, <1>5 DEF IInv, HttpTypeOK, GatesKept

(* A connection that opens or ends leaves nothing of its state.            *)
LEMMA ForgetKeeps ==
  ASSUME IInv, NEW c \in Conns, Forget(c),
         open' = open \cup {c} \/ open' = open \ {c}
  PROVE  IInv'
<1>1. NoAnswer \in Answer /\ NoAnswer.status = "none" /\ NoAnswer.tells = "nothing"
  BY DEF NoAnswer, Answer
<1>2. HttpTypeOK'
  <2>1. /\ open' \subseteq Conns /\ unread' \subseteq Conns
        /\ authenticated' \subseteq Conns
        /\ proved' \subseteq Conns /\ strays' \subseteq Conns
    BY DEF Forget, IInv, HttpTypeOK
  <2>2. challenge' \in [Conns -> 0 .. MaxChallenges]
    BY RequestsAssumption DEF Forget, IInv, HttpTypeOK
  <2>3. nextChallenge' \in 1 .. (MaxChallenges + 1)
    BY DEF Forget, IInv, HttpTypeOK
  <2>4. answer' \in [Conns -> Answer]
    BY <1>1 DEF Forget, IInv, HttpTypeOK
  <2>5. /\ httpRequest' \in [Conns -> Statuses \cup {"none"}]
        /\ httpAuth' \in [Conns -> AuthEvents]
    BY DEF Forget, IInv, HttpTypeOK, AuthEvents
  <2>6. issued' \in [Conns -> SUBSET (1 .. MaxChallenges)]
    BY DEF Forget, IInv, HttpTypeOK
  <2> QED
    BY <2>1, <2>2, <2>3, <2>4, <2>5, <2>6 DEF HttpTypeOK
<1>3. Gates'
  BY DEF Forget, IInv, HttpTypeOK, Gates, ChallengeIsOwn, SessionProved
<1>4. \A d \in Conns :
        /\ d # c => /\ answer'[d] = answer[d] /\ httpAuth'[d] = httpAuth[d]
                    /\ httpRequest'[d] = httpRequest[d]
                    /\ (d \in proved' <=> d \in proved) /\ (d \in open' <=> d \in open)
        /\ d = c => answer'[d] = NoAnswer /\ httpAuth'[d] = "none"
                    /\ httpRequest'[d] = "none"
  BY DEF Forget, IInv, HttpTypeOK
<1>5. ProtectedOnCredentials'
  BY <1>1, <1>4 DEF IInv, ProtectedOnCredentials
<1>6. HttpLogTruth'
  <2> SUFFICES ASSUME NEW d \in Conns
      PROVE  /\ answer'[d].route \in Realm \ Canned401
                  /\ answer'[d].tells \in {"methods", "content"}
                  => httpAuth'[d] = "basic success"
             /\ httpAuth'[d] = "ntlm success" => d \in proved' /\ answer'[d].status # "none"
             /\ httpAuth'[d] = "basic failure" => answer'[d].status = "401"
             /\ d \in open' => httpRequest'[d] = answer'[d].status
    BY Zenon DEF HttpLogTruth
  <2>1. CASE d = c
    BY <1>1, <1>4, <2>1
  <2>2. CASE d # c
    BY <1>4, <2>2 DEF IInv, HttpLogTruth
  <2> QED
    BY <2>1, <2>2
<1> QED
  BY <1>2, <1>3, <1>5, <1>6 DEF IInv

LEMMA InitIInv == HttpInit => IInv
<1> SUFFICES ASSUME HttpInit PROVE IInv
  OBVIOUS
<1>1. NoAnswer \in Answer /\ NoAnswer.status = "none" /\ NoAnswer.tells = "nothing"
  BY DEF NoAnswer, Answer
<1>2. HttpTypeOK
  BY <1>1, RequestsAssumption DEF HttpInit, HttpTypeOK, AuthEvents
<1>3. Gates
  BY DEF HttpInit, Gates, ChallengeIsOwn, SessionProved
<1>4. ProtectedOnCredentials /\ HttpLogTruth
  BY <1>1 DEF HttpInit, ProtectedOnCredentials, HttpLogTruth
<1> QED
  BY <1>2, <1>3, <1>4 DEF IInv

LEMMA StutterIInv == IInv /\ UNCHANGED httpVars => IInv'
BY DEF httpVars, IInv, HttpTypeOK, Gates, ChallengeIsOwn, SessionProved,
       ProtectedOnCredentials, HttpLogTruth

LEMMA IInvariant == HttpSpec => []IInv
<1>1. IInv /\ [HttpNext]_httpVars => IInv'
  <2> SUFFICES ASSUME IInv, [HttpNext]_httpVars PROVE IInv'
    OBVIOUS
  <2>1. CASE HttpNext
    <3>1. PICK c \in Conns :
            Connect(c) \/ Leave(c) \/ \E r \in Requests : Turn(c, r)
      BY <2>1 DEF HttpNext
    <3>2. CASE Connect(c)
      BY <3>2, ForgetKeeps DEF Connect
    <3>3. CASE Leave(c)
      BY <3>3, ForgetKeeps DEF Leave
    <3>4. CASE \E r \in Requests : Turn(c, r)
      BY <3>4, TurnKeeps
    <3> QED
      BY <3>1, <3>2, <3>3, <3>4
  <2>2. CASE UNCHANGED httpVars
    BY <2>2, StutterIInv
  <2> QED
    BY <2>1, <2>2
<1> QED
  BY <1>1, InitIInv, PTL DEF HttpSpec
-----------------------------------------------------------------------------
(* Every reachable state is well typed, whatever clients send.             *)
THEOREM TypeCorrect == HttpSpec => []HttpTypeOK
BY IInvariant, PTL DEF IInv

(* Nothing of a protected route is told without what the route asks for,   *)
(* on any number of connections that answer challenges of each other.      *)
THEOREM Protected == HttpSpec => []ProtectedOnCredentials
BY IInvariant, PTL DEF IInv

(* The http_auth and http_request events agree with the gates and with     *)
(* what was answered.                                                      *)
THEOREM LogTruth == HttpSpec => []HttpLogTruth
BY IInvariant, PTL DEF IInv
=============================================================================
