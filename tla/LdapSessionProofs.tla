------------------------- MODULE LdapSessionProofs -------------------------
(***************************************************************************)
(* Proofs about LdapSession for every set of connections and accounts, on  *)
(* an open or a hardened directory.                                        *)
(***************************************************************************)
EXTENDS LdapSession, TLAPS

(* The answers and events the handlers build are well typed.               *)
LEMMA AnswerTypes ==
  /\ NoReply \in Reply /\ NoEvent \in Event
  /\ \A op \in {"bind", "exchange", "extended"}, code \in Codes :
       BindReply(op, code) \in Reply
  /\ \A code \in BindCodes : BindEvent(code) \in Event /\ code \in Codes
  /\ \A n \in 0 .. (MaxEntries + 1) : SearchEvent(n) \in Event
BY BoundsAssumption
   DEF NoReply, NoEvent, Reply, Event, BindReply, BindEvent, SearchEvent,
       Codes, BindCodes

(* What the answer of a handler and its event must be for Respond to keep  *)
(* the types: stated once, used by every action.                           *)
LEMMA RespondType ==
  ASSUME TypeOK, NEW c \in Conns, NEW rep \in Reply, NEW ev \in Event,
         NEW auth \in BOOLEAN, NEW chal \in 0 .. MaxChallenges,
         Respond(c, rep, ev, auth, chal)
  PROVE  /\ phase' \in [Conns -> {"free", "open", "lost"}]
         /\ authenticated' \in [Conns -> BOOLEAN]
         /\ challenge' \in [Conns -> 0 .. MaxChallenges]
         /\ reply' \in [Conns -> Reply]
         /\ logged' \in [Conns -> Event]
         /\ lastBind' \in [Conns -> BindCodes \cup {"none"}]
<1>1. ev.code \in BindCodes \cup {"none"} /\ NoEvent \in Event
  BY BoundsAssumption DEF Event, NoEvent
<1>2. phase' \in [Conns -> {"free", "open", "lost"}]
  BY DEF TypeOK, Respond
<1>3. authenticated' \in [Conns -> BOOLEAN]
  BY DEF TypeOK, Respond
<1>4. challenge' \in [Conns -> 0 .. MaxChallenges]
  BY BoundsAssumption DEF TypeOK, Respond
<1>5. reply' \in [Conns -> Reply]
  <2>1. LostReply(rep) \in Reply
    BY BoundsAssumption DEF LostReply, Reply
  <2> QED
    BY <2>1 DEF TypeOK, Respond
<1>6. logged' \in [Conns -> Event]
  BY <1>1 DEF TypeOK, Respond
<1>7. lastBind' \in [Conns -> BindCodes \cup {"none"}]
  BY <1>1 DEF TypeOK, Respond
<1> QED
  BY <1>2, <1>3, <1>4, <1>5, <1>6, <1>7

(* A decided bind: the code of every kind of bind is a bind code.          *)
LEMMA DecideType ==
  ASSUME TypeOK, NEW c \in Conns, NEW result \in BindCodes, Decide(c, result)
  PROVE  /\ phase' \in [Conns -> {"free", "open", "lost"}]
         /\ authenticated' \in [Conns -> BOOLEAN]
         /\ challenge' \in [Conns -> 0 .. MaxChallenges]
         /\ reply' \in [Conns -> Reply]
         /\ logged' \in [Conns -> Event]
         /\ lastBind' \in [Conns -> BindCodes \cup {"none"}]
<1>1. challenge[c] \in 0 .. MaxChallenges
  BY DEF TypeOK
<1>2. BindReply("bind", result) \in Reply /\ BindEvent(result) \in Event
  BY AnswerTypes
<1>3. (result = "success") \in BOOLEAN
  OBVIOUS
<1>4. Respond(c, BindReply("bind", result), BindEvent(result),
              result = "success", challenge[c])
  BY DEF Decide
<1> QED
  BY <1>1, <1>2, <1>3, <1>4, RespondType

LEMMA ResultTypes ==
  /\ \A dn, pw : SimpleResult(dn, pw) \in BindCodes
  /\ \A dn : SaslResult(dn) \in BindCodes
BY DEF SimpleResult, SaslResult, AnonymousResult, BindCodes

(* What a step of one connection can do, one disjunct per handler.         *)
Step(c) == Connect(c) \/ Leave(c) \/ Bind(c) \/ Exchange(c) \/ Search(c)
           \/ Extended(c)

LEMMA TypeStep ==
  ASSUME TypeOK, NEW c \in Conns, Step(c)
  PROVE  TypeOK'
<1> USE DEF TypeOK
<1>1. CASE Connect(c)
  BY <1>1, AnswerTypes, BoundsAssumption DEF Connect
<1>2. CASE Leave(c)
  BY <1>2, AnswerTypes, BoundsAssumption DEF Leave
<1>3. CASE Bind(c)
  <2>1. evidence' \in [Conns -> SUBSET Evidence] /\ UNCHANGED <<nextChallenge, issued>>
    BY <1>3 DEF Bind, SimpleBind, SaslBind, Present, Evidence
  <2>2. \E result \in BindCodes : Decide(c, result)
    BY <1>3, ResultTypes DEF Bind, SimpleBind, SaslBind
  <2> QED
    BY <2>1, <2>2, DecideType
<1>4. CASE Exchange(c)
  <2>1. CASE SpnegoNegotiate(c) \/ SicilyNegotiate(c)
    <3>1. PICK code \in Codes : Negotiate(c, code)
      BY <2>1 DEF SpnegoNegotiate, SicilyNegotiate, Codes, BindCodes
    <3>2. nextChallenge \in 1 .. MaxChallenges
      BY <3>1, BoundsAssumption DEF Negotiate
    <3>3. nextChallenge' \in 1 .. (MaxChallenges + 1)
      BY <3>1, <3>2, BoundsAssumption DEF Negotiate
    <3>4. issued' \in [Conns -> SUBSET (1 .. MaxChallenges)]
      BY <3>1, <3>2, BoundsAssumption DEF Negotiate
    <3>5. BindReply("exchange", code) \in Reply /\ NoEvent \in Event
      BY AnswerTypes
    <3>6. /\ authenticated[c] \in BOOLEAN
          /\ nextChallenge \in 0 .. MaxChallenges
          /\ Respond(c, BindReply("exchange", code), NoEvent,
                     authenticated[c], nextChallenge)
          /\ UNCHANGED evidence
      BY <3>1, <3>2, BoundsAssumption DEF Negotiate
    <3> QED
      BY <3>3, <3>4, <3>5, <3>6, RespondType
  <2>2. CASE SicilyDiscovery(c)
    <3>1. BindReply("exchange", "success") \in Reply /\ NoEvent \in Event
      BY AnswerTypes DEF Codes, BindCodes
    <3> QED
      BY <2>2, <3>1, RespondType DEF SicilyDiscovery
  <2>3. CASE SpnegoUnreadable(c)
    <3>1. BindReply("bind", "invalidCredentials") \in Reply /\ NoEvent \in Event
      BY AnswerTypes DEF Codes, BindCodes
    <3> QED
      BY <2>3, <3>1, RespondType DEF SpnegoUnreadable
  <2>4. ASSUME NEW user, NEW right \in BOOLEAN, NEW n \in 0 .. MaxChallenges,
               Type3(c, user, right, n)
        PROVE  TypeOK'
    <3>1. evidence' \in [Conns -> SUBSET Evidence] /\ UNCHANGED <<nextChallenge, issued>>
      BY <2>4 DEF Type3, Present, Evidence
    <3>2. CASE challenge[c] = 0
      <4>1. BindReply("bind", "invalidCredentials") \in Reply /\ NoEvent \in Event
        BY AnswerTypes DEF Codes, BindCodes
      <4>2. 0 \in 0 .. MaxChallenges /\ authenticated[c] \in BOOLEAN
        BY BoundsAssumption
      <4>3. Respond(c, BindReply("bind", "invalidCredentials"), NoEvent,
                    authenticated[c], 0)
        BY <2>4, <3>2 DEF Type3
      <4> QED
        BY <3>1, <4>1, <4>2, <4>3, RespondType
    <3>3. CASE challenge[c] # 0
      <4>1. \E result \in BindCodes : Decide(c, result)
        BY <2>4, <3>3 DEF Type3, BindCodes
      <4> QED
        BY <3>1, <4>1, DecideType
    <3> QED
      BY <3>2, <3>3
  <2> QED
    BY <1>4, <2>1, <2>2, <2>3, <2>4 DEF Exchange
<1>5. CASE Search(c)
  <2>1. CASE \E rootdse \in BOOLEAN : SearchRefused(c, rootdse)
    <3>1. Refusal \in Reply
      BY BoundsAssumption DEF Reply, Refusal, Codes
    <3>2. SearchEvent(0) \in Event
      BY AnswerTypes, BoundsAssumption
    <3> QED
      BY <2>1, <3>1, <3>2, RespondType DEF SearchRefused
  <2>2. ASSUME NEW rootdse \in BOOLEAN, NEW candidates \in Candidates(rootdse),
               NEW limit \in 0 .. MaxEntries,
               SearchServed(c, rootdse, candidates, limit)
        PROVE  TypeOK'
    <3> DEFINE n == Served(candidates, limit)
    <3>1. n \in 0 .. (MaxEntries + 1) /\ candidates \in Nat
      BY BoundsAssumption DEF Served, Candidates
    <3>2. SearchReply(rootdse, n, n < candidates) \in Reply
      BY <3>1, BoundsAssumption DEF SearchReply, Reply, Codes, BindCodes
    <3>3. SearchEvent(n) \in Event
      BY <3>1, AnswerTypes
    <3>4. /\ Respond(c, SearchReply(rootdse, n, n < candidates), SearchEvent(n),
                     authenticated[c], challenge[c])
          /\ UNCHANGED <<nextChallenge, issued, evidence>>
      BY <2>2 DEF SearchServed
    <3>5. authenticated[c] \in BOOLEAN /\ challenge[c] \in 0 .. MaxChallenges
      OBVIOUS
    <3> HIDE DEF n
    <3> QED
      BY <3>2, <3>3, <3>4, <3>5, RespondType
  <2> QED
    BY <1>5, <2>1, <2>2 DEF Search
<1>6. CASE Extended(c)
  <2>1. BindReply("extended", "protocolError") \in Reply /\ NoEvent \in Event
    BY AnswerTypes DEF Codes
  <2> QED
    BY <1>6, <2>1, RespondType DEF Extended
<1> QED
  BY <1>1, <1>2, <1>3, <1>4, <1>5, <1>6 DEF Step

LEMMA TypeInit == Init => TypeOK
BY AnswerTypes, BoundsAssumption DEF Init, TypeOK

LEMMA TypeNext == TypeOK /\ [Next]_vars => TypeOK'
<1> SUFFICES ASSUME TypeOK, [Next]_vars PROVE TypeOK'
  OBVIOUS
<1>1. CASE Next
  BY <1>1, TypeStep DEF Next, Step
<1>2. CASE UNCHANGED vars
  BY <1>2 DEF TypeOK, vars
<1> QED
  BY <1>1, <1>2

(* Every state of the LDAP facade is well typed: sessions, challenges,     *)
(* answers and events stay what the handlers declare them to be.           *)
THEOREM TypeCorrect == Spec => []TypeOK
BY TypeInit, TypeNext, PTL DEF Spec
-----------------------------------------------------------------------------
(* The inductive invariant behind AdmittedOnEvidence: the challenge kept   *)
(* in ntlm_state was issued on this connection.  Without it a response     *)
(* matching the kept challenge would prove nothing about the connection.   *)
ChallengeIsOwn ==
  \A c \in Conns : challenge[c] # 0 => challenge[c] \in issued[c]

AdmissionInv == TypeOK /\ ChallengeIsOwn /\ AdmittedOnEvidence

(* A bind that succeeds on a hardened directory came with evidence.        *)
LEMMA SuccessNeedsEvidence ==
  ASSUME ~AllowAnonymousBind
  PROVE  /\ \A dn, pw : SimpleResult(dn, pw) = "success" =>
                          dn \in Users /\ pw = "right"
         /\ \A dn : SaslResult(dn) = "success" => dn # NoDN
BY DEF SimpleResult, SaslResult, AnonymousResult

(* Connections do not touch each other's session state or history.         *)
LEMMA OthersUntouched ==
  ASSUME TypeOK, NEW c \in Conns, NEW d \in Conns, d # c, Step(c)
  PROVE  /\ authenticated'[d] = authenticated[d]
         /\ challenge'[d] = challenge[d]
         /\ phase'[d] = phase[d]
         /\ lastBind'[d] = lastBind[d]
         /\ reply'[d] = reply[d]
         /\ logged'[d] = logged[d]
         /\ issued'[d] = issued[d]
         /\ evidence'[d] = evidence[d]
<1> USE DEF TypeOK
<1>0. \A rep, ev, auth, chal : Respond(c, rep, ev, auth, chal) =>
         /\ authenticated'[d] = authenticated[d]
         /\ challenge'[d] = challenge[d]
         /\ phase'[d] = phase[d]
         /\ lastBind'[d] = lastBind[d]
         /\ reply'[d] = reply[d]
         /\ logged'[d] = logged[d]
  BY DEF Respond
<1>1. CASE Connect(c)
  BY <1>1 DEF Connect
<1>2. CASE Leave(c)
  BY <1>2 DEF Leave
<1>3. CASE Bind(c)
  BY <1>3, <1>0 DEF Bind, SimpleBind, SaslBind, Decide, Present
<1>4. CASE Exchange(c)
  BY <1>4, <1>0 DEF Exchange, SpnegoNegotiate, SicilyNegotiate, Negotiate,
     SicilyDiscovery, SpnegoUnreadable, Type3,
     Decide, Present
<1>5. CASE Search(c)
  BY <1>5, <1>0 DEF Search, SearchRefused, SearchServed
<1>6. CASE Extended(c)
  BY <1>6, <1>0 DEF Extended
<1> QED
  BY <1>1, <1>2, <1>3, <1>4, <1>5, <1>6 DEF Step

LEMMA AdmissionStep ==
  ASSUME AdmissionInv, NEW c \in Conns, Step(c)
  PROVE  /\ challenge'[c] # 0 => challenge'[c] \in issued'[c]
         /\ authenticated'[c] => AllowAnonymousBind \/ evidence'[c] # {}
<1> USE DEF AdmissionInv, TypeOK
<1>a. /\ challenge[c] # 0 => challenge[c] \in issued[c]
      /\ authenticated[c] => AllowAnonymousBind \/ evidence[c] # {}
  BY DEF ChallengeIsOwn, AdmittedOnEvidence
<1>b. \A rep, ev, auth, chal : Respond(c, rep, ev, auth, chal) =>
         /\ challenge'[c] \in {0, chal}
         /\ authenticated'[c] => auth
  BY DEF Respond
<1>c. \A kinds : Present(c, kinds) => evidence'[c] = evidence[c] \cup kinds
  BY DEF Present
<1>1. CASE Connect(c)
  BY <1>1 DEF Connect
<1>2. CASE Leave(c)
  BY <1>2 DEF Leave
<1>3. CASE Bind(c)
  <2>1. ASSUME NEW dn \in DNs, NEW pw \in Passwords, SimpleBind(c, dn, pw)
        PROVE  /\ challenge'[c] \in {0, challenge[c]} /\ issued' = issued
               /\ authenticated'[c] => AllowAnonymousBind \/ evidence'[c] # {}
    <3>1. authenticated'[c] => SimpleResult(dn, pw) = "success"
      BY <2>1, <1>b DEF SimpleBind, Decide
    <3>2. dn \in Users /\ pw = "right" => "password" \in evidence'[c]
      BY <2>1, <1>c DEF SimpleBind
    <3>3. challenge'[c] \in {0, challenge[c]} /\ issued' = issued
      BY <2>1, <1>b DEF SimpleBind, Decide
    <3> QED
      BY <3>1, <3>2, <3>3, SuccessNeedsEvidence
  <2>2. ASSUME NEW dn \in DNs, SaslBind(c, dn)
        PROVE  /\ challenge'[c] \in {0, challenge[c]} /\ issued' = issued
               /\ authenticated'[c] => AllowAnonymousBind \/ evidence'[c] # {}
    <3>1. authenticated'[c] => SaslResult(dn) = "success"
      BY <2>2, <1>b DEF SaslBind, Decide
    <3>2. dn # NoDN => "mechanism" \in evidence'[c]
      BY <2>2, <1>c DEF SaslBind
    <3>3. challenge'[c] \in {0, challenge[c]} /\ issued' = issued
      BY <2>2, <1>b DEF SaslBind, Decide
    <3> QED
      BY <3>1, <3>2, <3>3, SuccessNeedsEvidence
  <2> QED
    BY <1>3, <1>a, <2>1, <2>2 DEF Bind
<1>4. CASE Exchange(c)
  <2>1. CASE SpnegoNegotiate(c) \/ SicilyNegotiate(c)
    <3>1. challenge'[c] \in {0, nextChallenge} /\ nextChallenge \in issued'[c]
      BY <2>1, <1>b DEF SpnegoNegotiate, SicilyNegotiate, Negotiate
    <3>2. authenticated'[c] => authenticated[c]
      BY <2>1, <1>b DEF SpnegoNegotiate, SicilyNegotiate, Negotiate
    <3>3. UNCHANGED evidence
      BY <2>1 DEF SpnegoNegotiate, SicilyNegotiate, Negotiate
    <3> QED
      BY <1>a, <3>1, <3>2, <3>3
  <2>2. CASE SicilyDiscovery(c) \/ SpnegoUnreadable(c)
    BY <2>2, <1>a, <1>b DEF SicilyDiscovery, SpnegoUnreadable
  <2>3. ASSUME NEW user, NEW right \in BOOLEAN, NEW n \in 0 .. MaxChallenges,
               Type3(c, user, right, n)
        PROVE  /\ challenge'[c] \in {0, challenge[c]} /\ issued' = issued
               /\ authenticated'[c] => AllowAnonymousBind \/ evidence'[c] # {}
    <3>1. issued' = issued /\ evidence[c] \subseteq evidence'[c]
      BY <2>3, <1>c DEF Type3
    <3>2. CASE challenge[c] = 0
      <4>1. challenge'[c] = 0 /\ (authenticated'[c] => authenticated[c])
        BY <2>3, <3>2, <1>b DEF Type3
      <4> QED
        BY <1>a, <3>1, <4>1, <3>2
    <3>3. CASE challenge[c] # 0
      <4>1. challenge'[c] \in {0, challenge[c]}
        BY <2>3, <3>3, <1>b DEF Type3, Decide
      <4>2. authenticated'[c] => Validates(c, user, right, n)
        BY <2>3, <3>3, <1>b DEF Type3, Decide
      <4>3. Validates(c, user, right, n) => "ntlm" \in evidence'[c]
        BY <2>3, <3>3, <1>a, <1>c DEF Type3, Validates
      <4> QED
        BY <3>1, <4>1, <4>2, <4>3
    <3> QED
      BY <3>2, <3>3
  <2> QED
    BY <1>4, <1>a, <2>1, <2>2, <2>3 DEF Exchange
<1>5. CASE Search(c)
  BY <1>5, <1>a, <1>b DEF Search, SearchRefused, SearchServed
<1>6. CASE Extended(c)
  BY <1>6, <1>a, <1>b DEF Extended
<1> QED
  BY <1>1, <1>2, <1>3, <1>4, <1>5, <1>6 DEF Step

LEMMA AdmissionNext == AdmissionInv /\ [Next]_vars => AdmissionInv'
<1> SUFFICES ASSUME AdmissionInv, [Next]_vars PROVE AdmissionInv'
  OBVIOUS
<1>0. TypeOK'
  BY TypeNext DEF AdmissionInv
<1>1. ASSUME NEW c \in Conns, Step(c) PROVE AdmissionInv'
  <2>1. ASSUME NEW d \in Conns
        PROVE  /\ challenge'[d] # 0 => challenge'[d] \in issued'[d]
               /\ authenticated'[d] => AllowAnonymousBind \/ evidence'[d] # {}
    <3>1. CASE d = c
      BY <1>1, <3>1, AdmissionStep
    <3>2. CASE d # c
      BY <1>1, <3>2, OthersUntouched
         DEF AdmissionInv, ChallengeIsOwn, AdmittedOnEvidence
    <3> QED
      BY <3>1, <3>2
  <2> QED
    BY <1>0, <2>1 DEF AdmissionInv, ChallengeIsOwn, AdmittedOnEvidence
<1>2. CASE UNCHANGED vars
  BY <1>0, <1>2 DEF AdmissionInv, ChallengeIsOwn, AdmittedOnEvidence, vars
<1> QED
  BY <1>1, <1>2 DEF Next, Step

LEMMA AdmissionInit == Init => AdmissionInv
BY TypeInit DEF AdmissionInv, ChallengeIsOwn, AdmittedOnEvidence, Init

(* On a hardened directory every bound connection has itself presented a   *)
(* password, a response to one of its own challenges, or a SASL mechanism  *)
(* the facade does not check: for any connections, accounts and challenges.*)
THEOREM Admission == Spec => []AdmittedOnEvidence
<1>1. AdmissionInv => AdmittedOnEvidence
  BY DEF AdmissionInv
<1> QED
  BY <1>1, AdmissionInit, AdmissionNext, PTL DEF Spec
-----------------------------------------------------------------------------
LEMMA LogStep ==
  ASSUME TypeOK, LogMatchesSession, NEW c \in Conns, Step(c)
  PROVE  phase'[c] = "open" => (authenticated'[c] <=> lastBind'[c] = "success")
<1> USE DEF TypeOK
<1>a. phase[c] = "open" => (authenticated[c] <=> lastBind[c] = "success")
  BY DEF LogMatchesSession
<1>b. ASSUME NEW rep, NEW ev, NEW auth \in BOOLEAN, NEW chal, phase[c] = "open",
             Respond(c, rep, ev, auth, chal),
             IF ev.action = "ldap_bind" THEN auth <=> ev.code = "success"
                                        ELSE auth <=> authenticated[c]
      PROVE  phase'[c] = "open" => (authenticated'[c] <=> lastBind'[c] = "success")
  <2>1. CASE phase' = [phase EXCEPT ![c] = "lost"]
    BY <2>1
  <2>2. CASE /\ authenticated' = [authenticated EXCEPT ![c] = auth]
             /\ lastBind' = [lastBind EXCEPT ![c] =
                               IF ev.action = "ldap_bind" THEN ev.code ELSE @]
    <3>1. CASE ev.action = "ldap_bind"
      BY <1>b, <2>2, <3>1
    <3>2. CASE ev.action # "ldap_bind"
      BY <1>a, <1>b, <2>2, <3>2
    <3> QED
      BY <3>1, <3>2
  <2> QED
    BY <1>b, <2>1, <2>2 DEF Respond
<1>c. NoEvent.action # "ldap_bind" /\ \A n : SearchEvent(n).action # "ldap_bind"
  BY DEF NoEvent, SearchEvent
<1>d. ASSUME NEW result, phase[c] = "open", Decide(c, result)
      PROVE  phase'[c] = "open" => (authenticated'[c] <=> lastBind'[c] = "success")
  <2>1. /\ BindEvent(result).action = "ldap_bind"
        /\ BindEvent(result).code = result
    BY DEF BindEvent
  <2> DEFINE auth == result = "success"
  <2>2. auth \in BOOLEAN /\ (auth <=> BindEvent(result).code = "success")
    BY <2>1
  <2>3. Respond(c, BindReply("bind", result), BindEvent(result), auth, challenge[c])
    BY <1>d DEF Decide
  <2> HIDE DEF auth
  <2> QED
    BY <1>b, <1>d, <2>1, <2>2, <2>3
<1>e. ASSUME NEW rep, NEW ev, NEW chal, phase[c] = "open", ev.action # "ldap_bind",
             Respond(c, rep, ev, authenticated[c], chal)
      PROVE  phase'[c] = "open" => (authenticated'[c] <=> lastBind'[c] = "success")
  <2>1. authenticated[c] \in BOOLEAN
    OBVIOUS
  <2> QED
    BY <1>b, <1>e, <2>1
<1>1. CASE Connect(c)
  BY <1>1 DEF Connect
<1>2. CASE Leave(c)
  BY <1>2 DEF Leave
<1>3. CASE Bind(c)
  BY <1>3, <1>d DEF Bind, SimpleBind, SaslBind
<1>4. CASE Exchange(c)
  <2>1. ASSUME NEW user, NEW right, NEW n, Type3(c, user, right, n)
        PROVE  phase'[c] = "open" => (authenticated'[c] <=> lastBind'[c] = "success")
    BY <2>1, <1>c, <1>d, <1>e DEF Type3
  <2> QED
    BY <1>4, <1>c, <1>e, <2>1 DEF Exchange, SpnegoNegotiate, SicilyNegotiate,
       Negotiate, SicilyDiscovery, SpnegoUnreadable
<1>5. CASE Search(c)
  BY <1>5, <1>c, <1>e DEF Search, SearchRefused, SearchServed
<1>6. CASE Extended(c)
  BY <1>6, <1>c, <1>e DEF Extended
<1> QED
  BY <1>1, <1>2, <1>3, <1>4, <1>5, <1>6 DEF Step

(* The ldap_bind events of a connection and its session state never        *)
(* diverge: an open connection is bound exactly when its last such event   *)
(* reports a success.                                                      *)
THEOREM LogTruth == Spec => []LogMatchesSession
<1>1. Init => LogMatchesSession
  BY DEF Init, LogMatchesSession
<1>2. TypeOK /\ LogMatchesSession /\ [Next]_vars => LogMatchesSession'
  <2> SUFFICES ASSUME TypeOK, LogMatchesSession, [Next]_vars
               PROVE  LogMatchesSession'
    OBVIOUS
  <2>1. ASSUME NEW c \in Conns, Step(c) PROVE LogMatchesSession'
    <3>1. ASSUME NEW d \in Conns
          PROVE phase'[d] = "open" => (authenticated'[d] <=> lastBind'[d] = "success")
      <4>1. CASE d = c
        BY <2>1, <4>1, LogStep
      <4>2. CASE d # c
        BY <2>1, <4>2, OthersUntouched DEF LogMatchesSession
      <4> QED
        BY <4>1, <4>2
    <3> QED
      BY <3>1 DEF LogMatchesSession
  <2>2. CASE UNCHANGED vars
    BY <2>2 DEF LogMatchesSession, vars
  <2> QED
    BY <2>1, <2>2 DEF Next, Step
<1> QED
  BY <1>1, <1>2, TypeCorrect, PTL DEF Spec
-----------------------------------------------------------------------------
(* A handler leaves its connection lost, or with the answer it wrote and   *)
(* the event it emitted.                                                   *)
LEMMA RespondLogs ==
  ASSUME TypeOK, NEW c \in Conns, NEW rep, NEW ev, NEW auth, NEW chal,
         Respond(c, rep, ev, auth, chal)
  PROVE  \/ phase'[c] = "lost"
         \/ reply'[c] = rep /\ logged'[c] = ev
BY DEF TypeOK, Respond

LEMMA SearchStep ==
  ASSUME TypeOK, NEW c \in Conns, Step(c)
  PROVE  phase'[c] = "open" /\ reply'[c].op = "search" =>
           logged'[c] = SearchEvent(reply'[c].entries)
<1> DEFINE Audited == phase'[c] = "open" /\ reply'[c].op = "search" =>
                        logged'[c] = SearchEvent(reply'[c].entries)
<1>1. ASSUME NEW rep, NEW ev, NEW auth, NEW chal, rep.op # "search",
             Respond(c, rep, ev, auth, chal)
      PROVE  Audited
  BY <1>1, RespondLogs
<1>2. ASSUME NEW rep, NEW auth, NEW chal,
             Respond(c, rep, SearchEvent(rep.entries), auth, chal)
      PROVE  Audited
  BY <1>2, RespondLogs
<1>3. /\ \A code : /\ BindReply("bind", code).op # "search"
                   /\ BindReply("exchange", code).op # "search"
                   /\ BindReply("extended", code).op # "search"
      /\ NoReply.op # "search"
      /\ Refusal.entries = 0
      /\ \A rootdse, n, truncated : SearchReply(rootdse, n, truncated).entries = n
  BY DEF BindReply, NoReply, Refusal, SearchReply
<1>4. ASSUME NEW result, Decide(c, result)
      PROVE  Audited
  BY <1>1, <1>3, <1>4 DEF Decide
<1>5. CASE Connect(c)
  BY <1>3, <1>5 DEF Connect, TypeOK
<1>6. CASE Leave(c)
  BY <1>6 DEF Leave, TypeOK
<1>7. CASE Bind(c)
  BY <1>4, <1>7 DEF Bind, SimpleBind, SaslBind
<1>8. CASE Exchange(c)
  <2>1. ASSUME NEW user, NEW right, NEW n, Type3(c, user, right, n)
        PROVE  Audited
    BY <1>1, <1>3, <1>4, <2>1 DEF Type3
  <2> QED
    BY <1>1, <1>3, <1>8, <2>1 DEF Exchange, SpnegoNegotiate, SicilyNegotiate,
       Negotiate, SicilyDiscovery, SpnegoUnreadable
<1>9. CASE Search(c)
  <2>1. ASSUME NEW rootdse, SearchRefused(c, rootdse)
        PROVE  Audited
    BY <1>2, <1>3, <2>1 DEF SearchRefused
  <2>2. ASSUME NEW rootdse, NEW candidates, NEW limit,
               SearchServed(c, rootdse, candidates, limit)
        PROVE  Audited
    <3> DEFINE n == Served(candidates, limit)
               rep == SearchReply(rootdse, n, n < candidates)
    <3>1. rep.entries = n
      BY <1>3
    <3>2. Respond(c, rep, SearchEvent(n), authenticated[c], challenge[c])
      BY <2>2 DEF SearchServed
    <3> HIDE DEF rep, n
    <3> QED
      BY <1>2, <3>1, <3>2
  <2> QED
    BY <1>9, <2>1, <2>2 DEF Search
<1>10. CASE Extended(c)
  BY <1>1, <1>3, <1>10 DEF Extended
<1> QED
  BY <1>5, <1>6, <1>7, <1>8, <1>9, <1>10 DEF Step

(* A search answered on a connection that survives it is in the log, with  *)
(* the number of entries that were served: whatever the gate and sizeLimit *)
(* did, and whatever other connections did in between.                     *)
THEOREM Audit == Spec => []SearchAudited
<1>1. Init => SearchAudited
  BY DEF Init, NoReply, SearchAudited
<1>2. TypeOK /\ SearchAudited /\ [Next]_vars => SearchAudited'
  <2> SUFFICES ASSUME TypeOK, SearchAudited, [Next]_vars
               PROVE  SearchAudited'
    OBVIOUS
  <2>1. ASSUME NEW c \in Conns, Step(c), NEW d \in Conns
        PROVE  phase'[d] = "open" /\ reply'[d].op = "search" =>
                 logged'[d] = SearchEvent(reply'[d].entries)
    <3>1. CASE d = c
      BY <2>1, <3>1, SearchStep
    <3>2. CASE d # c
      BY <2>1, <3>2, OthersUntouched DEF SearchAudited
    <3> QED
      BY <3>1, <3>2
  <2>2. CASE UNCHANGED vars
    BY <2>2 DEF SearchAudited, vars
  <2> QED
    BY <2>1, <2>2 DEF Next, Step, SearchAudited
<1> QED
  BY <1>1, <1>2, TypeCorrect, PTL DEF Spec
-----------------------------------------------------------------------------
(* The refinement: the gate's state is read off the session's.             *)
Bound == {c \in Conns : authenticated[c]}

(* An answer shows what it was meant to show, also when it is lost.        *)
LEMMA RespondShows ==
  ASSUME TypeOK, NEW c \in Conns, NEW rep, NEW ev, NEW auth, NEW chal,
         Respond(c, rep, ev, auth, chal)
  PROVE  reply'[c].shown = rep.shown
BY DEF TypeOK, Respond, LostReply

(* Every handler maps to a decision or an answer of the gate.              *)
LEMMA GateStep ==
  ASSUME TypeOK, NEW c \in Conns, Step(c)
  PROVE  Gate!Decide(c) \/ Gate!Answer(c) \/ Gate!AnswerAndLose(c)
<1> USE DEF TypeOK
<1>0. \A d \in Conns : d # c =>
         authenticated'[d] = authenticated[d] /\ reply'[d] = reply[d]
  BY OthersUntouched
<1>1. TypeOK'
  BY TypeStep
<1>2. Bound' \in {Bound \cup {c}, Bound \ {c}}
  BY <1>0, <1>1 DEF Bound
<1>3. (~authenticated'[c]) => Bound' = Bound \ {c}
  BY <1>0, <1>1 DEF Bound
<1>4. (authenticated'[c] <=> authenticated[c]) => Bound' = Bound
  BY <1>0, <1>1 DEF Bound
<1>5. ASSUME NEW s, reply'[c].shown = s
      PROVE  [d \in Conns |-> reply'[d].shown] =
               [[d \in Conns |-> reply[d].shown] EXCEPT ![c] = s]
  BY <1>0, <1>5
<1>6. ASSUME reply'[c].shown = "nothing"
      PROVE  Gate!Decide(c)
  BY <1>2, <1>5, <1>6 DEF Bound, Gate!Decide
<1>7. CASE Search(c)
  <2>1. CASE \E rootdse \in BOOLEAN : SearchRefused(c, rootdse)
    BY <1>6, <2>1, RespondShows DEF SearchRefused, Refusal
  <2>2. ASSUME NEW rootdse \in BOOLEAN, NEW candidates \in Candidates(rootdse),
               NEW limit \in 0 .. MaxEntries,
               SearchServed(c, rootdse, candidates, limit)
        PROVE  Gate!Decide(c) \/ Gate!Answer(c) \/ Gate!AnswerAndLose(c)
    <3>1. PICK n, truncated, ev :
            Respond(c, SearchReply(rootdse, n, truncated), ev,
                    authenticated[c], challenge[c])
      BY <2>2 DEF SearchServed
    <3> DEFINE s == SearchReply(rootdse, n, truncated).shown
    <3>2. reply'[c].shown = s
      BY <3>1, RespondShows
    <3>3. s \in {"nothing", "rootdse", "directory"} /\ (s = "directory" => ~rootdse)
      BY DEF SearchReply
    <3>4. s = "directory" => AllowAnonymousBind \/ c \in Bound
      BY <2>2, <3>3 DEF SearchServed, Gated, Bound
    <3>5. (authenticated'[c] <=> authenticated[c]) \/ ~authenticated'[c]
      BY <3>1 DEF Respond
    <3> HIDE DEF s
    <3>6. [d \in Conns |-> reply'[d].shown] =
             [[d \in Conns |-> reply[d].shown] EXCEPT ![c] = s]
      BY <1>5, <3>2
    <3>7. Bound' = Bound \/ Bound' = Bound \ {c}
      BY <1>3, <1>4, <3>5
    <3> QED
      BY <3>3, <3>4, <3>6, <3>7
         DEF Bound, Gate!Answer, Gate!AnswerAndLose, Gate!Disclosures
  <2> QED
    BY <1>7, <2>1, <2>2 DEF Search
<1>8. CASE Connect(c) \/ Leave(c)
  BY <1>6, <1>8 DEF Connect, Leave, NoReply
<1>a. ASSUME NEW op, NEW code, NEW ev, NEW auth, NEW chal,
             Respond(c, BindReply(op, code), ev, auth, chal)
      PROVE  Gate!Decide(c)
  <2>1. reply'[c].shown = BindReply(op, code).shown
    BY <1>a, RespondShows
  <2> QED
    BY <1>6, <2>1 DEF BindReply
<1>b. ASSUME NEW result, Decide(c, result)
      PROVE  Gate!Decide(c)
  BY <1>a, <1>b DEF Decide
<1>9. CASE Bind(c)
  BY <1>9, <1>b DEF Bind, SimpleBind, SaslBind
<1>10. CASE Exchange(c)
  <2>1. ASSUME NEW user, NEW right, NEW n, Type3(c, user, right, n)
        PROVE  Gate!Decide(c)
    BY <2>1, <1>a, <1>b DEF Type3
  <2> QED
    BY <1>10, <1>a, <2>1 DEF Exchange, SpnegoNegotiate, SicilyNegotiate,
       Negotiate, SicilyDiscovery, SpnegoUnreadable
<1>11. CASE Extended(c)
  BY <1>11, <1>a DEF Extended
<1> QED
  BY <1>7, <1>8, <1>9, <1>10, <1>11 DEF Step

(* The LDAP facade implements the abstract directory gate: an answer       *)
(* discloses directory entries only to a bound connection, or when         *)
(* anonymous clients are allowed.                                          *)
THEOREM Refinement == Spec => ImplementsGate
<1>1. Init => Gate!GateInit
  BY DEF Init, NoReply, Gate!GateInit
<1>2. TypeOK /\ [Next]_vars => [Gate!GateNext]_Gate!gateVars
  <2> SUFFICES ASSUME TypeOK, [Next]_vars
               PROVE  [Gate!GateNext]_Gate!gateVars
    OBVIOUS
  <2>1. CASE Next
    BY <2>1, GateStep DEF Next, Step, Gate!GateNext
  <2>2. CASE UNCHANGED vars
    BY <2>2 DEF vars, Gate!gateVars
  <2> QED
    BY <2>1, <2>2
<1> QED
  BY <1>1, <1>2, TypeCorrect, PTL DEF Spec, ImplementsGate, Gate!GateSpec
=============================================================================
