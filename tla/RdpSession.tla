----------------------------- MODULE RdpSession -----------------------------
(***************************************************************************)
(* The RDP facade (facades/rdp.py): one negotiation per connection, then   *)
(* TLS, then for HYBRID one CredSSP exchange, and the end.                 *)
(* Facade._wrapped_handle closes a connection whose handler returns or     *)
(* raises.                                                                 *)
(***************************************************************************)
EXTENDS Integers

CONSTANTS
  RdpConns,       \* connection slots
  MaxRdpConns     \* bound: connections accepted

ASSUME RdpAssumption == MaxRdpConns \in Nat

VARIABLES
  rdpNla,       \* cfg.nla_required
  rdpStage,     \* "closed", "hello", "tls", "credssp", "challenged"
  rdpSelected,  \* what rdp_negotiate logged
  rdpOwn,       \* the challenge of the connection: its number
  rdpCount,     \* the number of the next connection
  rdpAuth,      \* the outcome logged by rdp_auth
  rdpProved     \* history: has answered its own challenge with the password

rdpVars == <<rdpNla, rdpStage, rdpSelected, rdpOwn, rdpCount, rdpAuth, rdpProved>>

Protocols == {"SSL", "HYBRID"}

RdpInit ==
  /\ rdpNla \in BOOLEAN
  /\ rdpStage = [c \in RdpConns |-> "closed"]
  /\ rdpSelected = [c \in RdpConns |-> "none"]
  /\ rdpOwn = [c \in RdpConns |-> 0]
  /\ rdpCount = 1
  /\ rdpAuth = [c \in RdpConns |-> "none"]
  /\ rdpProved = {}

RdpConnect(c) ==
  /\ rdpStage[c] = "closed" /\ rdpCount <= MaxRdpConns
  /\ rdpStage' = [rdpStage EXCEPT ![c] = "hello"]
  /\ rdpSelected' = [rdpSelected EXCEPT ![c] = "none"]
  /\ rdpOwn' = [rdpOwn EXCEPT ![c] = rdpCount]
  /\ rdpCount' = rdpCount + 1
  /\ rdpAuth' = [rdpAuth EXCEPT ![c] = "none"]
  /\ rdpProved' = rdpProved \ {c}
  /\ UNCHANGED rdpNla

(* handle() returns: a time-out, end of file, a frame that cannot be read, *)
(* a TLS handshake that fails, an answer that cannot be written.           *)
RdpGone(c) ==
  /\ rdpStage[c] # "closed"
  /\ rdpStage' = [rdpStage EXCEPT ![c] = "closed"]
  /\ UNCHANGED <<rdpNla, rdpSelected, rdpOwn, rdpCount, rdpAuth, rdpProved>>

(* _select_protocol; HYBRID_EX alone is not taken for HYBRID.              *)
Select(requested) ==
  IF "HYBRID" \in requested THEN "HYBRID"
  ELSE IF "SSL" \in requested /\ ~rdpNla THEN "SSL"
  ELSE "FAILURE"

(* The connection request: logged, then confirmed or refused.              *)
RdpNegotiate(c, requested) ==
  /\ rdpStage[c] = "hello"
  /\ rdpSelected' = [rdpSelected EXCEPT ![c] = Select(requested)]
  /\ rdpStage' = [rdpStage EXCEPT ![c] =
                    IF Select(requested) = "FAILURE" THEN "closed" ELSE "tls"]
  /\ UNCHANGED <<rdpNla, rdpOwn, rdpCount, rdpAuth, rdpProved>>

(* _start_tls has succeeded: SSL ends here, HYBRID goes on to _credssp.    *)
RdpTls(c) ==
  /\ rdpStage[c] = "tls"
  /\ rdpStage' = [rdpStage EXCEPT ![c] =
                    IF rdpSelected[c] = "HYBRID" THEN "credssp" ELSE "closed"]
  /\ UNCHANGED <<rdpNla, rdpSelected, rdpOwn, rdpCount, rdpAuth, rdpProved>>

(* _credssp: a TSRequest with a type 1 is answered with a challenge.       *)
RdpType1(c) ==
  /\ rdpStage[c] = "credssp"
  /\ rdpStage' = [rdpStage EXCEPT ![c] = "challenged"]
  /\ UNCHANGED <<rdpNla, rdpSelected, rdpOwn, rdpCount, rdpAuth, rdpProved>>

\* Mutation: the response is not tied to the challenge that was sent.
AcceptsAnyChallenge(c, right, n) == right

(* _validate_type3: a known account, its password, and this challenge.     *)
Accepts(c, right, n) == right /\ n = rdpOwn[c]

(* A TSRequest with a type 3, over the challenge of connection n.          *)
RdpType3(c, right, n) ==
  /\ rdpStage[c] = "challenged"
  /\ rdpAuth' = [rdpAuth EXCEPT ![c] =
                   IF Accepts(c, right, n) THEN "success" ELSE "failure"]
  /\ rdpProved' = IF right /\ n = rdpOwn[c] THEN rdpProved \cup {c} ELSE rdpProved
  /\ rdpStage' = [rdpStage EXCEPT ![c] = "closed"]
  /\ UNCHANGED <<rdpNla, rdpSelected, rdpOwn, rdpCount>>

RdpNext ==
  \E c \in RdpConns :
    \/ RdpConnect(c)
    \/ RdpGone(c)
    \/ \E requested \in SUBSET Protocols : RdpNegotiate(c, requested)
    \/ RdpTls(c)
    \/ RdpType1(c)
    \/ \E right \in BOOLEAN, n \in 1 .. (rdpCount - 1) : RdpType3(c, right, n)

RdpSpec == RdpInit /\ [][RdpNext]_rdpVars
-----------------------------------------------------------------------------
(* An rdp_auth success means what it says: the client chose HYBRID, went   *)
(* through TLS, and answered the challenge of this very connection with a  *)
(* known password; and with nla_required nobody gets as far as TLS without *)
(* HYBRID.                                                                 *)
RdpLogTruth ==
  \A c \in RdpConns :
    /\ rdpAuth[c] = "success" => c \in rdpProved
    /\ rdpAuth[c] # "none" => rdpSelected[c] = "HYBRID"
    /\ rdpNla /\ rdpStage[c] \in {"tls", "credssp", "challenged"} =>
         rdpSelected[c] = "HYBRID"
=============================================================================
