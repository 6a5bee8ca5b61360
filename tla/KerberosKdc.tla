---------------------------- MODULE KerberosKdc ----------------------------
(***************************************************************************)
(* The Kerberos facade (facades/kerberos.py): a KDC that hands out AS-REPs *)
(* and service tickets, by UDP and TCP alike.  build_response() is         *)
(* synchronous, so requests are handled one after the other; one action is *)
(* one request.  What ties requests together is the ticket-granting        *)
(* ticket: the facade keeps no table of them, it can only decrypt them.    *)
(*                                                                         *)
(* Any exception in a handler means no reply, and events that were emitted *)
(* before it stay in the log.                                              *)
(***************************************************************************)
EXTENDS Integers

CONSTANTS
  KrbUsers,     \* the accounts of the identities
  KrbKeyed,     \* those with a password
  NoPreauth,    \* those with no_preauth
  Nobody,       \* a name that is no account
  Services,     \* names of service principals, held by an account or not
  KeyedSpns,    \* those held by an account with a password
  Offers        \* the sets of encryption types clients offer

RC4 == 23
AES256 == 18
AES128 == 17
Unsupported == 1     \* an encryption type the library does not have

ASSUME KrbAssumption ==
  /\ KrbKeyed \subseteq KrbUsers /\ NoPreauth \subseteq KrbUsers
  /\ Nobody \notin KrbUsers
  /\ KeyedSpns \subseteq Services
  /\ Offers \subseteq (SUBSET {RC4, AES256, AES128, Unsupported}) \ {{}}

VARIABLES
  krbTgts,   \* the TGTs handed out: whose, and the type of the session key
  krbAsked,  \* the last request
  krbReply,  \* its reply: "none", "error", "preauth", "tgt", "ticket"
  krbLog     \* the events it left

krbVars == <<krbTgts, krbAsked, krbReply, krbLog>>

EncTypes == {RC4, AES256, AES128, Unsupported}
AsRequest == [op : {"as"}, user : KrbUsers \cup {Nobody}, preauth : BOOLEAN,
              offered : Offers]
Tgt == [client : KrbUsers, etype : EncTypes]
Forged == [client |-> Nobody, etype |-> RC4]   \* not made with the krbtgt key
TgsRequest == [op : {"tgs"}, tgt : Tgt \cup {Forged}, spn : Services]
Other == [op |-> "other"]
KrbEvents == {"as_req", "as_rep", "roasted", "tgs_req", "tgs_rep",
              "principal_unknown", "preauth_required", "spn_unknown"}

KrbInit ==
  /\ krbTgts = {}
  /\ krbAsked = Other
  /\ krbReply = "none"
  /\ krbLog = {}

Handle(req, reply, log) ==
  /\ krbAsked' = req
  /\ krbReply' = reply
  /\ krbLog' = log

(* A message of another kind or a TGS-REQ without a ticket gets an error;  *)
(* one that cannot be decoded or is empty gets nothing.  None is logged.   *)
KrbOther ==
  /\ \/ Handle(Other, "error", {})
     \/ Handle(Other, "none", {})
  /\ UNCHANGED krbTgts
-----------------------------------------------------------------------------
(* _choose_etype, for an offer without repetition.                         *)
Chosen(offered) ==
  CASE RC4 \in offered -> RC4
    [] RC4 \notin offered /\ AES256 \in offered -> AES256
    [] offered \cap {RC4, AES256} = {} /\ AES128 \in offered -> AES128
    [] OTHER -> Unsupported

\* Mutation: pre-authentication is asked of accounts that do not need it.
WithheldSwapped(user, preauth) ==
  user \notin KrbKeyed \/ (user \in NoPreauth /\ ~preauth)

(* No key to encrypt with, or pre-authentication required and missing.     *)
Withheld(user, preauth) ==
  user \notin KrbKeyed \/ (user \notin NoPreauth /\ ~preauth)

Roastable(user, preauth) == user \in NoPreauth /\ ~preauth

KrbAsRefused(r) ==
  /\ \/ /\ r.user \notin KrbUsers
        /\ Handle(r, "error", {"as_req", "principal_unknown"})
     \/ /\ r.user \in KrbUsers /\ Withheld(r.user, r.preauth)
        /\ Handle(r, "preauth", {"as_req", "preauth_required"})
  /\ UNCHANGED krbTgts

(* The AS-REP is logged before it is built: _build_as_rep raises for a     *)
(* type the library does not have, and then nothing is sent.               *)
KrbAsServed(r) ==
  LET etype == Chosen(r.offered)
      log == {"as_req", IF Roastable(r.user, r.preauth) THEN "roasted" ELSE "as_rep"}
  IN /\ r.user \in KrbUsers /\ ~Withheld(r.user, r.preauth)
     /\ IF etype = Unsupported
        THEN Handle(r, "none", log) /\ UNCHANGED krbTgts
        ELSE /\ Handle(r, "tgt", log)
             /\ krbTgts' = krbTgts \cup {[client |-> r.user, etype |-> etype]}
-----------------------------------------------------------------------------
\* Mutation: a TGT whose decryption fails is taken as it stands.
OpensUnchecked(tgt) == tgt.etype # AES128

(* The TGT decrypts with the krbtgt key and its session key can be used:   *)
(* the 32 bytes _build_as_rep puts into every AES ticket are no AES128 key.*)
Opens(tgt) == tgt # Forged /\ tgt.etype # AES128

KrbTgsUnread(r) ==
  /\ ~Opens(r.tgt)
  /\ Handle(r, "none", {})
  /\ UNCHANGED krbTgts

\* Mutation: the ticket is logged before the service is looked up.
KrbTgsLoggedFirst(r) ==
  /\ Opens(r.tgt)
  /\ \/ /\ r.spn \notin KeyedSpns
        /\ Handle(r, "error", {"tgs_req", "tgs_rep", "spn_unknown"})
     \/ /\ r.spn \in KeyedSpns
        /\ Handle(r, "ticket", {"tgs_req", "tgs_rep"})
  /\ UNCHANGED krbTgts

(* _handle_tgs_req: any service an account with a password holds; the type *)
(* of the reply key follows the TGT or the subkey and always works.        *)
KrbTgs(r) ==
  /\ Opens(r.tgt)
  /\ \/ /\ r.spn \notin KeyedSpns
        /\ Handle(r, "error", {"tgs_req", "spn_unknown"})
     \/ /\ r.spn \in KeyedSpns
        /\ Handle(r, "ticket", {"tgs_req", "tgs_rep"})
  /\ UNCHANGED krbTgts

KrbNext ==
  \/ KrbOther
  \/ \E r \in AsRequest : KrbAsRefused(r) \/ KrbAsServed(r)
  \/ \E r \in TgsRequest :
       /\ r.tgt \in krbTgts \cup {Forged}
       /\ KrbTgsUnread(r) \/ KrbTgs(r)

KrbSpec == KrbInit /\ [][KrbNext]_krbVars
-----------------------------------------------------------------------------
(* What is crackable, and what the log says of it.  Material under a       *)
(* user's key goes to a request without pre-authentication only when the   *)
(* account is flagged for it, and then the log has the alert; no alert is  *)
(* raised for anything else, and accounts that require pre-authentication  *)
(* are told so.  What was handed out is logged as such, and what is logged *)
(* as handed out was sent, but for an AS-REP in a type the library does    *)
(* not have.                                                               *)
KrbLogTruth ==
  /\ krbAsked.op = "as" =>
       /\ krbReply = "tgt" /\ ~krbAsked.preauth =>
            krbAsked.user \in NoPreauth \cap KrbKeyed /\ "roasted" \in krbLog
       /\ "roasted" \in krbLog => krbAsked.user \in NoPreauth /\ ~krbAsked.preauth
       /\ krbAsked.user \in NoPreauth \cap KrbKeyed => krbReply # "preauth"
  /\ krbReply = "tgt" <=>
       krbLog \cap {"as_rep", "roasted"} # {}
         /\ ~(krbAsked.op = "as" /\ krbAsked.offered = {Unsupported})
  /\ krbReply = "ticket" <=> "tgs_rep" \in krbLog

(* A service ticket goes to the holder of a TGT this KDC made for an       *)
(* account it could have made it for: never to a TGT of another key, and   *)
(* never in the name of an account without a password.                     *)
KrbTicketForTgt ==
  krbReply = "ticket" =>
    /\ krbAsked.tgt \in krbTgts /\ krbAsked.tgt.client \in KrbKeyed
    /\ krbAsked.spn \in KeyedSpns
=============================================================================
