----------------------------- MODULE AttackPaths -----------------------------
(***************************************************************************)
(* The attack paths of an estate (paths.py): compose_paths walks from what *)
(* anyone can read to the credentials leaked there, from those to what     *)
(* they open, and so on to a fixpoint; annotate_live then says of every    *)
(* path whether its logins were accepted by the live estate.               *)
(*                                                                         *)
(* A credential is a secret: principals are grouped by its value.  A door  *)
(* is what a login opens: a service of a host and, for HTTP, one route of  *)
(* it.  A location is a text behind a door, in the order of _locations();  *)
(* the secrets that leak_contains() finds in the text are its leaks.       *)
(***************************************************************************)
EXTENDS Integers, Sequences, FiniteSets

CONSTANTS
  Sids,       \* the ids of the secrets, numbered in their sorted order
  Users,      \* user names
  NoUser,     \* no user
  Services,   \* services of hosts
  Routes,     \* routes of a service; only HTTP has more than one
  Ports,      \* ports of a host that offer the same service
  Estates,    \* the estates to look at
  MaxProbes   \* bound: how many logins are tried on the live estate

Door == [service : Services, route : Routes]
Location == [door : Door, anon : BOOLEAN, leaks : SUBSET Sids]
Claim == [sid : Sids, door : Door, user : Users, port : Ports]
Estate == [locations : Seq(Location), claims : SUBSET Claim]
Tiers == {"measured-live", "refuted", "untested"}
PathTiers == {"none", "anonymous", "confirmed-live", "refuted", "untested"}

NoLocation == 0
NoSid == 0

ASSUME SidAssumption == Sids \subseteq Nat \ {NoSid}
ASSUME UserAssumption == NoUser \notin Users
ASSUME EstateAssumption == Estates \subseteq Estate
(* One port knows one password of a user for a door.                       *)
ASSUME PasswordAssumption ==
  \A e \in Estates : \A c, d \in e.claims :
    c.door = d.door /\ c.user = d.user /\ c.port = d.port => c = d

VARIABLES
  estate,       \* the configuration: its locations and its logins
  pc,           \* where compose_paths is, and the verification after it
  changed,      \* the round has found something
  readable,     \* locations that can be read
  unlocked_by,  \* location -> the secret and the user that opened it
  looted_at,    \* secret -> the location it was found at
  verdict,      \* claim -> how the live estate answered
  path_verdict  \* secret -> what annotate_live says of its path

graphVars == <<readable, unlocked_by, looted_at>>
verifyVars == <<verdict, path_verdict>>
vars == <<estate, pc, changed, readable, unlocked_by, looted_at, verdict,
          path_verdict>>

Locations == DOMAIN estate.locations
At(l) == estate.locations[l]
Principals == {c.sid : c \in estate.claims}
Looted == {s \in Sids : looted_at[s] # NoLocation}

Nobody == [sid |-> NoSid, user |-> NoUser]
Least(S) == CHOOSE x \in S : \A y \in S : x <= y
-----------------------------------------------------------------------------
Init ==
  /\ estate \in Estates
  /\ pc = "loot" /\ changed = FALSE
  /\ readable = {l \in Locations : At(l).anon}
  /\ unlocked_by = [l \in Locations |-> Nobody]
  /\ looted_at = [s \in Sids |-> NoLocation]
  /\ verdict = [c \in estate.claims |-> "untested"]
  /\ path_verdict = [s \in Sids |-> "none"]

\* Mutation: the loop stops at the first readable location, leak or not.
LootSiteFirstRead(s) ==
  IF readable = {} \/ s \notin At(Least(readable)).leaks
  THEN NoLocation ELSE Least(readable)

\* Mutation: a location is searched whether it can be read or not.
LootSiteAnywhere(s) ==
  LET sites == {l \in Locations : s \in At(l).leaks}
  IN  IF sites = {} THEN NoLocation ELSE Least(sites)

(* The first readable location that leaks the secret.                      *)
LootSite(s) ==
  LET sites == {l \in readable : s \in At(l).leaks}
  IN  IF sites = {} THEN NoLocation ELSE Least(sites)

(* LOOT: every principal not yet held is looked for in what is readable.   *)
(* The guard `loc.label in p.origins` is left out: a label starts with the *)
(* place of a service and an origin does not, so they are never equal.     *)
Loot ==
  /\ pc = "loot"
  /\ looted_at' = [s \in Sids |-> IF s \in Principals \ Looted
                                  THEN LootSite(s) ELSE looted_at[s]]
  /\ changed' = (looted_at' # looted_at)
  /\ pc' = "access"
  /\ UNCHANGED <<estate, readable, unlocked_by, verifyVars>>

\* Mutation: the route of an HTTP login is not looked at.
UnlocksService(c, l) == c.door.service = At(l).door.service

Unlocks(c, l) == c.door = At(l).door

Openers(l) ==
  {s \in Looted : \E c \in estate.claims : c.sid = s /\ Unlocks(c, l)}

(* A location is opened by the first of the secrets that open it.  The     *)
(* user that is named for a door belongs to the first such grant of that   *)
(* secret in the iteration order of a set, so to any of them.              *)
NamedFor(who, l) ==
  \E c \in estate.claims :
    /\ c.sid = Least(Openers(l)) /\ Unlocks(c, l)
    /\ c.user = who[At(l).door]

Enter(new) ==
  /\ readable' = readable \cup new
  /\ \E who \in [{At(l).door : l \in new} -> Users] :
       /\ \A l \in new : NamedFor(who, l)
       /\ unlocked_by' = [l \in Locations |->
            IF l \in new
            THEN [sid |-> Least(Openers(l)), user |-> who[At(l).door]]
            ELSE unlocked_by[l]]

\* Mutation: a location that is readable already is opened again.
AccessAgain ==
  /\ pc = "access"
  /\ Enter({l \in Locations : Openers(l) # {}})
  /\ changed' = (changed \/ readable' # readable)
  /\ pc' = IF changed' THEN "loot" ELSE "graph"
  /\ UNCHANGED <<estate, looted_at, verifyVars>>

\* Mutation: opening a readable location counts as a change.
AccessAlwaysChanges ==
  /\ pc = "access"
  /\ Enter({l \in Locations \ readable : Openers(l) # {}})
  /\ changed' = (changed \/ \E l \in Locations : Openers(l) # {})
  /\ pc' = IF changed' THEN "loot" ELSE "graph"
  /\ UNCHANGED <<estate, looted_at, verifyVars>>

(* ACCESS: the held principals, in order, open what their grants reach;    *)
(* the loop goes on while a round finds something.                         *)
Access ==
  /\ pc = "access"
  /\ Enter({l \in Locations \ readable : Openers(l) # {}})
  /\ changed' = (changed \/ readable' # readable)
  /\ pc' = IF changed' THEN "loot" ELSE "graph"
  /\ UNCHANGED <<estate, looted_at, verifyVars>>
-----------------------------------------------------------------------------
(* _pivots_to_location: the locations entered by a login on the way to l,  *)
(* l last.  `fuel` stands for the guard `loc in seen`.                     *)
Walk[fuel \in 0 .. Len(estate.locations)] ==
  [l \in Locations |->
     IF fuel = 0 \/ unlocked_by[l] = Nobody THEN <<>>
     ELSE Append(Walk[fuel - 1][looted_at[unlocked_by[l].sid]], l)]

Pivots == [s \in Looted |-> Walk[Len(estate.locations)][looted_at[s]]]

Hops(s) == Len(Pivots[s])

\* Mutation: a verdict holds for the whole service.
KeyWithoutRoute(door, user) == <<door.service, user>>

(* The key of a verdict: neither the port nor the secret is in it.         *)
Key(door, user) == <<door, user>>

(* collapse_verdicts: the strongest answer to the claims of one key.       *)
Collapsed(v, door, user) ==
  LET answers == {v[c] : c \in {c \in estate.claims :
                                  Key(c.door, c.user) = Key(door, user)}}
  IN  IF "measured-live" \in answers THEN "measured-live"
      ELSE IF "refuted" \in answers THEN "refuted" ELSE "untested"

(* annotate_live, for the path to secret s.                                *)
PathVerdict(v, s) ==
  LET path == {Pivots[s][i] : i \in DOMAIN Pivots[s]}
      pv == {Collapsed(v, At(l).door, unlocked_by[l].user) : l \in path}
  IN  IF pv = {} THEN "anonymous"
      ELSE IF "refuted" \in pv THEN "refuted"
      ELSE IF pv = {"measured-live"} THEN "confirmed-live" ELSE "untested"

(* paths --verify: verify_estate tries every claim on its own port; a host *)
(* without a target, or a probe without an answer, leaves it untested.     *)
Verify ==
  /\ pc = "graph"
  /\ Cardinality(estate.claims) <= MaxProbes
  /\ \E v \in [estate.claims -> Tiers] :
       /\ verdict' = v
       /\ path_verdict' = [s \in Sids |->
                            IF s \in Looted THEN PathVerdict(v, s) ELSE "none"]
  /\ pc' = "verified"
  /\ UNCHANGED <<estate, changed, graphVars>>
-----------------------------------------------------------------------------
Next == Loot \/ Access \/ Verify

(* compose_paths is one call: it runs until it returns.                    *)
Spec == Init /\ [][Next]_vars /\ WF_vars(Loot \/ Access)
-----------------------------------------------------------------------------
TypeOK ==
  /\ estate \in Estate
  /\ pc \in {"loot", "access", "graph", "verified"}
  /\ changed \in BOOLEAN
  /\ readable \subseteq Locations
  /\ unlocked_by \in [Locations -> [sid : Sids \cup {NoSid},
                                   user : Users \cup {NoUser}]]
  /\ looted_at \in [Sids -> readable \cup {NoLocation}]
  /\ verdict \in [estate.claims -> Tiers]
  /\ path_verdict \in [Sids -> PathTiers]

(* What can be read and what can be held when the logins C work: a reader  *)
(* of everything in S who holds everything in T gets no further.           *)
Opens(C, s, l) == \E c \in C : c.sid = s /\ c.door = At(l).door

Closed(C, S, T) ==
  /\ \A l \in Locations : At(l).anon => l \in S
  /\ \A l \in S : At(l).leaks \cap Principals \subseteq T
  /\ \A s \in T, l \in Locations : Opens(C, s, l) => l \in S

(* "Never fabricate an edge": all that compose_paths has added is in every *)
(* closed set, so it can be got from anonymous text by the estate's own    *)
(* leaks and logins.                                                       *)
ReachSound ==
  pc = "graph" =>
    \A S \in SUBSET Locations, T \in SUBSET Sids :
      Closed(estate.claims, S, T) => readable \subseteq S /\ Looted \subseteq T

(* "repeats to a fixpoint": when the loop ends nothing is left to find.    *)
ReachComplete ==
  pc \in {"graph", "verified"} => Closed(estate.claims, readable, Looted)

(* The secrets within n logins of anonymous text, by definition.           *)
Within[n \in 0 .. Len(estate.locations)] ==
  {s \in Principals : \E l \in Locations :
     /\ s \in At(l).leaks
     /\ \/ At(l).anon
        \/ n > 0 /\ \E t \in Within[n - 1] : Opens(estate.claims, t, l)}

(* The path shown for a secret is a shortest one: `hops` is the least      *)
(* number of logins that leads to it, whatever the order of the locations  *)
(* and of the secrets.                                                     *)
HopsMinimal ==
  pc = "graph" =>
    \A s \in Looted : \A n \in 0 .. Len(estate.locations) :
      s \in Within[n] <=> Hops(s) <= n

(* "confirmed-live": the secret can be reached by the logins of which some *)
(* claim, for the same door and user, was accepted.                        *)
ConfirmedByKeys ==
  LET accepted == {c \in estate.claims :
                     \E d \in estate.claims : /\ verdict[d] = "measured-live"
                                              /\ d.door = c.door
                                              /\ d.user = c.user}
  IN  \A s \in Sids : path_verdict[s] = "confirmed-live" =>
        \A S \in SUBSET Locations, T \in SUBSET Sids :
          Closed(accepted, S, T) => s \in T

(* The loop ends.                                                          *)
Terminates == <>(pc = "graph")
-----------------------------------------------------------------------------
(* What the documentation says and the code does not do.                   *)

(* "every pivot authenticates on the live estate - the chain really        *)
(* works": the secret can be reached by logins that were accepted.         *)
ConfirmedReallyWorks ==
  LET accepted == {c \in estate.claims : verdict[c] = "measured-live"}
  IN  \A s \in Sids : path_verdict[s] = "confirmed-live" =>
        \A S \in SUBSET Locations, T \in SUBSET Sids :
          Closed(accepted, S, T) => s \in T
=============================================================================
