-------------------------- MODULE AttackPathsProofs --------------------------
(* Proofs about the two searches of paths.py: about AttackPaths, for every *)
(* estate, and about AclEscalation, for every directory and all seeds.     *)
EXTENDS AttackPaths, AclEscalation, SharedLemmas, FiniteSetTheorems, TLAPS

(* Nothing is found outside a closed set, at any time of the loop.         *)
NothingInvented ==
  \A S \in SUBSET Locations, T \in SUBSET Sids :
    Closed(estate.claims, S, T) => readable \subseteq S /\ Looted \subseteq T

(* What a round that found nothing has established.                        *)
Searched == \A l \in readable : At(l).leaks \cap Principals \subseteq Looted
NothingLeft ==
  /\ \A l \in Locations : At(l).anon => l \in readable
  /\ pc = "access" /\ changed = FALSE => Searched
  /\ pc \in {"graph", "verified"} => Closed(estate.claims, readable, Looted)
-----------------------------------------------------------------------------
LEMMA EstateTypes ==
  ASSUME TypeOK
  PROVE  /\ Locations \subseteq Nat \ {NoLocation}
         /\ \A l \in Locations : /\ At(l) \in Location
                                 /\ At(l).leaks \subseteq Sids
         /\ \A c \in estate.claims : c \in Claim
         /\ Principals \subseteq Sids
<1>1. estate.locations \in Seq(Location) /\ estate.claims \subseteq Claim
  BY DEF TypeOK, Estate
<1>2. Locations = 1 .. Len(estate.locations) /\ Len(estate.locations) \in Nat
  BY <1>1 DEF Locations
<1>3. ASSUME NEW l \in Locations
      PROVE  At(l) \in Location
  BY <1>1, <1>2 DEF At
<1>4. ASSUME NEW l \in Locations
      PROVE  At(l).leaks \subseteq Sids
  BY <1>3 DEF Location
<1>5. ASSUME NEW c \in estate.claims
      PROVE  c \in Claim /\ c.sid \in Sids
  BY <1>1 DEF Claim
<1>6. Principals \subseteq Sids
  BY <1>5 DEF Principals
<1> QED
  BY <1>2, <1>3, <1>4, <1>5, <1>6 DEF NoLocation

(* The first of some numbers is one of them.                               *)
LEMMA LeastIsMember ==
  ASSUME NEW S \in SUBSET Nat, S # {}
  PROVE  Least(S) \in S
BY LeastExists DEF Least

(* What LOOT records is a readable location that leaks the secret.         *)
LEMMA LootSiteFacts ==
  ASSUME TypeOK, NEW s \in Sids
  PROVE  /\ LootSite(s) \in readable \cup {NoLocation}
         /\ LootSite(s) # NoLocation =>
              /\ LootSite(s) \in readable
              /\ s \in At(LootSite(s)).leaks
         /\ LootSite(s) = NoLocation =>
              \A l \in readable : s \notin At(l).leaks
<1> DEFINE sites == {l \in readable : s \in At(l).leaks}
<1>1. sites \in SUBSET Nat /\ NoLocation \notin sites
  BY EstateTypes DEF TypeOK
<1>2. CASE sites = {}
  <2>1. LootSite(s) = NoLocation
    BY <1>2 DEF LootSite
  <2> QED
    BY <1>2, <2>1
<1>3. CASE sites # {}
  <2>1. LootSite(s) = Least(sites)
    BY <1>3 DEF LootSite
  <2>2. Least(sites) \in sites
    BY <1>1, <1>3, LeastIsMember
  <2> QED
    BY <1>1, <2>1, <2>2
<1> QED
  BY <1>2, <1>3

LEMMA EstateFixed == [Next]_vars => estate' = estate
BY DEF Next, Loot, Access, Verify, vars
-----------------------------------------------------------------------------
LEMMA TypeInit == Init => TypeOK
<1> SUFFICES ASSUME Init PROVE TypeOK
  OBVIOUS
<1>1. estate \in Estate
  BY EstateAssumption DEF Init
<1>2. readable \subseteq Locations
  BY DEF Init
<1>3. /\ unlocked_by \in [Locations -> [sid : Sids \cup {NoSid},
                                       user : Users \cup {NoUser}]]
      /\ looted_at \in [Sids -> readable \cup {NoLocation}]
  BY DEF Init, Nobody
<1>4. /\ verdict \in [estate.claims -> Tiers]
      /\ path_verdict \in [Sids -> PathTiers]
  BY DEF Init, Tiers, PathTiers
<1> QED
  BY <1>1, <1>2, <1>3, <1>4 DEF Init, TypeOK

LEMMA TypeStep ==
  ASSUME TypeOK, [Next]_vars
  PROVE  TypeOK'
<1>1. CASE Loot
  <2>1. looted_at' \in [Sids -> readable \cup {NoLocation}]
    BY <1>1, LootSiteFacts DEF Loot, TypeOK
  <2>2. changed' \in BOOLEAN
    BY <1>1 DEF Loot
  <2> QED
    BY <1>1, <2>1, <2>2 DEF Loot, TypeOK, verifyVars, Locations
<1>2. CASE Access
  <2> DEFINE new == {l \in Locations \ readable : Openers(l) # {}}
  <2>1. Enter(new) /\ UNCHANGED <<estate, looted_at, verdict, path_verdict>>
    BY <1>2 DEF Access, verifyVars
  <2>2. readable' = readable \cup new
    BY <2>1 DEF Enter
  <2>3. PICK who \in [{At(l).door : l \in new} -> Users] :
          /\ \A l \in new : NamedFor(who, l)
          /\ unlocked_by' = [l \in Locations |->
               IF l \in new
               THEN [sid |-> Least(Openers(l)), user |-> who[At(l).door]]
               ELSE unlocked_by[l]]
    BY <2>1 DEF Enter
  <2>4. ASSUME NEW l \in new
        PROVE  Least(Openers(l)) \in Sids /\ who[At(l).door] \in Users
    BY <2>3, EstateTypes DEF NamedFor, Claim
  <2> HIDE DEF new
  <2>5. unlocked_by' \in [Locations -> [sid : Sids \cup {NoSid},
                                        user : Users \cup {NoUser}]]
    BY <2>3, <2>4 DEF TypeOK
  <2>6. readable' \subseteq Locations
    BY <2>2 DEF TypeOK, new
  <2>7. looted_at' \in [Sids -> readable' \cup {NoLocation}]
    BY <2>1, <2>2 DEF TypeOK
  <2>8. pc' \in {"loot", "access", "graph", "verified"} /\ changed' \in BOOLEAN
    BY <1>2 DEF Access, TypeOK
  <2> QED
    BY <2>1, <2>5, <2>6, <2>7, <2>8 DEF TypeOK, Locations
<1>3. CASE Verify
  <2>1. PICK v \in [estate.claims -> Tiers] :
          /\ verdict' = v
          /\ path_verdict' = [s \in Sids |->
               IF s \in Looted THEN PathVerdict(v, s) ELSE "none"]
    BY <1>3 DEF Verify
  <2>2. \A s \in Sids : PathVerdict(v, s) \in PathTiers
    BY DEF PathVerdict, PathTiers
  <2>3. path_verdict' \in [Sids -> PathTiers]
    BY <2>1, <2>2 DEF PathTiers
  <2> QED
    BY <1>3, <2>1, <2>3 DEF Verify, graphVars, TypeOK, Locations
<1>4. CASE UNCHANGED vars
  BY <1>4 DEF vars, TypeOK, Locations
<1> QED
  BY <1>1, <1>2, <1>3, <1>4 DEF Next
-----------------------------------------------------------------------------
(* Neither pass of a round leaves a closed set.                            *)
LEMMA NothingInventedStep ==
  ASSUME TypeOK, NothingInvented, [Next]_vars
  PROVE  NothingInvented'
<1>1. Locations' = Locations /\ estate' = estate
  BY EstateFixed DEF Locations
<1>2. SUFFICES ASSUME NEW S \in SUBSET Locations, NEW T \in SUBSET Sids,
                      Closed(estate.claims, S, T)
               PROVE  readable' \subseteq S /\ Looted' \subseteq T
  <2>1. ASSUME NEW S \in SUBSET Locations, NEW T \in SUBSET Sids
        PROVE  Closed(estate.claims, S, T)' <=> Closed(estate.claims, S, T)
    BY <1>1 DEF Closed, Opens, At, Principals, Locations
  <2> QED
    BY <1>1, <2>1 DEF NothingInvented
<1>3. readable \subseteq S /\ Looted \subseteq T
  BY <1>2 DEF NothingInvented
<1>4. CASE Loot
  <2>1. ASSUME NEW s \in Looted', s \notin Looted
        PROVE  s \in T
    <3>1. s \in Sids /\ s \in Principals /\ LootSite(s) # NoLocation
      BY <1>4, <2>1 DEF Loot, Looted
    <3>2. LootSite(s) \in readable /\ s \in At(LootSite(s)).leaks
      BY <3>1, LootSiteFacts
    <3> QED
      BY <1>2, <1>3, <3>1, <3>2 DEF Closed
  <2> QED
    BY <1>3, <1>4, <2>1 DEF Loot
<1>5. CASE Access
  <2>1. Looted' = Looted
    BY <1>5 DEF Access, Looted
  <2>2. ASSUME NEW l \in readable', l \notin readable
        PROVE  l \in S
    <3>1. l \in Locations /\ Openers(l) # {}
      BY <1>5, <2>2 DEF Access, Enter
    <3>2. PICK s \in Looted : Opens(estate.claims, s, l)
      BY <3>1 DEF Openers, Opens, Unlocks
    <3> QED
      BY <1>2, <1>3, <3>1, <3>2 DEF Closed
  <2> QED
    BY <1>3, <2>1, <2>2
<1>6. CASE Verify
  BY <1>3, <1>6 DEF Verify, graphVars, Looted
<1>7. CASE UNCHANGED vars
  BY <1>3, <1>7 DEF vars, Looted
<1> QED
  BY <1>4, <1>5, <1>6, <1>7 DEF Next

(* A round that finds nothing has closed what it holds.                    *)
LEMMA NothingLeftStep ==
  ASSUME TypeOK, NothingLeft, [Next]_vars
  PROVE  NothingLeft'
<1>1. estate' = estate
  BY EstateFixed
<1>2. CASE Loot
  <2>1. ASSUME changed' = FALSE
        PROVE  \A l \in readable : At(l).leaks \cap Principals \subseteq Looted
    <3>1. looted_at' = looted_at
      BY <1>2, <2>1 DEF Loot
    <3>2. ASSUME NEW s \in Principals, s \notin Looted
          PROVE  LootSite(s) = NoLocation
      BY <1>2, <3>1, <3>2, EstateTypes DEF Loot, Looted
    <3> QED
      BY <3>2, LootSiteFacts, EstateTypes
  <2>2. changed' = FALSE => Looted' = Looted
    BY <1>2 DEF Loot, Looted
  <2>3. readable' = readable /\ pc' = "access"
    BY <1>2 DEF Loot
  <2> QED
    BY <1>1, <2>1, <2>2, <2>3
       DEF NothingLeft, Searched, At, Principals, Locations
<1>3. CASE Access
  <2>1. readable \subseteq readable' /\ Looted' = Looted
    BY <1>3 DEF Access, Enter, Looted
  <2>2. ASSUME pc' = "graph"
        PROVE  Closed(estate.claims, readable, Looted) /\ readable' = readable
    <3>1. changed = FALSE /\ readable' = readable
      BY <1>3, <2>2 DEF Access, TypeOK
    <3>2. Searched
      BY <1>3, <3>1 DEF Access, NothingLeft
    <3>3. \A l \in Locations \ readable : Openers(l) = {}
      BY <1>3, <3>1 DEF Access, Enter
    <3>4. \A s \in Looted, l \in Locations :
            Opens(estate.claims, s, l) => l \in readable
      BY <3>3 DEF Openers, Opens, Unlocks
    <3> QED
      BY <3>1, <3>2, <3>4 DEF NothingLeft, Closed, Searched
  <2>3. pc' \in {"loot", "graph"}
    BY <1>3 DEF Access
  <2> QED
    BY <1>1, <2>1, <2>2, <2>3
       DEF NothingLeft, Closed, Opens, At, Principals, Locations
<1>4. CASE Verify
  BY <1>1, <1>4
     DEF Verify, graphVars, NothingLeft, Closed, Opens, At, Principals,
         Locations, Looted
<1>5. CASE UNCHANGED vars
  BY <1>5 DEF vars, NothingLeft, Searched, Closed, Opens, At, Principals,
              Locations, Looted
<1> QED
  BY <1>2, <1>3, <1>4, <1>5 DEF Next
-----------------------------------------------------------------------------
(* The rounds of the loop are a breadth-first search: `level` counts the   *)
(* logins it takes to read a location, and round r finds those r away.     *)

(* Who opened a location, and where that secret was found.                 *)
Entrance(level, l) ==
  \E c \in estate.claims :
    /\ c.sid = unlocked_by[l].sid /\ c.door = At(l).door
    /\ c.user = unlocked_by[l].user
    /\ c.sid \in Looted
    /\ level[l] = level[looted_at[c.sid]] + 1

(* Every step of a path was really taken, one level at a time.             *)
Recorded(level) ==
  /\ \A l \in Locations : l \notin readable \/ At(l).anon => unlocked_by[l] = Nobody
  /\ \A l \in readable : IF At(l).anon THEN level[l] = 0 ELSE Entrance(level, l)
  /\ \A s \in Looted : /\ s \in Principals /\ looted_at[s] \in readable
                       /\ s \in At(looted_at[s]).leaks

(* No step skips a level: no other leak or login is a shorter way.         *)
Shortest(level) ==
  \A s \in Looted, l \in readable :
    /\ s \in At(l).leaks => level[looted_at[s]] <= level[l]
    /\ Opens(estate.claims, s, l) => level[l] <= level[looted_at[s]] + 1

(* What is still to be found starts at the level found last.               *)
Frontier(level, r) ==
  /\ \A l \in readable : level[l] <= r
  /\ pc = "loot" =>
       /\ \A s \in Principals \ Looted, l \in readable :
            s \in At(l).leaks => level[l] = r
       /\ \A s \in Looted, l \in Locations \ readable :
            ~Opens(estate.claims, s, l)
  /\ pc = "access" =>
       /\ Searched
       /\ \A s \in Looted, l \in Locations \ readable :
            Opens(estate.claims, s, l) => level[looted_at[s]] = r

Leveled(level, r) ==
  Recorded(level) /\ Shortest(level) /\ Frontier(level, r)

(* A round that goes one level further reads a location more.              *)
BreadthFirst ==
  \E level \in [Locations -> Nat], r \in Nat :
    r <= Cardinality(readable) /\ Leveled(level, r)
-----------------------------------------------------------------------------
LEMMA LocationsFinite ==
  ASSUME TypeOK
  PROVE  /\ Len(estate.locations) \in Nat
         /\ Locations = 1 .. Len(estate.locations)
         /\ IsFiniteSet(Locations)
         /\ Cardinality(Locations) = Len(estate.locations)
<1>1. estate.locations \in Seq(Location)
  BY DEF TypeOK, Estate
<1>2. Len(estate.locations) \in Nat /\ Locations = 1 .. Len(estate.locations)
  BY <1>1 DEF Locations
<1> DEFINE n == Len(estate.locations)
<1>3. IsFiniteSet(1 .. n) /\ Cardinality(1 .. n) = n
  <2> HIDE DEF n
  <2>1. n \in Nat
    BY <1>2 DEF n
  <2>2. IsFiniteSet(1 .. n) /\ Cardinality(1 .. n) = IF 1 > n THEN 0 ELSE n - 1 + 1
    BY <2>1, FS_Interval
  <2> QED
    BY <2>1, <2>2
<1> QED
  BY <1>2, <1>3

(* What is readable never outgrows the estate, and a new location counts.  *)
LEMMA ReadableCount ==
  ASSUME TypeOK
  PROVE  /\ Cardinality(readable) \in Nat
         /\ Cardinality(readable) <= Len(estate.locations)
         /\ \A new \in SUBSET (Locations \ readable) :
              /\ Cardinality(readable \cup new) \in Nat
              /\ Cardinality(readable) <= Cardinality(readable \cup new)
              /\ new # {} =>
                   Cardinality(readable) < Cardinality(readable \cup new)
<1>1. readable \subseteq Locations
  BY DEF TypeOK
<1>2. IsFiniteSet(readable) /\ Cardinality(readable) <= Cardinality(Locations)
  BY <1>1, LocationsFinite, FS_Subset
<1>3. Cardinality(readable) \in Nat
  BY <1>2, FS_CardinalityType
<1>4. ASSUME NEW new \in SUBSET (Locations \ readable)
      PROVE  /\ Cardinality(readable \cup new) \in Nat
             /\ Cardinality(readable) <= Cardinality(readable \cup new)
             /\ new # {} => Cardinality(readable) < Cardinality(readable \cup new)
  <2>1. readable \cup new \subseteq Locations
    BY <1>1, <1>4
  <2>2. IsFiniteSet(readable \cup new)
    BY <2>1, LocationsFinite, FS_Subset
  <2>3. Cardinality(readable \cup new) \in Nat
    BY <2>2, FS_CardinalityType
  <2>4. /\ Cardinality(readable) <= Cardinality(readable \cup new)
        /\ Cardinality(readable) = Cardinality(readable \cup new)
             => readable = readable \cup new
    BY <2>2, FS_Subset
  <2> QED
    BY <1>3, <1>4, <2>3, <2>4
<1> QED
  BY <1>2, <1>3, <1>4, LocationsFinite

(* LOOT: what it finds leaks at the level found last and nowhere nearer.   *)
LEMMA LootLevels ==
  ASSUME TypeOK, NEW level \in [Locations -> Nat], NEW r \in Nat,
         Leveled(level, r), Loot
  PROVE  Leveled(level, r)'
<1>1. /\ estate' = estate /\ readable' = readable /\ unlocked_by' = unlocked_by
      /\ pc = "loot" /\ pc' = "access"
      /\ Locations' = Locations /\ Principals' = Principals
      /\ \A l : At(l)' = At(l)
      /\ \A s, l : Opens(estate.claims, s, l)' <=> Opens(estate.claims, s, l)
  BY DEF Loot, Locations, Principals, At, Opens
<1>2. /\ Looted \subseteq Looted'
      /\ \A s \in Looted : looted_at'[s] = looted_at[s]
  BY DEF Loot, Looted
<1>3. ASSUME NEW s \in Looted', s \notin Looted
      PROVE  /\ s \in Principals
             /\ looted_at'[s] \in readable /\ s \in At(looted_at'[s]).leaks
             /\ level[looted_at'[s]] = r
             /\ \A l \in readable : s \in At(l).leaks => level[l] = r
  <2>1. s \in Sids /\ s \in Principals /\ looted_at'[s] = LootSite(s)
        /\ LootSite(s) # NoLocation
    BY <1>3 DEF Loot, Looted
  <2>2. LootSite(s) \in readable /\ s \in At(LootSite(s)).leaks
    BY <2>1, LootSiteFacts
  <2>3. \A l \in readable : s \in At(l).leaks => level[l] = r
    BY <1>1, <1>3, <2>1 DEF Leveled, Frontier
  <2> QED
    BY <2>1, <2>2, <2>3
<1>4. readable \subseteq Locations /\ \A l \in readable : level[l] \in Nat
  BY DEF TypeOK
<1>5. Recorded(level)'
  <2>1. \A l \in readable : Entrance(level, l) => Entrance(level, l)'
    BY <1>1, <1>2 DEF Entrance
  <2>2. \A s \in Looted' : /\ s \in Principals /\ looted_at'[s] \in readable
                           /\ s \in At(looted_at'[s]).leaks
    BY <1>2, <1>3 DEF Leveled, Recorded
  <2> QED
    BY <1>1, <2>1, <2>2 DEF Leveled, Recorded
<1>6. Shortest(level)'
  <2>1. ASSUME NEW s \in Looted', NEW l \in readable
        PROVE  /\ s \in At(l).leaks => level[looted_at'[s]] <= level[l]
               /\ Opens(estate.claims, s, l) => level[l] <= level[looted_at'[s]] + 1
    <3>1. CASE s \in Looted
      BY <1>2, <2>1, <3>1 DEF Leveled, Shortest
    <3>2. CASE s \notin Looted
      <4>1. level[l] <= r /\ level[l] \in Nat
        BY <1>4, <2>1 DEF Leveled, Frontier
      <4> QED
        BY <1>3, <2>1, <3>2, <4>1
    <3> QED
      BY <3>1, <3>2
  <2> QED
    BY <1>1, <2>1 DEF Shortest
<1>7. Frontier(level, r)'
  <2>1. Searched'
    <3>1. ASSUME NEW l \in readable, NEW s \in At(l).leaks \cap Principals,
                 s \notin Looted
          PROVE  s \in Looted'
      <4>1. s \in Sids /\ LootSite(s) # NoLocation
        BY <3>1, LootSiteFacts, EstateTypes
      <4> QED
        BY <3>1, <4>1 DEF Loot, Looted
    <3> QED
      BY <1>1, <1>2, <3>1 DEF Searched
  <2>2. ASSUME NEW s \in Looted', NEW l \in Locations \ readable,
               Opens(estate.claims, s, l)
        PROVE  level[looted_at'[s]] = r
    BY <1>1, <1>3, <2>2 DEF Leveled, Frontier
  <2> QED
    BY <1>1, <2>1, <2>2 DEF Leveled, Frontier
<1> QED
  BY <1>5, <1>6, <1>7 DEF Leveled

(* ACCESS: the locations it opens are exactly one level further.           *)
LEMMA AccessLevels ==
  ASSUME TypeOK, NEW level \in [Locations -> Nat], NEW r \in Nat,
         Leveled(level, r), NothingLeft,
         NEW new, new = {l \in Locations \ readable : Openers(l) # {}},
         NEW further, further = [l \in Locations |-> IF l \in new THEN r + 1 ELSE level[l]],
         Access
  PROVE  Leveled(further, IF new = {} THEN r ELSE r + 1)'
<1>1. /\ estate' = estate /\ looted_at' = looted_at /\ Looted' = Looted
      /\ Locations' = Locations /\ Principals' = Principals
      /\ \A l : At(l)' = At(l)
      /\ \A s, l : Opens(estate.claims, s, l)' <=> Opens(estate.claims, s, l)
      /\ pc = "access" /\ pc' \in {"loot", "graph"}
  BY DEF Access, Locations, Principals, At, Opens, Looted
<1>2. readable' = readable \cup new /\ readable \subseteq Locations
  BY DEF Access, Enter, TypeOK
<1>3. PICK who \in [{At(l).door : l \in new} -> Users] :
        /\ \A l \in new : NamedFor(who, l)
        /\ unlocked_by' = [l \in Locations |->
             IF l \in new
             THEN [sid |-> Least(Openers(l)), user |-> who[At(l).door]]
             ELSE unlocked_by[l]]
  <2>1. Enter({l \in Locations \ readable : Openers(l) # {}})
    BY DEF Access
  <2>2. Enter(new)
    BY <2>1
  <2> QED
    BY <2>2 DEF Enter
<1>4. /\ \A l \in readable : further[l] = level[l] /\ level[l] \in Nat
                             /\ level[l] <= r /\ unlocked_by'[l] = unlocked_by[l]
      /\ \A l \in new : further[l] = r + 1
  BY <1>2, <1>3 DEF Leveled, Frontier
<1>5. \A s \in Looted : /\ s \in Principals /\ looted_at[s] \in readable
                        /\ s \in At(looted_at[s]).leaks
                        /\ further[looted_at[s]] = level[looted_at[s]]
                        /\ level[looted_at[s]] \in Nat
                        /\ level[looted_at[s]] <= r
  BY <1>4 DEF Leveled, Recorded
<1>6. \A s \in Looted, l \in new :
        Opens(estate.claims, s, l) => level[looted_at[s]] = r
  BY <1>1 DEF Leveled, Frontier
<1>7. Searched
  BY <1>1 DEF Leveled, Frontier
<1>8. ASSUME NEW l \in new
      PROVE  ~At(l).anon /\ Entrance(further, l)'
  <2>1. ~At(l).anon
    BY <1>8 DEF NothingLeft
  <2>2. PICK c \in estate.claims : /\ c.sid = Least(Openers(l)) /\ Unlocks(c, l)
                                   /\ c.user = who[At(l).door]
    BY <1>3, <1>8 DEF NamedFor
  <2>3. c.sid \in Looted
    <3>1. Openers(l) # {} /\ Openers(l) \in SUBSET Nat
      BY <1>8, SidAssumption DEF Openers, Looted
    <3>2. c.sid \in Openers(l)
      BY <2>2, <3>1, LeastIsMember
    <3> QED
      BY <3>2 DEF Openers
  <2>4. unlocked_by'[l].sid = c.sid /\ unlocked_by'[l].user = c.user
    BY <1>3, <1>8, <2>2
  <2>5. Opens(estate.claims, c.sid, l)
    BY <2>2 DEF Opens, Unlocks
  <2>6. further[l] = further[looted_at[c.sid]] + 1
    BY <1>4, <1>5, <1>6, <1>8, <2>3, <2>5
  <2> QED
    BY <1>1, <2>1, <2>2, <2>3, <2>4, <2>6 DEF Entrance, Unlocks
<1>9. Recorded(further)'
  <2>1. ASSUME NEW l \in Locations, l \notin readable' \/ At(l).anon
        PROVE  unlocked_by'[l] = Nobody
    <3>1. l \notin new
      BY <1>2, <1>8, <2>1
    <3> QED
      BY <1>2, <1>3, <2>1, <3>1 DEF Leveled, Recorded
  <2>2. ASSUME NEW l \in readable
        PROVE  IF At(l).anon THEN further[l] = 0 ELSE Entrance(further, l)'
    <3>1. CASE At(l).anon
      BY <1>4, <3>1 DEF Leveled, Recorded
    <3>2. CASE ~At(l).anon
      <4>1. PICK c \in estate.claims :
              /\ c.sid = unlocked_by[l].sid /\ c.door = At(l).door
              /\ c.user = unlocked_by[l].user
              /\ c.sid \in Looted
              /\ level[l] = level[looted_at[c.sid]] + 1
        BY <3>2 DEF Leveled, Recorded, Entrance
      <4>2. further[l] = further[looted_at[c.sid]] + 1
        BY <1>4, <1>5, <4>1
      <4>3. /\ c.sid = unlocked_by'[l].sid /\ c.user = unlocked_by'[l].user
            /\ c.sid \in Looted' /\ c.door = At(l)'.door
        BY <1>1, <1>4, <4>1
      <4>4. Entrance(further, l)'
        BY <1>1, <4>2, <4>3 DEF Entrance
      <4> QED
        BY <3>2, <4>4
    <3> QED
      BY <3>1, <3>2
  <2> QED
    BY <1>1, <1>2, <1>5, <1>8, <2>1, <2>2 DEF Recorded
<1>10. Shortest(further)'
  <2>1. ASSUME NEW s \in Looted, NEW l \in readable \cup new
        PROVE  /\ s \in At(l).leaks => further[looted_at[s]] <= further[l]
               /\ Opens(estate.claims, s, l) => further[l] <= further[looted_at[s]] + 1
    <3>1. CASE l \in readable
      <4>1. /\ s \in At(l).leaks => level[looted_at[s]] <= level[l]
            /\ Opens(estate.claims, s, l) => level[l] <= level[looted_at[s]] + 1
        BY <3>1 DEF Leveled, Shortest
      <4>2. further[l] = level[l] /\ further[looted_at[s]] = level[looted_at[s]]
        BY <1>4, <1>5, <3>1
      <4> QED
        BY <4>1, <4>2
    <3>2. CASE l \in new
      <4>1. further[l] = r + 1
        BY <1>4, <3>2
      <4>2. /\ further[looted_at[s]] = level[looted_at[s]]
            /\ level[looted_at[s]] \in Nat /\ level[looted_at[s]] <= r
        BY <1>5
      <4>3. Opens(estate.claims, s, l) => level[looted_at[s]] = r
        BY <1>6, <3>2
      <4> QED
        BY <4>1, <4>2, <4>3
    <3> QED
      BY <3>1, <3>2
  <2> QED
    BY <1>1, <1>2, <2>1 DEF Shortest
<1>11. Frontier(further, IF new = {} THEN r ELSE r + 1)'
  <2> DEFINE q == IF new = {} THEN r ELSE r + 1
  <2>1. ASSUME NEW l \in readable \cup new
        PROVE  further[l] <= q
    <3>1. CASE l \in new
      BY <1>4, <3>1
    <3>2. CASE l \in readable
      <4>1. further[l] \in Nat /\ further[l] <= r
        BY <1>4, <3>2
      <4>2. r <= q
        OBVIOUS
      <4> QED
        BY <4>1, <4>2
    <3> QED
      BY <3>1, <3>2
  <2>2. ASSUME NEW s \in Principals \ Looted, NEW l \in readable \cup new,
               s \in At(l).leaks
        PROVE  further[l] = q
    <3>1. l \notin readable
      BY <1>7, <2>2 DEF Searched
    <3> QED
      BY <1>4, <2>2, <3>1
  <2>3. ASSUME NEW s \in Looted, NEW l \in Locations \ (readable \cup new)
        PROVE  ~Opens(estate.claims, s, l)
    BY <2>3 DEF Openers, Opens, Unlocks
  <2> HIDE DEF q
  <2>4. pc' # "access"
    BY <1>1
  <2>5. q' = q
    BY DEF q
  <2>6. Frontier(further, q)'
    BY <1>1, <1>2, <2>1, <2>2, <2>3, <2>4, <2>5 DEF Frontier
  <2> QED
    BY <2>6 DEF q
<1> QED
  BY <1>9, <1>10, <1>11 DEF Leveled

LEMMA BreadthFirstInit == Init => BreadthFirst
<1> SUFFICES ASSUME Init PROVE BreadthFirst
  OBVIOUS
<1>1. TypeOK
  BY TypeInit
<1> DEFINE level == [l \in Locations |-> 0]
<1>2. level \in [Locations -> Nat] /\ \A l \in Locations : level[l] = 0
  OBVIOUS
<1> HIDE DEF level
<1>3. Looted = {} /\ readable = {l \in Locations : At(l).anon} /\ pc = "loot"
  BY DEF Init, Looted
<1>4. Recorded(level)
  BY <1>2, <1>3 DEF Init, Recorded
<1>5. Shortest(level)
  BY <1>3 DEF Shortest
<1>6. Frontier(level, 0)
  BY <1>2, <1>3 DEF Frontier
<1>7. 0 <= Cardinality(readable)
  BY <1>1, ReadableCount
<1> QED
  BY <1>2, <1>4, <1>5, <1>6, <1>7 DEF BreadthFirst, Leveled

LEMMA BreadthFirstStep ==
  ASSUME TypeOK, NothingLeft, BreadthFirst, [Next]_vars
  PROVE  BreadthFirst'
<1>1. PICK level \in [Locations -> Nat], r \in Nat :
        r <= Cardinality(readable) /\ Leveled(level, r)
  BY DEF BreadthFirst
<1>2. Locations' = Locations /\ estate' = estate
  BY EstateFixed DEF Locations
<1>3. CASE Loot
  <2>1. readable' = readable /\ Leveled(level, r)'
    BY <1>1, <1>3, LootLevels DEF Loot
  <2> QED
    BY <1>1, <1>2, <2>1 DEF BreadthFirst
<1>4. CASE Access
  <2>0. PICK new, further, q :
          /\ new = {l \in Locations \ readable : Openers(l) # {}}
          /\ further = [l \in Locations |-> IF l \in new THEN r + 1 ELSE level[l]]
          /\ q = IF new = {} THEN r ELSE r + 1
    OBVIOUS
  <2>1. Leveled(further, q)'
    <3>1. Leveled(further, IF new = {} THEN r ELSE r + 1)'
      BY <1>1, <1>4, <2>0, AccessLevels
    <3>2. CASE new = {}
      BY <2>0, <3>1, <3>2
    <3>3. CASE new # {}
      BY <2>0, <3>1, <3>3
    <3> QED
      BY <3>2, <3>3
  <2>2. readable' = readable \cup new /\ new \in SUBSET (Locations \ readable)
    BY <1>4, <2>0 DEF Access, Enter
  <2>3. further \in [Locations -> Nat] /\ q \in Nat
    BY <1>1, <2>0
  <2>4. q <= Cardinality(readable')
    <3>1. /\ Cardinality(readable) \in Nat /\ Cardinality(readable') \in Nat
          /\ Cardinality(readable) <= Cardinality(readable')
          /\ new # {} => Cardinality(readable) < Cardinality(readable')
      BY <2>2, ReadableCount
    <3> QED
      BY <1>1, <2>0, <3>1
  <2> QED
    BY <1>2, <2>1, <2>3, <2>4 DEF BreadthFirst
<1>5. CASE Verify \/ UNCHANGED vars
  <2>1. /\ estate' = estate /\ readable' = readable /\ unlocked_by' = unlocked_by
        /\ looted_at' = looted_at /\ Looted' = Looted
        /\ pc' = pc \/ pc' = "verified"
    BY <1>5 DEF Verify, graphVars, vars, Looted
  <2>2. Leveled(level, r)'
    BY <1>1, <2>1
       DEF Leveled, Recorded, Entrance, Shortest, Frontier, Searched, Opens,
           Principals, At, Locations
  <2> QED
    BY <1>1, <1>2, <2>1, <2>2 DEF BreadthFirst
<1> QED
  BY <1>3, <1>4, <1>5 DEF Next
-----------------------------------------------------------------------------
(* Walk is the function its definition says, on every state of the loop.   *)
WalkBody(w, fuel) ==
  [l \in Locations |->
     IF fuel = 0 \/ unlocked_by[l] = Nobody THEN <<>>
     ELSE Append(w[fuel - 1][looted_at[unlocked_by[l].sid]], l)]

LEMMA WalkUnfolds ==
  ASSUME TypeOK
  PROVE  \A fuel \in 0 .. Len(estate.locations) :
           Walk[fuel] = WalkBody(Walk, fuel)
<1> DEFINE walks == {n \in Nat : \E w : w = [fuel \in 0 .. n |-> WalkBody(w, fuel)]}
<1>1. 0 \in walks
  <2> DEFINE w == [fuel \in 0 .. 0 |-> [l \in Locations |-> <<>>]]
  <2>1. \A fuel \in 0 .. 0 : w[fuel] = WalkBody(w, fuel)
    BY DEF WalkBody
  <2>2. w = [fuel \in 0 .. 0 |-> WalkBody(w, fuel)]
    BY <2>1
  <2> QED
    BY <2>2
<1>2. ASSUME NEW n \in walks
      PROVE  n + 1 \in walks
  <2>1. PICK w : w = [fuel \in 0 .. n |-> WalkBody(w, fuel)]
    OBVIOUS
  <2> DEFINE longer == [fuel \in 0 .. (n + 1) |-> WalkBody(w, fuel)]
  <2>2. \A fuel \in 0 .. n : longer[fuel] = w[fuel]
    BY <2>1
  <2>3. \A fuel \in 0 .. (n + 1) : WalkBody(longer, fuel) = WalkBody(w, fuel)
    <3> SUFFICES ASSUME NEW fuel \in 0 .. (n + 1)
                 PROVE  WalkBody(longer, fuel) = WalkBody(w, fuel)
      OBVIOUS
    <3> HIDE DEF longer
    <3>1. CASE fuel = 0
      BY <3>1 DEF WalkBody
    <3>2. CASE fuel # 0
      <4>1. fuel - 1 \in 0 .. n
        BY <3>2
      <4>2. longer[fuel - 1] = w[fuel - 1]
        BY <2>2, <4>1
      <4> QED
        BY <4>2 DEF WalkBody
    <3> QED
      BY <3>1, <3>2
  <2>4. longer = [fuel \in 0 .. (n + 1) |-> WalkBody(longer, fuel)]
    <3>1. longer = [fuel \in 0 .. (n + 1) |-> WalkBody(w, fuel)]
      OBVIOUS
    <3> HIDE DEF longer
    <3> QED
      BY <2>3, <3>1
  <2> HIDE DEF longer
  <2> QED
    BY <2>4
<1>3. walks = Nat
  <2> HIDE DEF walks
  <2>1. walks \in SUBSET Nat
    BY DEF walks
  <2> QED
    BY <1>1, <1>2, <2>1, EveryNumber
<1> DEFINE N == Len(estate.locations)
<1>4. \E w : w = [fuel \in 0 .. N |-> WalkBody(w, fuel)]
  BY <1>3, LocationsFinite
<1>5. Walk = [fuel \in 0 .. N |-> WalkBody(Walk, fuel)]
  BY <1>4 DEF Walk, WalkBody
<1> QED
  BY <1>5

(* Where the secret was found that opened a location.                      *)
Before(l) == looted_at[unlocked_by[l].sid]

(* One login of a path, read backwards.                                    *)
LEMMA LastHop ==
  ASSUME TypeOK, NEW level \in [Locations -> Nat], Recorded(level),
         NEW l \in readable
  PROVE  /\ unlocked_by[l] = Nobody <=> At(l).anon
         /\ At(l).anon => level[l] = 0
         /\ ~At(l).anon =>
              /\ Entrance(level, l)
              /\ unlocked_by[l].sid \in Looted /\ Before(l) \in readable
              /\ unlocked_by[l].sid \in At(Before(l)).leaks
              /\ level[l] = level[Before(l)] + 1
<1>1. At(l).anon => unlocked_by[l] = Nobody /\ level[l] = 0
  BY DEF Recorded, TypeOK
<1>2. ASSUME ~At(l).anon
      PROVE  /\ unlocked_by[l] # Nobody /\ Entrance(level, l)
             /\ unlocked_by[l].sid \in Looted /\ Before(l) \in readable
             /\ unlocked_by[l].sid \in At(Before(l)).leaks
             /\ level[l] = level[Before(l)] + 1
  <2>1. Entrance(level, l)
    BY <1>2 DEF Recorded
  <2>2. PICK c \in estate.claims :
          /\ c.sid = unlocked_by[l].sid /\ c.sid \in Looted
          /\ level[l] = level[looted_at[c.sid]] + 1
    BY <2>1 DEF Entrance
  <2>3. unlocked_by[l] # Nobody
    <3>1. unlocked_by[l].sid # NoSid
      BY <2>2, SidAssumption DEF Looted
    <3> QED
      BY <3>1 DEF Nobody
  <2> QED
    BY <2>1, <2>2, <2>3 DEF Recorded, Before
<1> QED
  BY <1>1, <1>2

(* With enough fuel the walk to a location takes as many logins as its     *)
(* level says: `loc in seen` never cuts a path short.                      *)
LEMMA WalkLength ==
  ASSUME TypeOK, NEW level \in [Locations -> Nat], Recorded(level)
  PROVE  \A fuel \in 0 .. Len(estate.locations), l \in readable :
           level[l] <= fuel =>
             /\ Walk[fuel][l] \in Seq(Locations)
             /\ Len(Walk[fuel][l]) = level[l]
<1> DEFINE N == Len(estate.locations)
           Right(fuel) == \A l \in readable :
             level[l] <= fuel =>
               /\ Walk[fuel][l] \in Seq(Locations)
               /\ Len(Walk[fuel][l]) = level[l]
           S == {fuel \in Nat : fuel <= N => Right(fuel)}
<1>0. N \in Nat /\ readable \subseteq Locations
  BY LocationsFinite DEF TypeOK
<1>1. \A fuel \in 0 .. N, l \in Locations :
        Walk[fuel][l] = IF fuel = 0 \/ unlocked_by[l] = Nobody THEN <<>>
                        ELSE Append(Walk[fuel - 1][Before(l)], l)
  BY WalkUnfolds DEF WalkBody, Before
<1> HIDE DEF N
<1>2. 0 \in S
  <2>1. ASSUME NEW l \in readable, level[l] <= 0
        PROVE  Walk[0][l] = <<>> /\ level[l] = 0
    BY <1>0, <1>1, <2>1
  <2>2. <<>> \in Seq(Locations) /\ Len(<<>>) = 0
    OBVIOUS
  <2>3. Right(0)
    BY <2>1, <2>2
  <2> QED
    BY <2>3
<1>3. ASSUME NEW n \in S
      PROVE  n + 1 \in S
  <2>1. SUFFICES ASSUME n + 1 <= N, NEW l \in readable, level[l] <= n + 1
                 PROVE  /\ Walk[n + 1][l] \in Seq(Locations)
                        /\ Len(Walk[n + 1][l]) = level[l]
    OBVIOUS
  <2>2. n + 1 \in 0 .. N /\ n + 1 # 0 /\ (n + 1) - 1 = n /\ Right(n)
    BY <1>0, <2>1
  <2>3. CASE At(l).anon
    <3>1. Walk[n + 1][l] = <<>> /\ level[l] = 0
      BY <1>0, <1>1, <2>2, <2>3, LastHop
    <3> QED
      BY <3>1
  <2>4. CASE ~At(l).anon
    <3>1. Walk[n + 1][l] = Append(Walk[n][Before(l)], l)
      <4>1. l \in Locations /\ unlocked_by[l] # Nobody
        BY <1>0, <2>4, LastHop
      <4>2. Walk[n + 1][l] =
              IF n + 1 = 0 \/ unlocked_by[l] = Nobody THEN <<>>
              ELSE Append(Walk[(n + 1) - 1][Before(l)], l)
        BY <1>1, <2>2, <4>1
      <4> QED
        BY <2>2, <4>1, <4>2
    <3>2. Before(l) \in readable /\ level[l] = level[Before(l)] + 1
      BY <2>4, LastHop
    <3>3. level[Before(l)] \in Nat /\ level[Before(l)] <= n
      BY <1>0, <2>1, <3>2
    <3>4. /\ Walk[n][Before(l)] \in Seq(Locations)
          /\ Len(Walk[n][Before(l)]) = level[Before(l)]
      BY <2>2, <3>2, <3>3
    <3> QED
      BY <1>0, <3>1, <3>2, <3>4
  <2> QED
    BY <2>3, <2>4
<1>4. S = Nat
  <2> HIDE DEF S
  <2>1. S \in SUBSET Nat
    BY DEF S
  <2> QED
    BY <1>2, <1>3, <2>1, EveryNumber
<1>5. ASSUME NEW fuel \in 0 .. N
      PROVE  Right(fuel)
  <2>1. fuel \in S /\ fuel <= N
    BY <1>0, <1>4
  <2> QED
    BY <2>1
<1> QED
  BY <1>5 DEF N
-----------------------------------------------------------------------------
WithinBody(w, n) ==
  {s \in Principals : \E l \in Locations :
     /\ s \in At(l).leaks
     /\ \/ At(l).anon
        \/ n > 0 /\ \E t \in w[n - 1] : Opens(estate.claims, t, l)}

LEMMA WithinUnfolds ==
  ASSUME TypeOK
  PROVE  \A n \in 0 .. Len(estate.locations) : Within[n] = WithinBody(Within, n)
<1> DEFINE sets == {n \in Nat : \E w : w = [i \in 0 .. n |-> WithinBody(w, i)]}
<1>1. 0 \in sets
  <2> DEFINE w == [i \in 0 .. 0 |-> WithinBody(<<>>, 0)]
  <2>1. \A i \in 0 .. 0 : w[i] = WithinBody(w, i)
    BY DEF WithinBody
  <2>2. w = [i \in 0 .. 0 |-> WithinBody(w, i)]
    <3>1. w = [i \in 0 .. 0 |-> w[i]]
      OBVIOUS
    <3> HIDE DEF w
    <3> QED
      BY <2>1, <3>1
  <2> HIDE DEF w
  <2> QED
    BY <2>2
<1>2. ASSUME NEW n \in sets
      PROVE  n + 1 \in sets
  <2>1. PICK w : w = [i \in 0 .. n |-> WithinBody(w, i)]
    OBVIOUS
  <2> DEFINE longer == [i \in 0 .. (n + 1) |-> WithinBody(w, i)]
  <2>2. \A i \in 0 .. n : longer[i] = w[i]
    BY <2>1
  <2>3. \A i \in 0 .. (n + 1) : WithinBody(longer, i) = WithinBody(w, i)
    <3> SUFFICES ASSUME NEW i \in 0 .. (n + 1)
                 PROVE  WithinBody(longer, i) = WithinBody(w, i)
      OBVIOUS
    <3> HIDE DEF longer
    <3>1. CASE i = 0
      BY <3>1 DEF WithinBody
    <3>2. CASE i # 0
      <4>1. i - 1 \in 0 .. n
        BY <3>2
      <4>2. longer[i - 1] = w[i - 1]
        BY <2>2, <4>1
      <4> QED
        BY <4>2 DEF WithinBody
    <3> QED
      BY <3>1, <3>2
  <2>4. longer = [i \in 0 .. (n + 1) |-> WithinBody(longer, i)]
    <3>1. longer = [i \in 0 .. (n + 1) |-> WithinBody(w, i)]
      OBVIOUS
    <3> HIDE DEF longer
    <3> QED
      BY <2>3, <3>1
  <2> HIDE DEF longer
  <2> QED
    BY <2>4
<1>3. sets = Nat
  <2> HIDE DEF sets
  <2>1. sets \in SUBSET Nat
    BY DEF sets
  <2> QED
    BY <1>1, <1>2, <2>1, EveryNumber
<1> DEFINE N == Len(estate.locations)
<1>4. \E w : w = [i \in 0 .. N |-> WithinBody(w, i)]
  BY <1>3, LocationsFinite
<1>5. Within = [i \in 0 .. N |-> WithinBody(Within, i)]
  BY <1>4 DEF Within, WithinBody
<1> QED
  BY <1>5

(* When the loop has ended, the secrets within n logins are those that     *)
(* were looted at a level up to n.                                         *)
LEMMA WithinLevels ==
  ASSUME TypeOK, NEW level \in [Locations -> Nat], Recorded(level),
         Shortest(level), Closed(estate.claims, readable, Looted)
  PROVE  \A n \in 0 .. Len(estate.locations) :
           Within[n] = {s \in Looted : level[looted_at[s]] <= n}
<1> DEFINE N == Len(estate.locations)
           Upto(n) == {s \in Looted : level[looted_at[s]] <= n}
           S == {n \in Nat : n <= N => Within[n] = Upto(n)}
<1>0. /\ N \in Nat /\ readable \subseteq Locations
      /\ \A s \in Looted : /\ s \in Principals /\ looted_at[s] \in readable
                           /\ s \in At(looted_at[s]).leaks
                           /\ level[looted_at[s]] \in Nat
  BY LocationsFinite DEF TypeOK, Recorded
<1>1. \A n \in 0 .. N : Within[n] = WithinBody(Within, n)
  BY WithinUnfolds
<1> HIDE DEF N
(* Anonymous text is at level 0, and what it leaks is looted there.        *)
<1>2. ASSUME NEW s \in Principals, NEW l \in Locations, At(l).anon, s \in At(l).leaks
      PROVE  s \in Looted /\ level[looted_at[s]] = 0
  <2>1. l \in readable /\ s \in Looted /\ level[l] = 0
    BY <1>2, LastHop DEF Closed
  <2>2. level[looted_at[s]] <= level[l]
    BY <1>2, <2>1 DEF Shortest
  <2> QED
    BY <1>0, <2>1, <2>2
<1>3. 0 \in S
  <2>1. 0 \in 0 .. N
    BY <1>0
  <2>2. Within[0] = {s \in Principals : \E l \in Locations :
                       s \in At(l).leaks /\ At(l).anon}
    BY <1>1, <2>1 DEF WithinBody
  <2>3. ASSUME NEW s \in Looted, level[looted_at[s]] <= 0
        PROVE  At(looted_at[s]).anon
    <3>1. looted_at[s] \in readable /\ level[looted_at[s]] = 0
      BY <1>0, <2>3
    <3>2. ASSUME ~At(looted_at[s]).anon
          PROVE  FALSE
      <4>1. /\ level[looted_at[s]] = level[Before(looted_at[s])] + 1
            /\ Before(looted_at[s]) \in readable
        BY <3>1, <3>2, LastHop
      <4> QED
        BY <1>0, <3>1, <4>1
    <3> QED
      BY <3>2
  <2>4. Within[0] \subseteq Upto(0)
    BY <1>2, <2>2
  <2>5. Upto(0) \subseteq Within[0]
    BY <1>0, <2>2, <2>3
  <2> QED
    BY <2>4, <2>5
<1>4. ASSUME NEW n \in S
      PROVE  n + 1 \in S
  <2>1. SUFFICES ASSUME n + 1 <= N
                 PROVE  Within[n + 1] = Upto(n + 1)
    OBVIOUS
  <2>2. n + 1 \in 0 .. N /\ n + 1 > 0 /\ (n + 1) - 1 = n /\ Within[n] = Upto(n)
    BY <1>0, <2>1
  <2>3. Within[n + 1] = {s \in Principals : \E l \in Locations :
                           /\ s \in At(l).leaks
                           /\ At(l).anon \/ \E t \in Upto(n) : Opens(estate.claims, t, l)}
    BY <1>1, <2>2 DEF WithinBody
  <2>4. ASSUME NEW s \in Principals, NEW l \in Locations, s \in At(l).leaks,
               NEW t \in Upto(n), Opens(estate.claims, t, l)
        PROVE  s \in Upto(n + 1)
    <3>1. t \in Looted /\ l \in readable /\ s \in Looted
      BY <2>4 DEF Closed
    <3>2. /\ level[looted_at[s]] <= level[l]
          /\ level[l] <= level[looted_at[t]] + 1
      BY <2>4, <3>1 DEF Shortest
    <3>3. level[looted_at[t]] <= n
      BY <2>4
    <3> QED
      BY <1>0, <3>1, <3>2, <3>3
  <2>5. Within[n + 1] \subseteq Upto(n + 1)
    BY <1>0, <1>2, <2>3, <2>4
  <2>6. ASSUME NEW s \in Upto(n + 1)
        PROVE  s \in Within[n + 1]
    <3> DEFINE l == looted_at[s]
    <3>1. /\ s \in Principals /\ l \in readable /\ l \in Locations
          /\ s \in At(l).leaks /\ level[l] <= n + 1 /\ level[l] \in Nat
      BY <1>0, <2>6
    <3> HIDE DEF l
    <3>2. CASE At(l).anon
      BY <2>3, <3>1, <3>2
    <3>3. CASE ~At(l).anon
      <4> DEFINE t == unlocked_by[l].sid
      <4>1. /\ t \in Looted /\ Entrance(level, l)
            /\ level[l] = level[looted_at[t]] + 1
        BY <3>1, <3>3, LastHop DEF Before
      <4>2. Opens(estate.claims, t, l)
        BY <4>1 DEF Entrance, Opens
      <4>3. t \in Upto(n)
        BY <1>0, <3>1, <4>1
      <4> QED
        BY <2>3, <3>1, <4>2, <4>3
    <3> QED
      BY <3>2, <3>3
  <2> QED
    BY <2>5, <2>6
<1>5. S = Nat
  <2> HIDE DEF S
  <2>1. S \in SUBSET Nat
    BY DEF S
  <2> QED
    BY <1>3, <1>4, <2>1, EveryNumber
<1>6. ASSUME NEW n \in 0 .. N
      PROVE  Within[n] = Upto(n)
  <2>1. n \in S /\ n <= N
    BY <1>0, <1>5
  <2> QED
    BY <2>1
<1> QED
  BY <1>6 DEF N

(* When the logins C hold every login to a location of a walk by the user  *)
(* who took it, the walk leads to nothing that C does not lead to.         *)
LEMMA WalkAccepted ==
  ASSUME TypeOK, NEW level \in [Locations -> Nat], Recorded(level),
         NEW C \in SUBSET estate.claims,
         NEW S \in SUBSET Locations, NEW T \in SUBSET Sids, Closed(C, S, T)
  PROVE  \A fuel \in 0 .. Len(estate.locations), l \in readable :
           /\ level[l] <= fuel
           /\ \A i \in DOMAIN Walk[fuel][l] :
                \A c \in estate.claims :
                  /\ c.door = At(Walk[fuel][l][i]).door
                  /\ c.user = unlocked_by[Walk[fuel][l][i]].user
                  => c \in C
           => l \in S
<1> DEFINE N == Len(estate.locations)
           Live(m) == \A c \in estate.claims :
                        c.door = At(m).door /\ c.user = unlocked_by[m].user => c \in C
           Right(fuel) == \A l \in readable :
             /\ level[l] <= fuel
             /\ \A i \in DOMAIN Walk[fuel][l] : Live(Walk[fuel][l][i])
             => l \in S
           R == {fuel \in Nat : fuel <= N => Right(fuel)}
<1>0. N \in Nat /\ readable \subseteq Locations
  BY LocationsFinite DEF TypeOK
<1>1. \A fuel \in 0 .. N, l \in Locations :
        Walk[fuel][l] = IF fuel = 0 \/ unlocked_by[l] = Nobody THEN <<>>
                        ELSE Append(Walk[fuel - 1][Before(l)], l)
  BY WalkUnfolds DEF WalkBody, Before
<1>2. \A l \in readable : At(l).anon => l \in S
  BY <1>0 DEF Closed
<1> HIDE DEF N, Live
<1>3. 0 \in R
  <2>1. ASSUME NEW l \in readable, level[l] <= 0
        PROVE  l \in S
    <3>1. level[l] = 0
      BY <1>0, <2>1
    <3>2. CASE At(l).anon
      BY <1>2, <3>2
    <3>3. CASE ~At(l).anon
      <4>1. level[l] = level[Before(l)] + 1 /\ Before(l) \in readable
        BY <3>3, LastHop
      <4> QED
        BY <1>0, <3>1, <4>1
    <3> QED
      BY <3>2, <3>3
  <2> QED
    BY <2>1
<1>4. ASSUME NEW n \in R
      PROVE  n + 1 \in R
  <2>1. SUFFICES ASSUME n + 1 <= N, NEW l \in readable, level[l] <= n + 1,
                        \A i \in DOMAIN Walk[n + 1][l] : Live(Walk[n + 1][l][i])
                 PROVE  l \in S
    OBVIOUS
  <2>2. /\ n + 1 \in 0 .. N /\ n \in 0 .. N /\ n + 1 # 0 /\ (n + 1) - 1 = n
        /\ Right(n)
    BY <1>0, <2>1
  <2>3. CASE At(l).anon
    BY <1>2, <2>3
  <2>4. CASE ~At(l).anon
    <3> DEFINE k == Before(l)
               s == unlocked_by[l].sid
    <3>1. /\ k \in readable /\ k \in Locations /\ level[l] = level[k] + 1
          /\ s \in Looted /\ s \in At(k).leaks /\ Entrance(level, l)
          /\ unlocked_by[l] # Nobody /\ l \in Locations
      BY <1>0, <2>4, LastHop
    <3>2. Walk[n + 1][l] = Append(Walk[n][k], l)
      <4>1. Walk[n + 1][l] =
              IF n + 1 = 0 \/ unlocked_by[l] = Nobody THEN <<>>
              ELSE Append(Walk[(n + 1) - 1][k], l)
        BY <1>1, <2>2, <3>1
      <4> QED
        BY <2>2, <3>1, <4>1
    <3> HIDE DEF k
    <3>3. level[k] \in Nat /\ level[k] <= n
      BY <2>1, <3>1
    <3>4. Walk[n][k] \in Seq(Locations)
      BY <2>2, <3>1, <3>3, WalkLength DEF N
    <3>5. \A i \in DOMAIN Walk[n][k] : Live(Walk[n][k][i])
      <4>1. \A w \in Seq(Locations) : \A i \in DOMAIN w :
              i \in DOMAIN Append(w, l) /\ Append(w, l)[i] = w[i]
        BY <3>1
      <4>2. \A i \in DOMAIN Walk[n][k] :
              i \in DOMAIN Walk[n + 1][l] /\ Walk[n + 1][l][i] = Walk[n][k][i]
        BY <3>2, <3>4, <4>1
      <4> QED
        BY <2>1, <4>2
    <3>6. Live(l)
      <4>1. /\ Len(Walk[n][k]) + 1 \in DOMAIN Walk[n + 1][l]
            /\ Walk[n + 1][l][Len(Walk[n][k]) + 1] = l
        BY <3>1, <3>2, <3>4
      <4> QED
        BY <2>1, <4>1
    <3>7. k \in S
      BY <2>2, <3>1, <3>3, <3>5
    <3>8. s \in T
      <4>1. s \in Principals
        BY <3>1 DEF Recorded
      <4> QED
        BY <3>1, <3>7, <4>1 DEF Closed
    <3>9. PICK c \in estate.claims : /\ c.sid = s /\ c.door = At(l).door
                                     /\ c.user = unlocked_by[l].user
      BY <3>1 DEF Entrance
    <3>10. c \in C
      BY <3>6, <3>9 DEF Live
    <3>11. Opens(C, s, l)
      BY <3>9, <3>10 DEF Opens
    <3> QED
      BY <3>1, <3>8, <3>11 DEF Closed
  <2> QED
    BY <2>3, <2>4
<1>5. R = Nat
  <2> HIDE DEF R
  <2>1. R \in SUBSET Nat
    BY DEF R
  <2> QED
    BY <1>3, <1>4, <2>1, EveryNumber
<1>6. ASSUME NEW fuel \in 0 .. N
      PROVE  Right(fuel)
  <2>1. fuel \in R /\ fuel <= N
    BY <1>0, <1>5
  <2> QED
    BY <2>1
<1> QED
  BY <1>6 DEF N, Live
-----------------------------------------------------------------------------
(* No path is longer than the fuel of its walk.                            *)
LEMMA EnoughFuel ==
  ASSUME TypeOK, NEW level \in [Locations -> Nat], NEW r \in Nat,
         r <= Cardinality(readable), Leveled(level, r), NEW s \in Looted
  PROVE  /\ looted_at[s] \in readable /\ s \in At(looted_at[s]).leaks
         /\ s \in Principals
         /\ level[looted_at[s]] \in Nat
         /\ level[looted_at[s]] <= Len(estate.locations)
         /\ Len(estate.locations) \in 0 .. Len(estate.locations)
         /\ Pivots[s] = Walk[Len(estate.locations)][looted_at[s]]
         /\ Pivots[s] \in Seq(Locations)
         /\ Len(Pivots[s]) = level[looted_at[s]]
<1>1. /\ looted_at[s] \in readable /\ s \in At(looted_at[s]).leaks /\ s \in Principals
      /\ level[looted_at[s]] <= r
  BY DEF Leveled, Recorded, Frontier
<1>2. level[looted_at[s]] \in Nat
  BY <1>1 DEF TypeOK
<1>3. /\ Cardinality(readable) \in Nat /\ Len(estate.locations) \in Nat
      /\ Cardinality(readable) <= Len(estate.locations)
  BY ReadableCount, LocationsFinite
<1>4. /\ level[looted_at[s]] <= Len(estate.locations)
      /\ Len(estate.locations) \in 0 .. Len(estate.locations)
  BY <1>1, <1>2, <1>3
<1>5. Pivots[s] = Walk[Len(estate.locations)][looted_at[s]]
  BY DEF Pivots
<1>6. Pivots[s] \in Seq(Locations) /\ Len(Pivots[s]) = level[looted_at[s]]
  BY <1>1, <1>4, <1>5, WalkLength DEF Leveled
<1> QED
  BY <1>1, <1>2, <1>4, <1>5, <1>6

LEMMA HopsAreLevels ==
  ASSUME TypeOK, NothingLeft, BreadthFirst
  PROVE  HopsMinimal
<1>1. PICK level \in [Locations -> Nat], r \in Nat :
        r <= Cardinality(readable) /\ Leveled(level, r)
  BY DEF BreadthFirst
<1>2. SUFFICES ASSUME pc = "graph", NEW s \in Looted,
                      NEW n \in 0 .. Len(estate.locations)
               PROVE  s \in Within[n] <=> Hops(s) <= n
  BY DEF HopsMinimal
<1>3. Hops(s) = level[looted_at[s]]
  BY <1>1, EnoughFuel DEF Hops
<1>4. Within[n] = {t \in Looted : level[looted_at[t]] <= n}
  BY <1>1, <1>2, WithinLevels DEF Leveled, NothingLeft
<1> QED
  BY <1>3, <1>4

(* The verdict of a key is live when one of its claims was accepted.       *)
LEMMA CollapsedLive ==
  ASSUME NEW v, NEW door, NEW user, Collapsed(v, door, user) = "measured-live"
  PROVE  \E d \in estate.claims :
           v[d] = "measured-live" /\ d.door = door /\ d.user = user
<1> DEFINE keys == {c \in estate.claims : Key(c.door, c.user) = Key(door, user)}
           answers == {v[c] : c \in keys}
<1>1. "measured-live" \in answers
  BY DEF Collapsed
<1>2. PICK d \in keys : v[d] = "measured-live"
  BY <1>1
<1> QED
  BY <1>2 DEF Key

LEMMA ConfirmedLive ==
  ASSUME NEW v, NEW s \in Looted, PathVerdict(v, s) = "confirmed-live",
         NEW i \in DOMAIN Pivots[s]
  PROVE  Collapsed(v, At(Pivots[s][i]).door, unlocked_by[Pivots[s][i]].user)
           = "measured-live"
<1> DEFINE path == {Pivots[s][j] : j \in DOMAIN Pivots[s]}
           pv == {Collapsed(v, At(l).door, unlocked_by[l].user) : l \in path}
<1>1. pv = {"measured-live"}
  BY DEF PathVerdict
<1>2. Pivots[s][i] \in path
  OBVIOUS
<1> QED
  BY <1>1, <1>2

LEMMA ConfirmedStep ==
  ASSUME TypeOK, BreadthFirst, Verify
  PROVE  ConfirmedByKeys'
<1>1. PICK level \in [Locations -> Nat], r \in Nat :
        r <= Cardinality(readable) /\ Leveled(level, r)
  BY DEF BreadthFirst
<1>2. PICK v \in [estate.claims -> Tiers] :
        /\ verdict' = v
        /\ path_verdict' = [s \in Sids |->
             IF s \in Looted THEN PathVerdict(v, s) ELSE "none"]
  BY DEF Verify
<1>3. PICK C : C = {c \in estate.claims :
                      \E d \in estate.claims : /\ v[d] = "measured-live"
                                               /\ d.door = c.door
                                               /\ d.user = c.user}
  OBVIOUS
<1>4. ASSUME NEW s \in Sids, path_verdict'[s] = "confirmed-live",
             NEW S \in SUBSET Locations, NEW T \in SUBSET Sids, Closed(C, S, T)
      PROVE  s \in T
  <2>1. s \in Looted /\ PathVerdict(v, s) = "confirmed-live"
    BY <1>2, <1>4
  <2>2. ASSUME NEW i \in DOMAIN Pivots[s], NEW c \in estate.claims,
               c.door = At(Pivots[s][i]).door,
               c.user = unlocked_by[Pivots[s][i]].user
        PROVE  c \in C
    <3>1. \E d \in estate.claims :
            v[d] = "measured-live" /\ d.door = c.door /\ d.user = c.user
      BY <2>1, <2>2, ConfirmedLive, CollapsedLive
    <3> QED
      BY <1>3, <3>1
  <2>3. looted_at[s] \in S
    <3>1. C \in SUBSET estate.claims
      BY <1>3
    <3> DEFINE N == Len(estate.locations)
    <3>2. /\ looted_at[s] \in readable /\ level[looted_at[s]] <= N /\ N \in 0 .. N
          /\ Pivots[s] = Walk[N][looted_at[s]]
      BY <1>1, <2>1, EnoughFuel
    <3>3. \A i \in DOMAIN Walk[N][looted_at[s]] : \A c \in estate.claims :
            /\ c.door = At(Walk[N][looted_at[s]][i]).door
            /\ c.user = unlocked_by[Walk[N][looted_at[s]][i]].user
            => c \in C
      BY <2>2, <3>2
    <3>4. Recorded(level)
      BY <1>1 DEF Leveled
    <3> QED
      BY <1>4, <3>1, <3>2, <3>3, <3>4, WalkAccepted
  <2> QED
    BY <1>1, <1>4, <2>1, <2>3, EnoughFuel DEF Closed
<1>5. /\ estate' = estate /\ Locations' = Locations
      /\ C = {c \in estate'.claims :
                \E d \in estate'.claims : /\ verdict'[d] = "measured-live"
                                          /\ d.door = c.door
                                          /\ d.user = c.user}
      /\ \A S, T : Closed(C, S, T)' <=> Closed(C, S, T)
  BY <1>2, <1>3 DEF Verify, Locations, Closed, At, Principals, Opens
<1> QED
  BY <1>4, <1>5 DEF ConfirmedByKeys

(* Nothing is said of a path before the estate has been tried.             *)
Unverified == pc # "verified" => \A s \in Sids : path_verdict[s] = "none"

LEMMA VerdictStep ==
  ASSUME TypeOK, BreadthFirst, Unverified, ConfirmedByKeys, [Next]_vars
  PROVE  Unverified' /\ ConfirmedByKeys'
<1>1. CASE Loot \/ Access
  <2>1. pc # "verified" /\ path_verdict' = path_verdict
    BY <1>1 DEF Loot, Access, verifyVars
  <2>2. \A s \in Sids : path_verdict'[s] # "confirmed-live" /\ path_verdict'[s] = "none"
    BY <2>1 DEF Unverified
  <2> QED
    BY <2>2 DEF Unverified, ConfirmedByKeys
<1>2. CASE Verify
  BY <1>2, ConfirmedStep DEF Verify, Unverified
<1>3. CASE UNCHANGED vars
  <2>1. /\ estate' = estate /\ verdict' = verdict /\ path_verdict' = path_verdict
        /\ pc' = pc /\ Locations' = Locations
        /\ \A C, S, T : Closed(C, S, T)' <=> Closed(C, S, T)
    BY <1>3 DEF vars, Closed, At, Principals, Locations, Opens
  <2>2. Unverified'
    BY <2>1 DEF Unverified
  <2>3. ConfirmedByKeys'
    BY <2>1 DEF ConfirmedByKeys
  <2> QED
    BY <2>2, <2>3
<1> QED
  BY <1>1, <1>2, <1>3 DEF Next

IInv == /\ TypeOK /\ NothingInvented /\ NothingLeft
        /\ BreadthFirst /\ Unverified /\ ConfirmedByKeys

LEMMA IInvariant == Spec => []IInv
<1>1. Init => IInv
  <2> SUFFICES ASSUME Init PROVE IInv
    OBVIOUS
  <2>1. TypeOK
    BY TypeInit
  <2>2. Looted = {}
    BY DEF Init, Looted
  <2>3. NothingInvented
    BY <2>2 DEF Init, NothingInvented, Closed
  <2>4. NothingLeft
    BY DEF Init, NothingLeft
  <2>5. BreadthFirst
    BY BreadthFirstInit
  <2>6. Unverified /\ ConfirmedByKeys
    BY DEF Init, Unverified, ConfirmedByKeys
  <2> QED
    BY <2>1, <2>3, <2>4, <2>5, <2>6 DEF IInv
<1>2. IInv /\ [Next]_vars => IInv'
  BY TypeStep, NothingInventedStep, NothingLeftStep, BreadthFirstStep, VerdictStep
     DEF IInv
<1> QED
  BY <1>1, <1>2, PTL DEF Spec
-----------------------------------------------------------------------------
(* The walk keeps its types; above all a secret is only ever found at a    *)
(* location that can be read.                                              *)
THEOREM TypeCorrect == Spec => []TypeOK
<1>1. IInv => TypeOK
  BY DEF IInv
<1> QED
  BY <1>1, IInvariant, PTL

(* compose_paths fabricates nothing: on every estate, all that it reports  *)
(* reachable is in each set closed under the estate's leaks and logins.    *)
THEOREM Sound == Spec => []ReachSound
<1>1. IInv => ReachSound
  BY DEF IInv, NothingInvented, ReachSound
<1> QED
  BY <1>1, IInvariant, PTL

(* compose_paths reaches its fixpoint: on every estate, when the loop ends *)
(* no leak is unread and no door that could be opened is closed.           *)
THEOREM Complete == Spec => []ReachComplete
<1>1. IInv => ReachComplete
  BY DEF IInv, NothingLeft, ReachComplete
<1> QED
  BY <1>1, IInvariant, PTL

(* The paths shown are shortest: on every estate, `hops` is the least      *)
(* number of logins that leads from anonymous text to the secret.          *)
THEOREM ShortestPaths == Spec => []HopsMinimal
<1>1. IInv => HopsMinimal
  BY HopsAreLevels DEF IInv
<1> QED
  BY <1>1, IInvariant, PTL

(* A confirmed path rests on logins that were accepted, for the door and   *)
(* the user if not for the secret: on every estate, for every answer.      *)
THEOREM Confirmed == Spec => []ConfirmedByKeys
<1>1. IInv => ConfirmedByKeys
  BY DEF IInv
<1> QED
  BY <1>1, IInvariant, PTL
-----------------------------------------------------------------------------
(* The types of what a directory says.                                     *)
LEMMA DirectoryTypes ==
  ASSUME directory \in Directory
  PROVE  /\ Entries = 1 .. Len(directory.entries) /\ Len(directory.entries) \in Nat
         /\ \A i \in Entries : E(i) \in Entry
         /\ \A l : GroupsOf(l) \in SUBSET Labels
<1>1. directory.entries \in Seq(Entry) /\ directory.authored \in SUBSET (Labels \X Labels)
  BY DEF Directory
<1>2. /\ Entries = 1 .. Len(directory.entries) /\ Len(directory.entries) \in Nat
      /\ \A i \in Entries : E(i) \in Entry
  BY <1>1 DEF Entries, E
<1>3. \A i \in Entries : E(i).label \in Labels
  BY <1>2 DEF Entry
<1>4. \A p \in directory.authored : p[2] \in Labels
  BY <1>1
<1>5. ASSUME NEW l PROVE GroupsOf(l) \in SUBSET Labels
  BY <1>3, <1>4 DEF GroupsOf
<1> QED
  BY <1>2, <1>5

(* with_groups, round by round.                                            *)
LEMMA FurtherTypes ==
  ASSUME NEW label, NEW known, NEW before \in SUBSET Labels
  PROVE  Further(label, known, before) \in SUBSET Labels
BY DEF Further

(* The recursion of `AllGroups` by rounds exists.                          *)
LEMMA AllGroupsUnfold ==
  ASSUME directory \in Directory, NEW label, NEW known
  PROVE  \E found :
           /\ found = [n \in 0 .. Cardinality(Labels) |->
                         IF n = 0 THEN {} ELSE Further(label, known, found[n - 1])]
           /\ AllGroups(label, known) = found[Cardinality(Labels)]
<1>a. PICK N : N = Cardinality(Labels)
  OBVIOUS
<1>b. PICK Q : Q = SUBSET Labels
  OBVIOUS
<1>0. N \in Nat /\ {} \in Q
  BY AclAssumption, FS_CardinalityType, <1>a, <1>b
<1>c. PICK more : more = [n \in 1 .. N |-> [B \in Q |-> Further(label, known, B)]]
  OBVIOUS
<1>1. more \in [1 .. N -> [Q -> Q]]
  <2>1. \A B \in Q : Further(label, known, B) \in Q
    BY <1>b, FurtherTypes
  <2> QED
    BY <1>c, <2>1
<1>d. PICK base : base = {}
  OBVIOUS
<1>e. N \in Nat /\ base \in Q /\ more \in [1 .. N -> [Q -> Q]]
  BY <1>0, <1>1, <1>d
<1>2. PICK f : /\ f \in [0 .. N -> Q] /\ f[0] = base
               /\ \A n \in 1 .. N : f[n] = more[n][f[n - 1]]
  BY ONLY <1>e, FiniteRecursion
<1> DEFINE Body(h, n) == IF n = 0 THEN {} ELSE Further(label, known, h[n - 1])
           found == CHOOSE h : h = [n \in 0 .. Cardinality(Labels) |-> Body(h, n)]
<1>4. AllGroups(label, known) = found[Cardinality(Labels)]
  BY DEF AllGroups
<1>5. ASSUME NEW n \in 0 .. N PROVE f[n] = Body(f, n)
  <2>1. CASE n = 0
    BY <1>2, <1>d, <2>1
  <2>2. CASE n # 0
    <3>1. n \in 1 .. N /\ n - 1 \in 0 .. N
      BY <1>0, <2>2
    <3>2. f[n - 1] \in Q
      BY <1>2, <3>1
    <3>3. f[n] = Further(label, known, f[n - 1])
      BY <1>2, <1>c, <3>1, <3>2
    <3> QED
      BY <2>2, <3>3
  <2> QED
    BY <2>1, <2>2
<1>6. f = [n \in 0 .. Cardinality(Labels) |-> Body(f, n)]
  <2> HIDE DEF Body
  <2> QED
    BY <1>2, <1>5, <1>a
<1>7. found = [n \in 0 .. Cardinality(Labels) |-> Body(found, n)]
  <2> HIDE DEF Body
  <2> QED
    BY <1>6
<1> HIDE DEF found
<1> QED
  BY <1>4, <1>7

(* After as many rounds as there are labels nothing is missing, and        *)
(* nothing is ever found that is not a group, directly or not.             *)
LEMMA AllGroupsAreFound ==
  ASSUME directory \in Directory, NEW label, NEW known
  PROVE  LET F == AllGroups(label, known)
         IN  /\ F \in SUBSET Labels /\ F \cap (known \cup {label}) = {}
             /\ \A l \in F \cup {label} : GroupsOf(l) \subseteq F \cup known \cup {label}
             /\ \A g \in F : ActsAs(label, g)
<1>1. PICK found :
        /\ found = [n \in 0 .. Cardinality(Labels) |->
                      IF n = 0 THEN {} ELSE Further(label, known, found[n - 1])]
        /\ AllGroups(label, known) = found[Cardinality(Labels)]
  BY AllGroupsUnfold
<1>a. PICK N : N = Cardinality(Labels)
  OBVIOUS
<1>0. N \in Nat /\ IsFiniteSet(Labels)
  BY AclAssumption, FS_CardinalityType, <1>a
<1>2. found[0] = {}
  BY <1>0, <1>1, <1>a
<1>3. ASSUME NEW m \in Nat, m + 1 <= N PROVE found[m + 1] = Further(label, known, found[m])
  <2>1. m + 1 \in 0 .. N /\ m + 1 # 0 /\ (m + 1) - 1 = m
    BY <1>0, <1>3
  <2> QED
    BY <1>1, <1>a, <2>1
<1> DEFINE Full(B) == \A l \in B \cup {label} : GroupsOf(l) \subseteq B \cup known \cup {label}
           Fit(B) == /\ B \in SUBSET Labels /\ B \cap (known \cup {label}) = {}
                       /\ \A g \in B : ActsAs(label, g)
           Grown(B, m) == Full(B) \/ Cardinality(B) >= m
           fine == {m \in Nat : m <= N => Fit(found[m]) /\ Grown(found[m], m)}
<1>4. Fit({}) /\ Grown({}, 0)
  BY FS_EmptySet
<1>5. ASSUME NEW B, Fit(B) PROVE Fit(Further(label, known, B))
  <2>1. Further(label, known, B) \in SUBSET Labels
    BY <1>5, FurtherTypes
  <2>2. Further(label, known, B) \cap (known \cup {label}) = {}
    BY <1>5 DEF Further
  <2>3. ASSUME NEW g \in Further(label, known, B) PROVE ActsAs(label, g)
    <3>1. CASE g \in B
      BY <1>5, <3>1
    <3>2. CASE g \notin B
      <4>1. PICK l \in B \cup {label} : g \in GroupsOf(l)
        BY <3>2 DEF Further
      <4>2. CASE l = label
        BY <4>1, <4>2 DEF ActsAs
      <4>3. CASE l \in B
        <5>1. ActsAs(label, l)
          BY <1>5, <4>3
        <5> QED
          BY <4>1, <5>1 DEF ActsAs
      <4> QED
        BY <4>1, <4>2, <4>3
    <3> QED
      BY <3>1, <3>2
  <2> QED
    BY <2>1, <2>2, <2>3
<1>6. ASSUME NEW B, NEW m \in Nat, Fit(B), Grown(B, m)
      PROVE  Grown(Further(label, known, B), m + 1)
  <2> DEFINE C == Further(label, known, B)
  <2>1. IsFiniteSet(C) /\ B \in SUBSET C
    <3>1. C \in SUBSET Labels
      BY <1>6, FurtherTypes
    <3>2. IsFiniteSet(C)
      <4> HIDE DEF C
      <4> QED
        BY <1>0, <3>1, FS_Subset
    <3> QED
      BY <3>2 DEF Further
  <2>2. CASE C = B
    <3>1. ASSUME NEW l \in B \cup {label}, NEW g \in GroupsOf(l)
          PROVE  g \in B \cup known \cup {label}
      <4>1. g \in Labels
        BY DirectoryTypes
      <4> QED
        BY <2>2, <4>1 DEF Further
    <3>2. Full(B)
      BY <3>1
    <3> QED
      BY <2>2, <3>2
  <2>3. CASE C # B
    <3>1. ~Full(B)
      <4>1. PICK g \in Labels \ (known \cup {label}) :
              g \notin B /\ \E l \in B \cup {label} : g \in GroupsOf(l)
        BY <2>3 DEF Further
      <4> QED
        BY <4>1
    <3>2. Cardinality(B) >= m
      BY <1>6, <3>1
    <3> HIDE DEF C
    <3>3. /\ Cardinality(B) \in Nat /\ Cardinality(C) \in Nat
          /\ Cardinality(B) <= Cardinality(C) /\ Cardinality(C) # Cardinality(B)
      BY <2>1, <2>3, FS_Subset, FS_CardinalityType
    <3>4. Cardinality(C) >= m + 1
      BY <3>2, <3>3
    <3> QED
      BY <3>4 DEF C
  <2> QED
    BY <2>2, <2>3
<1>7. fine = Nat
  <2>1. 0 \in fine
    BY <1>2, <1>4
  <2>2. ASSUME NEW m \in fine PROVE m + 1 \in fine
    <3> SUFFICES ASSUME m + 1 <= N
                 PROVE  Fit(found[m + 1]) /\ Grown(found[m + 1], m + 1)
      OBVIOUS
    <3>0. m \in Nat /\ m <= N
      BY <1>0
    <3>1. Fit(found[m]) /\ Grown(found[m], m)
      BY <3>0
    <3>2. found[m + 1] = Further(label, known, found[m])
      BY <1>3, <3>0
    <3>3. PICK B : B = found[m]
      OBVIOUS
    <3> HIDE DEF Fit, Grown, fine
    <3> QED
      BY <1>5, <1>6, <3>0, <3>1, <3>2, <3>3
  <2>3. fine \in SUBSET Nat
    OBVIOUS
  <2> HIDE DEF fine
  <2> QED
    BY <2>1, <2>2, <2>3, EveryNumber
<1>8. PICK F : F = found[N]
  OBVIOUS
<1>9. Fit(F) /\ Grown(F, N)
  <2>1. N \in fine /\ N <= N
    BY <1>0, <1>7
  <2> HIDE DEF Fit, Grown
  <2> QED
    BY <1>8, <2>1
<1>10. Full(F)
  <2>1. CASE Cardinality(F) >= N
    <3>0. F \in SUBSET Labels
      BY <1>9
    <3>1. F = Labels
      <4>1. Cardinality(F) \in Nat /\ Cardinality(F) <= Cardinality(Labels)
        BY <1>0, <3>0, FS_Subset, FS_CardinalityType
      <4>2. Cardinality(Labels) = Cardinality(F)
        BY <1>0, <1>a, <2>1, <4>1
      <4> QED
        BY <1>0, <3>0, <4>2, FS_Subset
    <3> QED
      BY <3>1, DirectoryTypes
  <2> QED
    BY <1>9, <2>1
<1>11. AllGroups(label, known) = F
  BY <1>1, <1>8, <1>a
<1> QED
  BY <1>9, <1>10, <1>11

(* Edges.                                                                  *)
EdgeRights == WholeObject \cup {"ForceChangePassword", "AddMember", "Owns",
                                "AllExtendedRights", "DCSync"}
EdgeRecord == [trustee : Who, right : EdgeRights, target : Labels]

(* A trustee is a label, or nobody that is known.                          *)
LEMMA ResolvedType ==
  ASSUME directory \in Directory, NEW sid \in AccountSids
  PROVE  Resolved(sid) \in Who
<1>1. PICK N \in Nat : Entries = 1 .. N
  BY DirectoryTypes
<1> DEFINE holders == {i \in Entries : E(i).sid = sid}
<1>2. CASE holders = {}
  BY <1>2 DEF Resolved, Who
<1>3. CASE holders # {}
  <2>1. holders \in SUBSET Nat /\ \A i \in holders : i <= N
    BY <1>1
  <2>2. PICK m \in holders : \A i \in holders : i <= m
    <3> HIDE DEF holders
    <3> QED
      BY <1>3, <2>1, GreatestExists
  <2>3. PICK last : last = CHOOSE i \in holders : \A j \in holders : j <= i
    OBVIOUS
  <2>4. last \in holders
    <3> HIDE DEF holders
    <3> QED
      BY <2>2, <2>3
  <2>5. E(last).label \in Labels
    BY <2>4, DirectoryTypes DEF Entry
  <2>6. Resolved(sid) = E(last).label
    BY <1>3, <2>3 DEF Resolved
  <2> QED
    BY <2>5, <2>6 DEF Who
<1> QED
  BY <1>2, <1>3

(* An edge is typed.                                                       *)
LEMMA EdgeType ==
  ASSUME directory \in Directory, NEW i \in Entries, NEW sid \in AccountSids,
         NEW right \in EdgeRights
  PROVE  Edge(i, sid, right) \in EdgeRecord
BY ResolvedType, DirectoryTypes DEF Edge, EdgeRecord, Entry

(* ... and what an entry holds.                                            *)
LEMMA EntryTypes ==
  ASSUME directory \in Directory, NEW i \in Entries
  PROVE  /\ E(i).label \in Labels /\ E(i).owner \in AccountSids
         /\ Len(E(i).aces) \in Nat /\ DOMAIN E(i).aces = 1 .. Len(E(i).aces)
         /\ \A k \in DOMAIN E(i).aces : E(i).aces[k] \in Ace /\ E(i).aces[k].trustee \in AccountSids
<1>1. E(i) \in Entry
  BY DirectoryTypes
<1>2. E(i).aces \in Seq(Ace) /\ E(i).label \in Labels /\ E(i).owner \in AccountSids
  BY <1>1 DEF Entry
<1>3. /\ Len(E(i).aces) \in Nat /\ DOMAIN E(i).aces = 1 .. Len(E(i).aces)
      /\ \A k \in DOMAIN E(i).aces : E(i).aces[k] \in Ace
  BY <1>2
<1>4. \A a \in Ace : a.trustee \in AccountSids
  BY DEF Ace
<1> QED
  BY <1>2, <1>3, <1>4

GivesDirect(x, i, k) ==
  LET a == E(i).aces[k]
  IN  \E r \in WholeObject \cup {"ForceChangePassword", "AddMember"} :
        Effective(a) /\ Granted(a, r) /\ x = Edge(i, a.trustee, r)

(* The edges of one permission are those it gives.                         *)
LEMMA DirectElements ==
  ASSUME directory \in Directory, NEW i \in Entries, NEW k \in DOMAIN E(i).aces
  PROVE  /\ DirectEdges(i, k) \in Seq(EdgeRecord)
         /\ \A x : x \in ToSet(DirectEdges(i, k)) <=> GivesDirect(x, i, k)
<1>a. PICK a : a = E(i).aces[k]
  OBVIOUS
<1>0. a.trustee \in AccountSids
  BY <1>a, EntryTypes
<1> DEFINE List(n) == IF Effective(a) /\ Granted(a, DirectRights[n])
                      THEN <<Edge(i, a.trustee, DirectRights[n])>> ELSE <<>>
<1>b. PICK lists : lists = [n \in DOMAIN DirectRights |-> List(n)]
  OBVIOUS
<1>1. DOMAIN DirectRights = 1 .. 6
      /\ \A r : (r \in WholeObject \cup {"ForceChangePassword", "AddMember"})
                  <=> \E n \in 1 .. 6 : r = DirectRights[n]
  <2>1. DOMAIN DirectRights = 1 .. 6
    BY DEF DirectRights
  <2>2. \A n : n \in 1 .. 6 <=> n \in {1, 2, 3, 4, 5, 6}
    OBVIOUS
  <2>3. /\ DirectRights[1] = "GenericAll" /\ DirectRights[2] = "WriteDacl"
        /\ DirectRights[3] = "WriteOwner" /\ DirectRights[4] = "GenericWrite"
        /\ DirectRights[5] = "ForceChangePassword" /\ DirectRights[6] = "AddMember"
    BY DEF DirectRights
  <2> QED
    BY <2>1, <2>2, <2>3 DEF WholeObject
<1>2. \A n \in 1 .. 6 : DirectRights[n] \in EdgeRights
  BY <1>1 DEF EdgeRights
<1>3. ASSUME NEW n \in 1 .. 6
      PROVE  /\ List(n) \in Seq(EdgeRecord)
             /\ ToSet(List(n)) = IF Effective(a) /\ Granted(a, DirectRights[n])
                                 THEN {Edge(i, a.trustee, DirectRights[n])} ELSE {}
  <2>1. PICK edge : edge = Edge(i, a.trustee, DirectRights[n])
    OBVIOUS
  <2>2. edge \in EdgeRecord
    <3>1. PICK r : r = DirectRights[n]
      OBVIOUS
    <3>2. r \in EdgeRights
      BY <1>2, <3>1
    <3>3. PICK sid : sid = a.trustee
      OBVIOUS
    <3>4. Edge(i, sid, r) \in EdgeRecord
      BY <1>0, <3>2, <3>3, EdgeType
    <3> QED
      BY <2>1, <3>1, <3>3, <3>4
  <2>3. /\ <<edge>> \in Seq(EdgeRecord) /\ ToSet(<<edge>>) = {edge}
        /\ <<>> \in Seq(EdgeRecord) /\ ToSet(<<>>) = {}
    BY <2>2, SingleElement
  <2> QED
    BY <2>1, <2>3
<1> HIDE DEF List
<1>4. lists \in Seq(Seq(EdgeRecord)) /\ DOMAIN lists = 1 .. 6 /\ \A n \in 1 .. 6 : lists[n] = List(n)
  <2>1. DOMAIN lists = 1 .. 6 /\ \A n \in 1 .. 6 : lists[n] = List(n)
    BY <1>1, <1>b
  <2>2. lists = [n \in 1 .. 6 |-> List(n)]
    BY <1>1, <1>b
  <2>3. lists \in [1 .. 6 -> Seq(EdgeRecord)]
    BY <1>3, <2>2
  <2>4. lists \in Seq(Seq(EdgeRecord))
    <3>1. PICK m \in Nat : m = 6
      OBVIOUS
    <3>2. PICK Q : Q = Seq(EdgeRecord)
      OBVIOUS
    <3>3. lists \in [1 .. m -> Q]
      BY <2>3, <3>1, <3>2
    <3>4. lists \in Seq(Q)
      BY ONLY <3>3, m \in Nat
    <3> QED
      BY <3>2, <3>4
  <2> QED
    BY <2>1, <2>4
<1>5. DirectEdges(i, k) = FlattenSeq(lists)
  BY <1>a, <1>b DEF DirectEdges, List
<1>6. /\ FlattenSeq(lists) \in Seq(EdgeRecord)
      /\ \A x : x \in ToSet(FlattenSeq(lists)) <=> \E n \in DOMAIN lists : x \in ToSet(lists[n])
  BY <1>4, FlattenedElements
<1>7. ASSUME NEW x
      PROVE  (\E n \in DOMAIN lists : x \in ToSet(lists[n])) <=> GivesDirect(x, i, k)
  <2>1. \A n \in 1 .. 6 : x \in ToSet(lists[n]) <=>
          Effective(a) /\ Granted(a, DirectRights[n]) /\ x = Edge(i, a.trustee, DirectRights[n])
    BY <1>3, <1>4
  <2>2. (\E n \in DOMAIN lists : x \in ToSet(lists[n])) <=>
          \E n \in 1 .. 6 : /\ Effective(a) /\ Granted(a, DirectRights[n])
                           /\ x = Edge(i, a.trustee, DirectRights[n])
    BY <1>4, <2>1
  <2>3. (\E n \in 1 .. 6 : /\ Effective(a) /\ Granted(a, DirectRights[n])
                           /\ x = Edge(i, a.trustee, DirectRights[n]))
          <=> \E r \in WholeObject \cup {"ForceChangePassword", "AddMember"} :
                Effective(a) /\ Granted(a, r) /\ x = Edge(i, a.trustee, r)
    BY ONLY <1>1
  <2> QED
    BY <1>a, <2>2, <2>3 DEF GivesDirect
<1> QED
  BY <1>5, <1>6, <1>7

GivesTogether(x, i, k) ==
  LET sid == E(i).aces[k].trustee
      got == PutTogether(i, sid)
  IN  /\ Replication(i, k) # {}
      /\ \A j \in 1 .. k - 1 : E(i).aces[j].trustee = sid => Replication(i, j) = {}
      /\ \/ E(i).domain /\ CanReplicate(got) /\ x = Edge(i, sid, "DCSync")
         \/ /\ ~(E(i).domain /\ CanReplicate(got)) /\ "AllExtendedRights" \in got
            /\ x = Edge(i, sid, "AllExtendedRights")

(* The replication edges of one trustee are those it gives.                *)
LEMMA TogetherElements ==
  ASSUME directory \in Directory, NEW i \in Entries, NEW k \in DOMAIN E(i).aces
  PROVE  /\ ReplicationEdges(i, k) \in Seq(EdgeRecord)
         /\ \A x : x \in ToSet(ReplicationEdges(i, k)) <=> GivesTogether(x, i, k)
<1>a. PICK sid : sid = E(i).aces[k].trustee
  OBVIOUS
<1>b. PICK sync, all : sync = Edge(i, sid, "DCSync") /\ all = Edge(i, sid, "AllExtendedRights")
  OBVIOUS
<1>1. sync \in EdgeRecord /\ all \in EdgeRecord
  <2>1. sid \in AccountSids
    BY <1>a, EntryTypes
  <2> QED
    BY <1>b, <2>1, EdgeType DEF EdgeRights
<1>2. /\ <<sync>> \in Seq(EdgeRecord) /\ ToSet(<<sync>>) = {sync}
      /\ <<all>> \in Seq(EdgeRecord) /\ ToSet(<<all>>) = {all}
      /\ <<>> \in Seq(EdgeRecord) /\ ToSet(<<>>) = {}
  BY <1>1, SingleElement
<1> DEFINE First == /\ Replication(i, k) # {}
                    /\ \A j \in 1 .. k - 1 : E(i).aces[j].trustee = sid => Replication(i, j) = {}
           Sync == E(i).domain /\ CanReplicate(PutTogether(i, sid))
           All == "AllExtendedRights" \in PutTogether(i, sid)
<1>3. ReplicationEdges(i, k) =
        IF ~First THEN <<>> ELSE IF Sync THEN <<sync>> ELSE IF All THEN <<all>> ELSE <<>>
  BY <1>a, <1>b DEF ReplicationEdges
<1>4. ASSUME NEW x
      PROVE  GivesTogether(x, i, k) <=> First /\ ((Sync /\ x = sync) \/ (~Sync /\ All /\ x = all))
  BY <1>a, <1>b DEF GivesTogether
<1> HIDE DEF First, Sync, All
<1>5. ReplicationEdges(i, k) \in Seq(EdgeRecord)
  BY <1>2, <1>3
<1>6. ToSet(ReplicationEdges(i, k)) =
        IF ~First THEN {} ELSE IF Sync THEN {sync} ELSE IF All THEN {all} ELSE {}
  BY <1>2, <1>3
<1> QED
  BY <1>4, <1>5, <1>6

Gives(x, i) ==
  \/ E(i).owner \notin Privileged /\ x = Edge(i, E(i).owner, "Owns")
  \/ \E k \in DOMAIN E(i).aces : GivesDirect(x, i, k) \/ GivesTogether(x, i, k)

(* The edges of one entry are those it gives.                              *)
LEMMA EntryElements ==
  ASSUME directory \in Directory, NEW i \in Entries
  PROVE  /\ EdgesOf(i) \in Seq(EdgeRecord)
         /\ \A x : x \in ToSet(EdgesOf(i)) <=> Gives(x, i)
<1>a. PICK own, direct, together :
        /\ own = OwnerEdges(i)
        /\ direct = [k \in DOMAIN E(i).aces |-> DirectEdges(i, k)]
        /\ together = [k \in DOMAIN E(i).aces |-> ReplicationEdges(i, k)]
  OBVIOUS
<1>1. own \in Seq(EdgeRecord)
      /\ \A x : x \in ToSet(own) <=> E(i).owner \notin Privileged /\ x = Edge(i, E(i).owner, "Owns")
  <2>1. PICK owns : owns = Edge(i, E(i).owner, "Owns")
    OBVIOUS
  <2>2. owns \in EdgeRecord
    <3>1. PICK sid : sid = E(i).owner
      OBVIOUS
    <3>2. Edge(i, sid, "Owns") \in EdgeRecord
      BY <3>1, EntryTypes, EdgeType DEF EdgeRights
    <3> QED
      BY <2>1, <3>1, <3>2
  <2>3. /\ <<owns>> \in Seq(EdgeRecord) /\ ToSet(<<owns>>) = {owns}
        /\ <<>> \in Seq(EdgeRecord) /\ ToSet(<<>>) = {}
    BY <2>2, SingleElement
  <2>4. own = IF E(i).owner \in Privileged THEN <<>> ELSE <<owns>>
    BY <1>a, <2>1 DEF OwnerEdges
  <2>5. ToSet(own) = IF E(i).owner \in Privileged THEN {} ELSE {owns}
    BY <2>3, <2>4
  <2> QED
    BY <2>1, <2>3, <2>4, <2>5
<1>2. direct \in Seq(Seq(EdgeRecord)) /\ together \in Seq(Seq(EdgeRecord))
  <2>1. PICK n \in Nat : DOMAIN E(i).aces = 1 .. n
    BY EntryTypes
  <2>2. direct \in [1 .. n -> Seq(EdgeRecord)] /\ together \in [1 .. n -> Seq(EdgeRecord)]
    BY <1>a, <2>1, DirectElements, TogetherElements
  <2> QED
    BY <2>2
<1>b. PICK s, t : s = FlattenSeq(direct) /\ t = FlattenSeq(together)
  OBVIOUS
<1>3. /\ s \in Seq(EdgeRecord)
      /\ \A x : x \in ToSet(s) <=> \E k \in DOMAIN direct : x \in ToSet(direct[k])
  BY <1>2, <1>b, FlattenedElements
<1>4. /\ t \in Seq(EdgeRecord)
      /\ \A x : x \in ToSet(t) <=> \E k \in DOMAIN together : x \in ToSet(together[k])
  BY <1>2, <1>b, FlattenedElements
<1>5. \A x : x \in ToSet(s) <=> \E k \in DOMAIN E(i).aces : GivesDirect(x, i, k)
  BY <1>3, <1>a, DirectElements
<1>6. \A x : x \in ToSet(t) <=> \E k \in DOMAIN E(i).aces : GivesTogether(x, i, k)
  BY <1>4, <1>a, TogetherElements
<1>7. /\ own \o s \in Seq(EdgeRecord) /\ ToSet(own \o s) = ToSet(own) \cup ToSet(s)
  BY <1>1, <1>3, JoinedElements
<1>8. PICK u : u = own \o s
  OBVIOUS
<1>c. u \in Seq(EdgeRecord)
  BY <1>7, <1>8
<1>9. u \o t \in Seq(EdgeRecord) /\ ToSet(u \o t) = ToSet(u) \cup ToSet(t)
  BY <1>4, <1>c, JoinedElements
<1>10. EdgesOf(i) = u \o t
  BY <1>8, <1>a, <1>b DEF EdgesOf
<1>11. ASSUME NEW x PROVE x \in ToSet(u \o t) <=> Gives(x, i)
  BY <1>1, <1>5, <1>6, <1>7, <1>8, <1>9 DEF Gives
<1> QED
  BY <1>9, <1>10, <1>11

(* The edges of the directory are those that an entry of it gives.         *)
LEMMA AnalyzedElements ==
  ASSUME directory \in Directory
  PROVE  /\ Analyzed \in Seq(EdgeRecord)
         /\ \A x : x \in ToSet(Analyzed) <=> \E i \in Entries : Gives(x, i)
<1>a. PICK lists : lists = [i \in Entries |-> EdgesOf(i)]
  OBVIOUS
<1>1. lists \in Seq(Seq(EdgeRecord)) /\ DOMAIN lists = Entries
      /\ \A i \in Entries : lists[i] = EdgesOf(i)
  <2>1. PICK n \in Nat : Entries = 1 .. n
    BY DirectoryTypes
  <2>2. lists \in [1 .. n -> Seq(EdgeRecord)]
    BY <1>a, <2>1, EntryElements
  <2> QED
    BY <1>a, <2>1, <2>2
<1>2. /\ FlattenSeq(lists) \in Seq(EdgeRecord)
      /\ \A x : x \in ToSet(FlattenSeq(lists)) <=> \E i \in DOMAIN lists : x \in ToSet(lists[i])
  BY <1>1, FlattenedElements
<1>3. Analyzed = FlattenSeq(lists)
  BY <1>a DEF Analyzed
<1> QED
  BY <1>1, <1>2, <1>3, EntryElements

(* What the rights of one entry of a list are.                             *)
LEMMA GrantedRights ==
  ASSUME NEW a
  PROVE  /\ \A r \in WholeObject : Granted(a, r) <=> r \in a.mask
         /\ Granted(a, "ForceChangePassword")
              <=> "ControlAccess" \in a.mask /\ a.guid = "password"
         /\ Granted(a, "AddMember") <=> "WriteProp" \in a.mask /\ a.guid = "member"
         /\ Granted(a, "AllExtendedRights") <=> "ControlAccess" \in a.mask /\ a.guid = "none"
         /\ Granted(a, "GetChanges") <=> "ControlAccess" \in a.mask /\ a.guid = "changes"
         /\ Granted(a, "GetChangesAll") <=> "ControlAccess" \in a.mask /\ a.guid = "changes_all"
<1>1. /\ DOMAIN ExtendedRight = {"none", "password", "changes", "changes_all"}
      /\ ExtendedRight["none"] = "AllExtendedRights"
      /\ ExtendedRight["password"] = "ForceChangePassword"
      /\ ExtendedRight["changes"] = "GetChanges"
      /\ ExtendedRight["changes_all"] = "GetChangesAll"
  BY DEF ExtendedRight
<1>2. \A r \in WholeObject : Granted(a, r) <=> r \in a.mask
  BY <1>1 DEF Granted, WholeObject
<1>3. Granted(a, "ForceChangePassword") <=> "ControlAccess" \in a.mask /\ a.guid = "password"
  BY <1>1 DEF Granted, WholeObject
<1>4. Granted(a, "AddMember") <=> "WriteProp" \in a.mask /\ a.guid = "member"
  BY <1>1 DEF Granted, WholeObject
<1>5. Granted(a, "AllExtendedRights") <=> "ControlAccess" \in a.mask /\ a.guid = "none"
  BY <1>1 DEF Granted, WholeObject
<1>6. Granted(a, "GetChanges") <=> "ControlAccess" \in a.mask /\ a.guid = "changes"
  BY <1>1 DEF Granted, WholeObject
<1>7. Granted(a, "GetChangesAll") <=> "ControlAccess" \in a.mask /\ a.guid = "changes_all"
  BY <1>1 DEF Granted, WholeObject
<1> QED
  BY <1>2, <1>3, <1>4, <1>5, <1>6, <1>7

(* What is put together for a trustee: the replication rights its          *)
(* effective permissions grant, in whatever order they stand.              *)
LEMMA PutTogetherRights ==
  ASSUME NEW i, NEW sid, NEW r \in ReplicationRights
  PROVE  r \in PutTogether(i, sid) <=>
           \E k \in DOMAIN E(i).aces :
             /\ E(i).aces[k].trustee = sid /\ Effective(E(i).aces[k])
             /\ Granted(E(i).aces[k], r)
BY DEF PutTogether, Replication

(* An edge is there because a descriptor says so, ...                      *)
LEMMA EdgeMeans ==
  ASSUME directory \in Directory, NEW i \in Entries, NEW x, Gives(x, i)
  PROVE  /\ x.target = E(i).label
         /\ x.right # "DCSync" => MayControl(x.trustee, i)
         /\ x.right = "DCSync" => MayReplicate(x.trustee)
<1>0. \A sid, r : LET e == Edge(i, sid, r)
                  IN  e.trustee = Resolved(sid) /\ e.right = r /\ e.target = E(i).label
  BY DEF Edge
<1>1. CASE E(i).owner \notin Privileged /\ x = Edge(i, E(i).owner, "Owns")
  BY <1>0, <1>1 DEF MayControl
<1>2. ASSUME NEW k \in DOMAIN E(i).aces, GivesDirect(x, i, k)
      PROVE  x.target = E(i).label /\ x.right # "DCSync" /\ MayControl(x.trustee, i)
  <2>a. PICK a : a = E(i).aces[k]
    OBVIOUS
  <2>1. PICK r \in WholeObject \cup {"ForceChangePassword", "AddMember"} :
          Effective(a) /\ Granted(a, r) /\ x = Edge(i, a.trustee, r)
    BY <1>2, <2>a DEF GivesDirect
  <2>2. x.trustee = Resolved(a.trustee) /\ x.right = r /\ x.target = E(i).label
    BY <1>0, <2>1
  <2>3. r # "DCSync"
    BY DEF WholeObject
  <2>4. Applies(i, k, x.trustee)
    BY <2>1, <2>2, <2>a DEF Applies, Effective
  <2>5. \/ a.mask \cap WholeObject # {}
        \/ "ControlAccess" \in a.mask /\ a.guid = "password"
        \/ "WriteProp" \in a.mask /\ a.guid = "member"
    BY <2>1, GrantedRights
  <2>6. MayControl(x.trustee, i)
    BY <2>4, <2>5, <2>a DEF MayControl
  <2> QED
    BY <2>2, <2>3, <2>6
<1>3. ASSUME NEW k \in DOMAIN E(i).aces, GivesTogether(x, i, k)
      PROVE  /\ x.target = E(i).label
             /\ x.right # "DCSync" => MayControl(x.trustee, i)
             /\ x.right = "DCSync" => MayReplicate(x.trustee)
  <2>a. PICK sid : sid = E(i).aces[k].trustee
    OBVIOUS
  <2>b. PICK got : got = PutTogether(i, sid)
    OBVIOUS
  <2>0. sid \in AccountSids
    BY <2>a, EntryTypes
  <2>1. CASE E(i).domain /\ CanReplicate(got) /\ x = Edge(i, sid, "DCSync")
    <3>1. x.trustee = Resolved(sid) /\ x.right = "DCSync" /\ x.target = E(i).label
      BY <1>0, <2>1
    <3> DEFINE guids == {E(i).aces[j].guid : j \in {j \in DOMAIN E(i).aces :
                           /\ Applies(i, j, x.trustee) /\ E(i).aces[j].trustee = sid
                           /\ "ControlAccess" \in E(i).aces[j].mask}}
    <3>2. ASSUME NEW r \in ReplicationRights, r \in got,
                 NEW g, \A a : Granted(a, r) <=> "ControlAccess" \in a.mask /\ a.guid = g
          PROVE  g \in guids
      <4>1. PICK j \in DOMAIN E(i).aces :
              /\ E(i).aces[j].trustee = sid /\ Effective(E(i).aces[j])
              /\ Granted(E(i).aces[j], r)
        BY <2>b, <3>2, PutTogetherRights
      <4>2. "ControlAccess" \in E(i).aces[j].mask /\ E(i).aces[j].guid = g
        BY <3>2, <4>1
      <4>3. Applies(i, j, x.trustee)
        BY <3>1, <4>1 DEF Applies, Effective
      <4> QED
        BY <4>1, <4>2, <4>3
    <3>3. "none" \in guids \/ {"changes", "changes_all"} \subseteq guids
      <4> HIDE DEF guids
      <4>1. "AllExtendedRights" \in got => "none" \in guids
        BY <3>2, GrantedRights DEF ReplicationRights
      <4>2. "GetChanges" \in got => "changes" \in guids
        BY <3>2, GrantedRights DEF ReplicationRights
      <4>3. "GetChangesAll" \in got => "changes_all" \in guids
        BY <3>2, GrantedRights DEF ReplicationRights
      <4> QED
        BY <2>1, <4>1, <4>2, <4>3 DEF CanReplicate
    <3>4. MayReplicate(x.trustee)
      BY <2>0, <2>1, <3>3 DEF MayReplicate
    <3> QED
      BY <3>1, <3>4
  <2>2. CASE /\ ~(E(i).domain /\ CanReplicate(got)) /\ "AllExtendedRights" \in got
             /\ x = Edge(i, sid, "AllExtendedRights")
    <3>1. x.trustee = Resolved(sid) /\ x.right = "AllExtendedRights" /\ x.target = E(i).label
      BY <1>0, <2>2
    <3>2. ~E(i).domain
      BY <2>2 DEF CanReplicate
    <3>3. PICK j \in DOMAIN E(i).aces :
            /\ E(i).aces[j].trustee = sid /\ Effective(E(i).aces[j])
            /\ Granted(E(i).aces[j], "AllExtendedRights")
      BY <2>2, <2>b, PutTogetherRights DEF ReplicationRights
    <3>4. "ControlAccess" \in E(i).aces[j].mask /\ E(i).aces[j].guid = "none"
      BY <3>3, GrantedRights
    <3>5. Applies(i, j, x.trustee)
      BY <3>1, <3>3 DEF Applies, Effective
    <3>6. MayControl(x.trustee, i)
      BY <3>2, <3>4, <3>5 DEF MayControl
    <3> QED
      BY <3>1, <3>6
  <2> QED
    BY <1>3, <2>1, <2>2, <2>a, <2>b DEF GivesTogether
<1> QED
  BY <1>1, <1>2, <1>3 DEF Gives

(* ... and what a descriptor says is an edge.                              *)
LEMMA FirstTogether ==
  ASSUME directory \in Directory, NEW i \in Entries, NEW k \in DOMAIN E(i).aces,
         Replication(i, k) # {}
  PROVE  \E j \in DOMAIN E(i).aces :
           /\ E(i).aces[j].trustee = E(i).aces[k].trustee
           /\ Replication(i, j) # {}
           /\ \A h \in 1 .. j - 1 :
                E(i).aces[h].trustee = E(i).aces[k].trustee => Replication(i, h) = {}
<1> DEFINE counts == {j \in DOMAIN E(i).aces :
                        E(i).aces[j].trustee = E(i).aces[k].trustee /\ Replication(i, j) # {}}
<1>0. PICK n \in Nat : DOMAIN E(i).aces = 1 .. n
  BY EntryTypes
<1>1. counts \in SUBSET Nat /\ k \in counts
  BY <1>0
<1>2. PICK j \in counts : \A h \in counts : j <= h
  <2> HIDE DEF counts
  <2> QED
    BY <1>1, LeastExists
<1>3. ASSUME NEW h \in 1 .. j - 1, E(i).aces[h].trustee = E(i).aces[k].trustee
      PROVE  Replication(i, h) = {}
  <2>1. j \in 1 .. n
    BY <1>0
  <2>2. h \in 1 .. n /\ ~(j <= h)
    BY <2>1
  <2>3. h \notin counts
    <3> HIDE DEF counts
    <3> QED
      BY <1>2, <2>2
  <2> QED
    BY <1>0, <1>3, <2>2, <2>3
<1> QED
  BY <1>2, <1>3

(* Whoever may control an entry has an edge to it.                         *)
LEMMA ControlHasEdge ==
  ASSUME directory \in Directory, NEW i \in Entries, NEW l, MayControl(l, i)
  PROVE  \E x : /\ Gives(x, i)
                /\ x.trustee = l /\ x.right # "DCSync" /\ x.target = E(i).label
<1>0. \A sid, r : LET e == Edge(i, sid, r)
                  IN  e.trustee = Resolved(sid) /\ e.right = r /\ e.target = E(i).label
  BY DEF Edge
<1>1. CASE E(i).owner \notin Privileged /\ Resolved(E(i).owner) = l
  <2>1. PICK x : x = Edge(i, E(i).owner, "Owns")
    OBVIOUS
  <2> QED
    BY <1>0, <1>1, <2>1 DEF Gives
<1>2. ASSUME NEW k \in DOMAIN E(i).aces, Applies(i, k, l),
             NEW r \in WholeObject \cup {"ForceChangePassword", "AddMember"},
             Granted(E(i).aces[k], r)
      PROVE  \E x : /\ Gives(x, i)
                    /\ x.trustee = l /\ x.right # "DCSync" /\ x.target = E(i).label
  <2>a. PICK a : a = E(i).aces[k]
    OBVIOUS
  <2>1. Effective(a) /\ Resolved(a.trustee) = l
    BY <1>2, <2>a DEF Applies, Effective
  <2>2. PICK x : x = Edge(i, a.trustee, r)
    OBVIOUS
  <2>3. x.trustee = l /\ x.right = r /\ x.target = E(i).label
    BY <1>0, <2>1, <2>2
  <2>4. r # "DCSync"
    BY DEF WholeObject
  <2>5. GivesDirect(x, i, k)
    BY <1>2, <2>1, <2>2, <2>a DEF GivesDirect
  <2> QED
    BY <2>3, <2>4, <2>5 DEF Gives
<1>3. ASSUME NEW k \in DOMAIN E(i).aces, Applies(i, k, l), ~E(i).domain,
             "ControlAccess" \in E(i).aces[k].mask, E(i).aces[k].guid = "none"
      PROVE  \E x : /\ Gives(x, i)
                    /\ x.trustee = l /\ x.right # "DCSync" /\ x.target = E(i).label
  <2>1. Effective(E(i).aces[k]) /\ Resolved(E(i).aces[k].trustee) = l
    BY <1>3 DEF Applies, Effective
  <2>2. Granted(E(i).aces[k], "AllExtendedRights")
    BY <1>3, GrantedRights
  <2>3. Replication(i, k) # {}
    BY <2>1, <2>2 DEF Replication, ReplicationRights
  <2>a. PICK sid : sid = E(i).aces[k].trustee
    OBVIOUS
  <2>4. PICK j \in DOMAIN E(i).aces :
           /\ E(i).aces[j].trustee = sid
           /\ Replication(i, j) # {}
           /\ \A h \in 1 .. j - 1 : E(i).aces[h].trustee = sid => Replication(i, h) = {}
    BY <2>3, <2>a, FirstTogether
  <2>5. "AllExtendedRights" \in PutTogether(i, sid)
    BY <2>1, <2>2, <2>a, PutTogetherRights DEF ReplicationRights
  <2>6. PICK x : x = Edge(i, sid, "AllExtendedRights")
    OBVIOUS
  <2>7. GivesTogether(x, i, j)
    BY <1>3, <2>4, <2>5, <2>6 DEF GivesTogether
  <2>8. x.trustee = l /\ x.right = "AllExtendedRights" /\ x.target = E(i).label
    BY <1>0, <2>1, <2>6, <2>a
  <2> QED
    BY <2>7, <2>8 DEF Gives
<1>4. CASE ~(E(i).owner \notin Privileged /\ Resolved(E(i).owner) = l)
  <2>1. PICK k \in DOMAIN E(i).aces :
          LET a == E(i).aces[k]
          IN  /\ Applies(i, k, l)
              /\ \/ a.mask \cap WholeObject # {}
                 \/ "ControlAccess" \in a.mask /\ a.guid = "password"
                 \/ "ControlAccess" \in a.mask /\ a.guid = "none" /\ ~E(i).domain
                 \/ "WriteProp" \in a.mask /\ a.guid = "member"
    BY <1>4 DEF MayControl
  <2>2. CASE E(i).aces[k].mask \cap WholeObject # {}
    <3>1. PICK r \in WholeObject : r \in E(i).aces[k].mask
      BY <2>2
    <3>2. Granted(E(i).aces[k], r)
      BY <3>1, GrantedRights
    <3> QED
      BY <1>2, <2>1, <3>2
  <2>3. CASE "ControlAccess" \in E(i).aces[k].mask /\ E(i).aces[k].guid = "password"
    <3>1. Granted(E(i).aces[k], "ForceChangePassword")
      BY <2>3, GrantedRights
    <3> QED
      BY <1>2, <2>1, <3>1
  <2>4. CASE "WriteProp" \in E(i).aces[k].mask /\ E(i).aces[k].guid = "member"
    <3>1. Granted(E(i).aces[k], "AddMember")
      BY <2>4, GrantedRights
    <3> QED
      BY <1>2, <2>1, <3>1
  <2>5. CASE "ControlAccess" \in E(i).aces[k].mask /\ E(i).aces[k].guid = "none" /\ ~E(i).domain
    BY <1>3, <2>1, <2>5
  <2> QED
    BY <2>1, <2>2, <2>3, <2>4, <2>5
<1> QED
  BY <1>1, <1>4

(* Whoever may replicate the domain has a DCSync edge.                     *)
LEMMA ReplicationHasEdge ==
  ASSUME directory \in Directory, NEW l, MayReplicate(l)
  PROVE  \E i \in Entries : \E x : Gives(x, i) /\ x.trustee = l /\ x.right = "DCSync"
<1>1. PICK i \in Entries, sid \in AccountSids :
        /\ E(i).domain
        /\ LET guids == {E(i).aces[k].guid : k \in {k \in DOMAIN E(i).aces :
                           /\ Applies(i, k, l) /\ E(i).aces[k].trustee = sid
                           /\ "ControlAccess" \in E(i).aces[k].mask}}
           IN  "none" \in guids \/ {"changes", "changes_all"} \subseteq guids
  BY DEF MayReplicate
<1> DEFINE Says(g) == \E k \in DOMAIN E(i).aces :
                        /\ Applies(i, k, l) /\ E(i).aces[k].trustee = sid
                        /\ "ControlAccess" \in E(i).aces[k].mask /\ E(i).aces[k].guid = g
<1>2. Says("none") \/ (Says("changes") /\ Says("changes_all"))
  BY <1>1
<1>3. ASSUME NEW g, Says(g), NEW r \in ReplicationRights,
             \A a : Granted(a, r) <=> "ControlAccess" \in a.mask /\ a.guid = g
      PROVE  r \in PutTogether(i, sid)
  <2>1. PICK k \in DOMAIN E(i).aces :
          /\ Applies(i, k, l) /\ E(i).aces[k].trustee = sid
          /\ "ControlAccess" \in E(i).aces[k].mask /\ E(i).aces[k].guid = g
    BY <1>3
  <2>2. Effective(E(i).aces[k]) /\ Granted(E(i).aces[k], r)
    BY <1>3, <2>1 DEF Applies, Effective
  <2> QED
    BY <2>1, <2>2, PutTogetherRights
<1> HIDE DEF Says
<1>4. /\ Says("none") => "AllExtendedRights" \in PutTogether(i, sid)
      /\ Says("changes") => "GetChanges" \in PutTogether(i, sid)
      /\ Says("changes_all") => "GetChangesAll" \in PutTogether(i, sid)
  BY <1>3, GrantedRights DEF ReplicationRights
<1>5. CanReplicate(PutTogether(i, sid))
  BY <1>2, <1>4 DEF CanReplicate
<1>6. PICK k \in DOMAIN E(i).aces : E(i).aces[k].trustee = sid /\ Resolved(sid) = l
  BY <1>2 DEF Says, Applies
<1>7. PICK m \in DOMAIN E(i).aces : E(i).aces[m].trustee = sid /\ Replication(i, m) # {}
  BY <1>5 DEF CanReplicate, PutTogether
<1>8. PICK j \in DOMAIN E(i).aces :
         /\ E(i).aces[j].trustee = sid
         /\ Replication(i, j) # {}
         /\ \A h \in 1 .. j - 1 : E(i).aces[h].trustee = sid => Replication(i, h) = {}
  BY <1>7, FirstTogether
<1>9. PICK x : x = Edge(i, sid, "DCSync")
  OBVIOUS
<1>10. GivesTogether(x, i, j)
  BY <1>1, <1>5, <1>8, <1>9 DEF GivesTogether
<1>11. x.trustee = l /\ x.right = "DCSync"
  BY <1>6, <1>9 DEF Edge
<1> QED
  BY <1>10, <1>11 DEF Gives

(* The edges of a directory give just what its descriptors say.            *)
THEOREM EdgesExact ==
  ASSUME directory \in Directory
  PROVE  /\ Analyzed \in Seq(EdgeRecord)
         /\ \A k \in DOMAIN Analyzed :
              LET e == Analyzed[k]
              IN  /\ e.right # "DCSync" =>
                       \E i \in Entries : E(i).label = e.target /\ MayControl(e.trustee, i)
                  /\ e.right = "DCSync" => MayReplicate(e.trustee)
         /\ \A l, i : i \in Entries /\ MayControl(l, i) =>
              \E k \in DOMAIN Analyzed :
                LET e == Analyzed[k]
                IN  e.trustee = l /\ e.right # "DCSync" /\ e.target = E(i).label
         /\ \A l : MayReplicate(l) =>
              \E k \in DOMAIN Analyzed : Analyzed[k].trustee = l /\ Analyzed[k].right = "DCSync"
<1>1. /\ Analyzed \in Seq(EdgeRecord)
      /\ \A x : x \in ToSet(Analyzed) <=> \E i \in Entries : Gives(x, i)
  BY AnalyzedElements
<1>2. \A x : x \in ToSet(Analyzed) <=> \E k \in DOMAIN Analyzed : Analyzed[k] = x
  BY DEF ToSet
<1>3. ASSUME NEW k \in DOMAIN Analyzed
      PROVE  LET e == Analyzed[k]
             IN  /\ e.right # "DCSync" =>
                      \E i \in Entries : E(i).label = e.target /\ MayControl(e.trustee, i)
                 /\ e.right = "DCSync" => MayReplicate(e.trustee)
  <2>1. PICK e : e = Analyzed[k]
    OBVIOUS
  <2>2. PICK i \in Entries : Gives(e, i)
    BY <1>1, <1>2, <2>1
  <2>3. /\ e.target = E(i).label
        /\ e.right # "DCSync" => MayControl(e.trustee, i)
        /\ e.right = "DCSync" => MayReplicate(e.trustee)
    BY <2>2, EdgeMeans
  <2> QED
    BY <2>1, <2>3
<1>4. ASSUME NEW l, NEW i \in Entries, MayControl(l, i)
      PROVE  \E k \in DOMAIN Analyzed :
               LET e == Analyzed[k]
               IN  e.trustee = l /\ e.right # "DCSync" /\ e.target = E(i).label
  <2>1. PICK x : Gives(x, i) /\ x.trustee = l /\ x.right # "DCSync" /\ x.target = E(i).label
    BY <1>4, ControlHasEdge
  <2>2. PICK k \in DOMAIN Analyzed : Analyzed[k] = x
    BY <1>1, <1>2, <2>1
  <2> QED
    BY <2>1, <2>2
<1>5. ASSUME NEW l, MayReplicate(l)
      PROVE  \E k \in DOMAIN Analyzed : Analyzed[k].trustee = l /\ Analyzed[k].right = "DCSync"
  <2>0. PICK i \in Entries : \E x : Gives(x, i) /\ x.trustee = l /\ x.right = "DCSync"
    BY <1>5, ReplicationHasEdge
  <2>1. PICK x : Gives(x, i) /\ x.trustee = l /\ x.right = "DCSync"
    BY <2>0
  <2>2. PICK k \in DOMAIN Analyzed : Analyzed[k] = x
    BY <1>1, <1>2, <2>1
  <2> QED
    BY <2>1, <2>2
<1> QED
  BY <1>1, <1>3, <1>4, <1>5

(* How far the rounds have got: an edge is settled when it cannot give any *)
(* more, and a set of labels when their groups are under control.          *)
Settled(e) ==
  e.trustee \in controlled =>
    IF e.right = "DCSync" THEN DomainTold ELSE e.target \in controlled
WithGroups(S) == \A l \in S : GroupsOf(l) \subseteq controlled

AclTypeOK ==
  /\ phase \in {"idle", "expand", "spread", "done"}
  /\ directory \in Directory
  /\ seeds \in SUBSET Labels /\ controlled \in SUBSET Labels
  /\ step \in Nat \ {0} /\ spreading \in BOOLEAN
  /\ DOMAIN origin = Who
  /\ escalations \in Seq([right : EdgeRights, via : Who, target : Labels])

RoundsInv ==
  /\ phase = "idle" => controlled = {}
  /\ phase \in {"idle", "expand"} => step = 1 /\ ~spreading
  /\ phase # "idle" => edges = Analyzed /\ seeds \subseteq controlled
  /\ seeds = {} => controlled = {}
  /\ phase = "expand" => WithGroups(controlled \ seeds)
  /\ phase \in {"spread", "done"} => WithGroups(controlled)
  /\ phase = "spread" => step <= Len(edges)
  /\ phase = "spread" /\ ~spreading => \A k \in 1 .. step - 1 : Settled(edges[k])
  /\ phase = "done" => \A k \in 1 .. Len(edges) : Settled(edges[k])

DomainJustified ==
  \A i \in DOMAIN escalations : escalations[i].right = "DCSync" =>
    escalations[i].via \in controlled /\ MayReplicate(escalations[i].via)

AclInv == AclTypeOK /\ RoundsInv /\ DomainJustified /\ ChainHolds

(* The invariant holds before anything is read.                            *)
LEMMA AclInvInit == AclInit => AclInv
<1> SUFFICES ASSUME AclInit PROVE AclInv
  OBVIOUS
<1>1. directory \in Directory /\ seeds \in SUBSET Labels
  BY AclAssumption DEF AclInit
<1>2. escalations = <<>> /\ DOMAIN escalations = {} /\ controlled = {}
  BY DEF AclInit
<1>3. AclTypeOK
  <2>1. DOMAIN origin = Who
    BY DEF AclInit
  <2>2. escalations \in Seq([right : EdgeRights, via : Who, target : Labels])
    BY <1>2
  <2>3. phase = "idle" /\ step = 1 /\ spreading = FALSE
    BY DEF AclInit
  <2>4. phase \in {"idle", "expand", "spread", "done"} /\ step \in Nat \ {0}
    BY ONLY <2>3
  <2>5. controlled \in SUBSET Labels
    BY <1>2
  <2>6. spreading \in BOOLEAN
    BY ONLY <2>3
  <2> QED
    BY <1>1, <2>1, <2>2, <2>4, <2>5, <2>6, Zenon DEF AclTypeOK
<1>4. RoundsInv
  BY DEF AclInit, RoundsInv, WithGroups
<1>5. DomainJustified
  BY <1>2 DEF DomainJustified
<1>6. ChainHolds
  BY <1>2 DEF ChainHolds
<1> QED
  BY <1>3, <1>4, <1>5, <1>6 DEF AclInv

(* What depends on the directory only stays as it is.                      *)
LEMMA DirectoryOnly ==
  ASSUME directory' = directory
  PROVE  /\ Entries' = Entries /\ Analyzed' = Analyzed
         /\ \A l : GroupsOf(l)' = GroupsOf(l) /\ MayReplicate(l)' = MayReplicate(l)
         /\ \A l, g : ActsAs(l, g)' = ActsAs(l, g)
         /\ \A l, i : MayControl(l, i)' = MayControl(l, i) /\ E(i)' = E(i)
<1>1. Entries' = Entries /\ \A i : E(i)' = E(i)
  BY DEF Entries, E
<1>2. \A sid : Resolved(sid)' = Resolved(sid)
  BY DEF Resolved, Entries, E
<1>3. Analyzed' = Analyzed
  BY DEF Analyzed, EdgesOf, OwnerEdges, DirectEdges, ReplicationEdges, PutTogether, Replication,
         Effective, Granted, CanReplicate, Edge, Resolved, Entries, E
<1>4. \A l : GroupsOf(l)' = GroupsOf(l)
  BY DEF GroupsOf, Entries, E
<1>5. \A l, g : ActsAs(l, g)' = ActsAs(l, g)
  BY DEF ActsAs, GroupsOf, Entries, E
<1>6. \A l, i : MayControl(l, i)' = MayControl(l, i)
  BY DEF MayControl, Applies, Resolved, Entries, E
<1>7. \A l : MayReplicate(l)' = MayReplicate(l)
  BY DEF MayReplicate, Applies, Resolved, Entries, E
<1> QED
  BY <1>1, <1>3, <1>4, <1>5, <1>6, <1>7

(* No step changes the directory or who was compromised first.             *)
LEMMA DirectoryFixed ==
  ASSUME [AclNext]_aclVars
  PROVE  directory' = directory /\ seeds' = seeds
BY DEF AclNext, aclVars, SeedControl, ExpandSeed, StartSpreading, Spread

(* A link stays: who is under control keeps the origin it has.             *)
LEMMA LinkStays ==
  ASSUME directory' = directory, seeds' = seeds, NEW x, NEW T, NEW U, T \subseteq U,
         origin'[x] = origin[x], LinkedTo(x, T)
  PROVE  LinkedTo(x, U)'
<1>1. /\ Entries' = Entries /\ \A l, g : ActsAs(l, g)' = ActsAs(l, g)
      /\ \A l, i : MayControl(l, i)' = MayControl(l, i) /\ E(i)' = E(i)
  BY DirectoryOnly
<1>2. PICK o : o = origin[x] /\ o = origin'[x]
  OBVIOUS
<1>3. CASE o.kind = "seed" /\ x \in seeds
  BY <1>2, <1>3 DEF LinkedTo
<1>4. CASE o.kind = "member" /\ o.via \in T /\ ActsAs(o.via, x)
  <2>1. ActsAs(o.via, x)' /\ o.via \in U
    BY <1>1, <1>4
  <2> QED
    BY <1>2, <1>4, <2>1 DEF LinkedTo
<1>5. CASE /\ o.kind = "acl" /\ o.via \in T
           /\ \E i \in Entries : E(i).label = x /\ MayControl(o.via, i)
  <2>1. PICK i \in Entries : E(i).label = x /\ MayControl(o.via, i)
    BY <1>5
  <2>2. i \in Entries' /\ E(i)'.label = x /\ MayControl(o.via, i)' /\ o.via \in U
    BY <1>1, <1>5, <2>1
  <2> QED
    BY <1>2, <1>5, <2>2 DEF LinkedTo
<1> QED
  BY <1>2, <1>3, <1>4, <1>5 DEF LinkedTo

(* The chain stays when no one is taken over.                              *)
LEMMA ChainStays ==
  ASSUME directory' = directory, seeds' = seeds, controlled' = controlled, origin' = origin,
         ChainHolds
  PROVE  ChainHolds'
<1> SUFFICES ASSUME NEW T \in SUBSET controlled, T # controlled
             PROVE  \E l \in controlled \ T : LinkedTo(l, T)'
  BY DEF ChainHolds
<1>1. PICK l \in controlled \ T : LinkedTo(l, T)
  BY DEF ChainHolds
<1>2. LinkedTo(l, T)'
  BY <1>1, LinkStays
<1> QED
  BY <1>1, <1>2

(* A label that comes under control by a right of one that is, or is under *)
(* control already, brings its groups: all of them, and each with a chain. *)
Justified(l, how) ==
  \/ l \in controlled /\ how = origin[l]
  \/ /\ l \notin controlled /\ how.kind = "acl" /\ how.via \in controlled
     /\ \E i \in Entries : E(i).label = l /\ MayControl(how.via, i)

(* Taking over an object that is justified keeps the types, adds the object *)
(* with its groups, and lengthens the chain.                               *)
LEMMA TakenOver ==
  ASSUME AclTypeOK, ChainHolds, directory' = directory, seeds' = seeds,
         NEW l \in Labels, NEW how, Justified(l, how), TakeOver(l, how)
  PROVE  /\ controlled' \in SUBSET Labels /\ controlled \subseteq controlled'
         /\ l \in controlled' /\ DOMAIN origin' = Who
         /\ \A x \in (controlled' \ controlled) \cup {l} : GroupsOf(x) \subseteq controlled'
         /\ ChainHolds'
<1>a. PICK F, C : F = AllGroups(l, controlled) /\ C = controlled'
  OBVIOUS
<1>0. directory \in Directory /\ controlled \in SUBSET Labels /\ Labels \subseteq Who
  BY DEF AclTypeOK, Who
<1>1. /\ F \in SUBSET Labels /\ F \cap (controlled \cup {l}) = {}
      /\ \A x \in F \cup {l} : GroupsOf(x) \subseteq F \cup controlled \cup {l}
      /\ \A g \in F : ActsAs(l, g)
  <2>1. PICK known : known = controlled
    OBVIOUS
  <2>2. LET G == AllGroups(l, known)
        IN  /\ G \in SUBSET Labels /\ G \cap (known \cup {l}) = {}
            /\ \A x \in G \cup {l} : GroupsOf(x) \subseteq G \cup known \cup {l}
            /\ \A g \in G : ActsAs(l, g)
    BY <1>0, AllGroupsAreFound
  <2> QED
    BY <1>a, <2>1, <2>2
<1>2. C = controlled \cup {l} \cup F
  BY <1>a DEF TakeOver
<1>3. origin' = [x \in Who |-> IF x = l THEN how
                               ELSE IF x \in F THEN [kind |-> "member", via |-> l] ELSE origin[x]]
  BY <1>a DEF TakeOver
<1>4. C \in SUBSET Labels /\ controlled \subseteq C /\ l \in C /\ DOMAIN origin' = Who
  BY <1>0, <1>1, <1>2, <1>3
<1>5. \A x \in (C \ controlled) \cup {l} : GroupsOf(x) \subseteq C
  BY <1>1, <1>2
<1>6. ASSUME NEW T \in SUBSET C, T # C
      PROVE  \E x \in C \ T : LinkedTo(x, T)'
  <2>1. CASE ~(controlled \subseteq T)
    <3>1. PICK S : S = T \cap controlled
      OBVIOUS
    <3>2. S \in SUBSET controlled /\ S # controlled /\ S \subseteq T
      BY <2>1, <3>1
    <3>3. PICK x \in controlled \ S : LinkedTo(x, S)
      BY <3>2 DEF ChainHolds
    <3>4. origin'[x] = origin[x]
      BY <1>0, <1>1, <1>3, <3>3 DEF Justified
    <3>5. LinkedTo(x, T)'
      BY <3>2, <3>3, <3>4, LinkStays
    <3> QED
      BY <1>2, <3>1, <3>3, <3>5
  <2>2. CASE controlled \subseteq T /\ l \notin T
    <3>1. /\ l \notin controlled /\ how.kind = "acl" /\ how.via \in controlled
          /\ \E i \in Entries : E(i).label = l /\ MayControl(how.via, i)
      BY <2>2 DEF Justified
    <3>2. origin'[l] = how
      BY <1>0, <1>3
    <3>3. PICK i \in Entries : E(i).label = l /\ MayControl(how.via, i)
      BY <3>1
    <3>4. i \in Entries' /\ E(i)'.label = l /\ MayControl(how.via, i)'
      BY <3>3, DirectoryOnly
    <3>5. how.via \in T
      BY <2>2, <3>1
    <3>6. LinkedTo(l, T)'
      BY <3>1, <3>2, <3>4, <3>5 DEF LinkedTo
    <3> QED
      BY <1>4, <2>2, <3>6
  <2>3. CASE controlled \subseteq T /\ l \in T
    <3>1. PICK x \in F : x \notin T
      BY <1>2, <1>6, <2>3
    <3>2. origin'[x] = [kind |-> "member", via |-> l]
      BY <1>0, <1>1, <1>3, <3>1
    <3>3. ActsAs(l, x)'
      BY <1>1, <3>1, DirectoryOnly
    <3>4. LinkedTo(x, T)'
      BY <2>3, <3>2, <3>3 DEF LinkedTo
    <3> QED
      BY <1>2, <3>1, <3>4
  <2> QED
    BY <2>1, <2>2, <2>3
<1>7. ChainHolds'
  BY <1>6, <1>a DEF ChainHolds
<1> QED
  BY <1>4, <1>5, <1>7, <1>a

(* Every step keeps the invariant: control of the seeds, ...               *)
LEMMA SeedStep ==
  ASSUME AclInv, SeedControl
  PROVE  AclInv'
<1>1. AclTypeOK /\ RoundsInv /\ DomainJustified
  BY DEF AclInv
<1>2. /\ phase = "idle" /\ phase' = "expand" /\ controlled' = seeds /\ edges' = Analyzed
      /\ directory' = directory /\ seeds' = seeds /\ step' = step /\ spreading' = spreading
      /\ escalations' = escalations
      /\ origin' = [l \in Who |-> [kind |-> IF l \in seeds THEN "seed" ELSE "none"]]
  BY DEF SeedControl
<1>3. seeds \in SUBSET Labels /\ Labels \subseteq Who /\ controlled = {}
  BY <1>1, <1>2 DEF AclTypeOK, RoundsInv, Who
<1>4. AclTypeOK'
  <2>1. DOMAIN origin' = Who
    BY <1>2
  <2> QED
    BY <1>1, <1>2, <1>3, <2>1 DEF AclTypeOK
<1>5. RoundsInv'
  <2>1. Analyzed' = Analyzed
    BY <1>2, DirectoryOnly
  <2> QED
    BY <1>1, <1>2, <1>3, <2>1 DEF RoundsInv, WithGroups
<1>6. DomainJustified'
  <2>1. \A i \in DOMAIN escalations : escalations[i].right # "DCSync"
    BY <1>1, <1>3 DEF DomainJustified
  <2> QED
    BY <1>2, <2>1 DEF DomainJustified
<1>7. ChainHolds'
  <2>1. ASSUME NEW l \in seeds, NEW T PROVE LinkedTo(l, T)'
    <3>1. origin'[l].kind = "seed" /\ l \in seeds'
      BY <1>2, <1>3
    <3> QED
      BY <3>1 DEF LinkedTo
  <2> QED
    BY <1>2, <2>1 DEF ChainHolds
<1> QED
  BY <1>4, <1>5, <1>6, <1>7 DEF AclInv

(* ... a group of a seed, ...                                              *)
LEMMA ExpandStep ==
  ASSUME AclInv, NEW s \in seeds, ExpandSeed(s)
  PROVE  AclInv'
<1>1. AclTypeOK /\ RoundsInv /\ DomainJustified /\ ChainHolds
  BY DEF AclInv
<1>2. /\ phase = "expand" /\ phase' = phase /\ edges' = edges
      /\ directory' = directory /\ seeds' = seeds /\ step' = step /\ spreading' = spreading
      /\ escalations' = escalations /\ TakeOver(s, origin[s])
  BY DEF ExpandSeed
<1>3. s \in Labels /\ s \in controlled
  BY <1>1, <1>2 DEF AclTypeOK, RoundsInv
<1>a. PICK how : how = origin[s]
  OBVIOUS
<1>4. /\ controlled' \in SUBSET Labels /\ controlled \subseteq controlled'
      /\ s \in controlled' /\ DOMAIN origin' = Who
      /\ \A x \in (controlled' \ controlled) \cup {s} : GroupsOf(x) \subseteq controlled'
      /\ ChainHolds'
  <2>1. Justified(s, how)
    BY <1>3, <1>a DEF Justified
  <2>2. TakeOver(s, how)
    BY <1>2, <1>a
  <2> QED
    BY <1>1, <1>2, <1>3, <2>1, <2>2, TakenOver
<1>5. \A l : GroupsOf(l)' = GroupsOf(l) /\ MayReplicate(l)' = MayReplicate(l)
  BY <1>2, DirectoryOnly
<1>6. AclTypeOK'
  BY <1>1, <1>2, <1>4 DEF AclTypeOK
<1>7. RoundsInv'
  <2>1. Analyzed' = Analyzed
    BY <1>2, DirectoryOnly
  <2>2. WithGroups(controlled \ seeds)'
    <3>1. \A l \in controlled \ seeds : GroupsOf(l) \subseteq controlled
      BY <1>1, <1>2 DEF RoundsInv, WithGroups
    <3>2. ASSUME NEW l \in controlled' \ seeds PROVE GroupsOf(l) \subseteq controlled'
      BY <1>4, <3>1
    <3> QED
      BY <1>2, <1>5, <3>2 DEF WithGroups
  <2>3. seeds # {} /\ seeds \subseteq controlled' /\ edges = Analyzed /\ step = 1 /\ ~spreading
    BY <1>1, <1>2, <1>4 DEF RoundsInv
  <2> QED
    BY <1>2, <2>1, <2>2, <2>3 DEF RoundsInv
<1>8. DomainJustified'
  BY <1>1, <1>2, <1>4, <1>5 DEF DomainJustified
<1> QED
  BY <1>4, <1>6, <1>7, <1>8 DEF AclInv

(* ... the first round, ...                                                *)
LEMMA StartStep ==
  ASSUME AclInv, StartSpreading
  PROVE  AclInv'
<1>1. AclTypeOK /\ RoundsInv /\ DomainJustified /\ ChainHolds
  BY DEF AclInv
<1>2. /\ phase = "expand" /\ \A s \in seeds : AllGroups(s, controlled) = {}
      /\ phase' = (IF edges = <<>> \/ seeds = {} THEN "done" ELSE "spread")
      /\ UNCHANGED <<directory, seeds, edges, step, spreading, controlled, origin, escalations>>
  BY DEF StartSpreading
<1>3. \A l : GroupsOf(l)' = GroupsOf(l) /\ MayReplicate(l)' = MayReplicate(l)
  BY <1>2, DirectoryOnly
<1>4. AclTypeOK'
  <2>1. phase' \in {"idle", "expand", "spread", "done"}
    BY <1>2
  <2> QED
    BY <1>1, <1>2, <2>1 DEF AclTypeOK
<1>5. ASSUME NEW l \in controlled PROVE GroupsOf(l) \subseteq controlled
  <2>1. CASE l \in seeds
    <3>1. PICK known : known = controlled
      OBVIOUS
    <3>2. directory \in Directory /\ l \in known
      BY <1>1, <3>1 DEF AclTypeOK
    <3>3. GroupsOf(l) \subseteq AllGroups(l, known) \cup known \cup {l}
      BY <3>2, AllGroupsAreFound
    <3> QED
      BY <1>2, <2>1, <3>1, <3>2, <3>3
  <2>2. CASE l \notin seeds
    BY <1>1, <1>2, <2>2 DEF RoundsInv, WithGroups
  <2> QED
    BY <2>1, <2>2
<1>6. RoundsInv'
  <2>1. Analyzed' = Analyzed
    BY <1>2, DirectoryOnly
  <2>2. edges = Analyzed /\ seeds \subseteq controlled /\ step = 1 /\ ~spreading
        /\ (seeds = {} => controlled = {})
    BY <1>1, <1>2 DEF RoundsInv
  <2>3. edges \in Seq(EdgeRecord)
    BY <1>1, <2>2, AnalyzedElements DEF AclTypeOK
  <2>4. Len(edges) \in Nat /\ (edges # <<>> => 1 <= Len(edges)) /\ (edges = <<>> => Len(edges) = 0)
    BY <2>3
  <2>5. phase' = "done" => \A k \in 1 .. Len(edges) : Settled(edges[k])'
    <3>1. CASE edges = <<>>
      BY <2>4, <3>1
    <3>2. CASE seeds = {}
      BY <1>2, <2>2, <3>2 DEF Settled
    <3> QED
      BY <1>2, <3>1, <3>2
  <2>6. WithGroups(controlled)'
    BY <1>2, <1>3, <1>5 DEF WithGroups
  <2>7. phase' = "spread" => step' <= Len(edges')
    BY <1>2, <2>2, <2>4
  <2>8. \A k \in 1 .. step' - 1 : FALSE
    BY <1>2, <2>2
  <2>9. phase' \in {"spread", "done"}
    BY <1>2
  <2> QED
    BY <1>2, <2>1, <2>2, <2>5, <2>6, <2>7, <2>8, <2>9 DEF RoundsInv
<1>7. DomainJustified'
  BY <1>1, <1>2, <1>3 DEF DomainJustified
<1>8. ChainHolds'
  BY <1>1, <1>2, ChainStays
<1> QED
  BY <1>4, <1>6, <1>7, <1>8 DEF AclInv

(* The edge a round is at, and where the round goes from there.            *)
LEMMA RoundEdge ==
  ASSUME AclInv, phase = "spread"
  PROVE  /\ edges = Analyzed /\ edges \in Seq(EdgeRecord)
         /\ Len(edges) \in Nat /\ DOMAIN edges = 1 .. Len(edges)
         /\ step \in DOMAIN edges /\ edges[step] \in EdgeRecord
<1>1. edges = Analyzed /\ step <= Len(edges) /\ directory \in Directory /\ step \in Nat \ {0}
  BY DEF AclInv, RoundsInv, AclTypeOK
<1>2. edges \in Seq(EdgeRecord)
  BY <1>1, AnalyzedElements
<1>3. Len(edges) \in Nat /\ DOMAIN edges = 1 .. Len(edges)
  BY <1>2
<1> QED
  BY <1>1, <1>2, <1>3

(* After an edge that changed something there is another round.            *)
LEMMA AnotherRound ==
  ASSUME AclInv, phase = "spread", Proceed(TRUE)
  PROVE  /\ phase' = "spread" /\ step' \in Nat \ {0} /\ spreading' \in BOOLEAN
         /\ step' <= Len(edges) /\ (~spreading' => step' = 1)
<1>1. Len(edges) \in Nat /\ step \in Nat \ {0} /\ step <= Len(edges) /\ spreading \in BOOLEAN
  BY RoundEdge DEF AclInv, RoundsInv, AclTypeOK
<1>2. CASE step < Len(edges)
  <2>1. step' = step + 1 /\ spreading' = (spreading \/ TRUE) /\ phase' = phase
    BY <1>2 DEF Proceed
  <2>2. spreading' = TRUE
    BY <2>1
  <2>3. step' \in Nat \ {0} /\ step' <= Len(edges)
    BY <1>1, <1>2, <2>1
  <2> QED
    BY <2>1, <2>2, <2>3
<1>3. CASE ~(step < Len(edges))
  <2>1. step' = 1 /\ spreading' = FALSE /\ phase' = "spread"
    BY <1>3 DEF Proceed
  <2>2. step' \in Nat \ {0} /\ step' <= Len(edges)
    BY <1>1, <2>1
  <2>3. spreading' \in BOOLEAN
    BY ONLY <2>1
  <2> QED
    BY <2>1, <2>2, <2>3
<1> QED
  BY <1>2, <1>3

(* A step that brings something new under control or tells of something    *)
(* new leaves no round that is over.                                       *)
LEMMA NewRound ==
  ASSUME AclInv, phase = "spread", Proceed(TRUE),
         directory' = directory, seeds' = seeds, edges' = edges,
         controlled # {}, controlled \subseteq controlled', WithGroups(controlled)'
  PROVE  RoundsInv'
<1>1. /\ phase' = "spread" /\ step' \in Nat \ {0} /\ spreading' \in BOOLEAN
      /\ step' <= Len(edges) /\ (~spreading' => step' = 1)
  BY AnotherRound
<1>2. edges = Analyzed /\ seeds \subseteq controlled /\ Analyzed' = Analyzed
  BY DirectoryOnly DEF AclInv, RoundsInv
<1>3. seeds # {}
  BY DEF AclInv, RoundsInv
<1>4. ~spreading' => \A k \in 1 .. step' - 1 : Settled(edges[k])'
  <2>1. \A k \in 1 .. 1 - 1 : FALSE
    OBVIOUS
  <2> QED
    BY <1>1, <2>1
<1>5. seeds' # {} /\ seeds' \subseteq controlled' /\ edges' = Analyzed'
  BY <1>2, <1>3
<1> QED
  BY <1>1, <1>4, <1>5 DEF RoundsInv

(* ... an edge that takes over an object, ...                              *)
LEMMA TakeEdgeStep ==
  ASSUME AclInv, phase = "spread", TakeEdge(edges[step]),
         directory' = directory, seeds' = seeds, edges' = edges
  PROVE  AclInv'
<1>a. PICK e : e = edges[step]
  OBVIOUS
<1>1. AclTypeOK /\ RoundsInv /\ DomainJustified /\ ChainHolds
  BY DEF AclInv
<1>2. e \in EdgeRecord /\ step \in DOMAIN Analyzed /\ e = Analyzed[step]
  BY <1>a, RoundEdge
<1>3. /\ e.trustee \in controlled /\ e.right # "DCSync" /\ e.target \notin controlled
      /\ TakeOver(e.target, [kind |-> "acl", via |-> e.trustee, right |-> e.right])
      /\ escalations' = Append(escalations, Told(e)) /\ Proceed(TRUE)
  BY <1>a DEF TakeEdge
<1>b. PICK l, how : l = e.target /\ how = [kind |-> "acl", via |-> e.trustee, right |-> e.right]
  OBVIOUS
<1>4. l \in Labels
  BY <1>2, <1>b DEF EdgeRecord
<1>5. /\ controlled' \in SUBSET Labels /\ controlled \subseteq controlled'
      /\ l \in controlled' /\ DOMAIN origin' = Who
      /\ \A x \in (controlled' \ controlled) \cup {l} : GroupsOf(x) \subseteq controlled'
      /\ ChainHolds'
  <2>1. \E i \in Entries : E(i).label = l /\ MayControl(e.trustee, i)
    BY <1>1, <1>2, <1>3, <1>b, EdgesExact DEF AclTypeOK
  <2>2. how.kind = "acl" /\ how.via = e.trustee
    BY <1>b
  <2>3. Justified(l, how)
    BY <1>3, <1>b, <2>1, <2>2 DEF Justified
  <2>4. TakeOver(l, how)
    BY <1>3, <1>b
  <2> QED
    BY <1>1, <1>4, <2>3, <2>4, TakenOver
<1>6. \A x : GroupsOf(x)' = GroupsOf(x) /\ MayReplicate(x)' = MayReplicate(x)
  BY DirectoryOnly
<1>7. WithGroups(controlled)'
  <2>1. \A x \in controlled : GroupsOf(x) \subseteq controlled
    BY <1>1 DEF RoundsInv, WithGroups
  <2>2. ASSUME NEW x \in controlled' PROVE GroupsOf(x) \subseteq controlled'
    BY <1>5, <2>1
  <2> QED
    BY <1>6, <2>2 DEF WithGroups
<1>8. RoundsInv'
  BY <1>3, <1>5, <1>7, NewRound
<1>c. PICK T, t, s : /\ T = [right : EdgeRights, via : Who, target : Labels]
                     /\ t = Told(e) /\ s = escalations
  OBVIOUS
<1>9. t \in T /\ t.right # "DCSync" /\ s \in Seq(T)
  BY <1>1, <1>2, <1>3, <1>c DEF Told, EdgeRecord, AclTypeOK
<1>10. /\ Append(s, t) \in Seq(T) /\ DOMAIN Append(s, t) = 1 .. Len(s) + 1 /\ Len(s) \in Nat
       /\ DOMAIN s = 1 .. Len(s) /\ Append(s, t)[Len(s) + 1] = t
       /\ \A i \in 1 .. Len(s) : Append(s, t)[i] = s[i]
  BY <1>9
<1>11. AclTypeOK'
  <2>1. /\ phase' = "spread" /\ step' \in Nat \ {0} /\ spreading' \in BOOLEAN
    BY <1>3, AnotherRound
  <2>2. escalations' \in Seq(T)
    BY <1>10, <1>3, <1>c
  <2> QED
    BY <1>1, <1>5, <1>c, <2>1, <2>2 DEF AclTypeOK
<1>12. DomainJustified'
  <2>1. ASSUME NEW i \in 1 .. Len(s) + 1, Append(s, t)[i].right = "DCSync"
        PROVE  /\ Append(s, t)[i].via \in controlled'
               /\ MayReplicate(Append(s, t)[i].via)
    <3>1. i # Len(s) + 1
      BY <1>10, <1>9, <2>1
    <3>2. i \in 1 .. Len(s)
      BY <1>10, <3>1
    <3>3. Append(s, t)[i] = s[i]
      BY <1>10, <3>2
    <3>4. s[i].via \in controlled /\ MayReplicate(s[i].via)
      BY <1>1, <1>10, <1>c, <2>1, <3>2, <3>3 DEF DomainJustified
    <3> QED
      BY <1>5, <3>3, <3>4
  <2>2. escalations' = Append(s, t)
    BY <1>3, <1>c
  <2> QED
    BY <1>10, <1>6, <2>1, <2>2 DEF DomainJustified
<1> QED
  BY <1>5, <1>8, <1>11, <1>12 DEF AclInv

(* ... an edge that gives the domain, ...                                  *)
LEMMA TakeDomainStep ==
  ASSUME AclInv, phase = "spread", TakeDomain(edges[step]),
         directory' = directory, seeds' = seeds, edges' = edges
  PROVE  AclInv'
<1>a. PICK e : e = edges[step]
  OBVIOUS
<1>1. AclTypeOK /\ RoundsInv /\ DomainJustified /\ ChainHolds
  BY DEF AclInv
<1>2. e \in EdgeRecord /\ step \in DOMAIN Analyzed /\ e = Analyzed[step]
  BY <1>a, RoundEdge
<1>3. /\ e.trustee \in controlled /\ e.right = "DCSync"
      /\ escalations' = Append(escalations, Told(e)) /\ Proceed(TRUE)
      /\ controlled' = controlled /\ origin' = origin
  BY <1>a DEF TakeDomain
<1>4. MayReplicate(e.trustee)
  BY <1>1, <1>2, <1>3, EdgesExact DEF AclTypeOK
<1>6. \A x : GroupsOf(x)' = GroupsOf(x) /\ MayReplicate(x)' = MayReplicate(x)
  BY DirectoryOnly
<1>7. WithGroups(controlled)'
  BY <1>1, <1>3, <1>6 DEF RoundsInv, WithGroups
<1>8. RoundsInv'
  BY <1>3, <1>7, NewRound
<1>c. PICK T, t, s : /\ T = [right : EdgeRights, via : Who, target : Labels]
                     /\ t = Told(e) /\ s = escalations
  OBVIOUS
<1>9. t \in T /\ t.via = e.trustee /\ s \in Seq(T)
  BY <1>1, <1>2, <1>3, <1>c DEF Told, EdgeRecord, AclTypeOK
<1>10. /\ Append(s, t) \in Seq(T) /\ DOMAIN Append(s, t) = 1 .. Len(s) + 1 /\ Len(s) \in Nat
       /\ DOMAIN s = 1 .. Len(s) /\ Append(s, t)[Len(s) + 1] = t
       /\ \A i \in 1 .. Len(s) : Append(s, t)[i] = s[i]
  BY <1>9
<1>11. AclTypeOK'
  <2>1. /\ phase' = "spread" /\ step' \in Nat \ {0} /\ spreading' \in BOOLEAN
    BY <1>3, AnotherRound
  <2>2. escalations' \in Seq(T)
    BY <1>10, <1>3, <1>c
  <2> QED
    BY <1>1, <1>3, <1>c, <2>1, <2>2 DEF AclTypeOK
<1>12. DomainJustified'
  <2>1. ASSUME NEW i \in 1 .. Len(s) + 1, Append(s, t)[i].right = "DCSync"
        PROVE  /\ Append(s, t)[i].via \in controlled
               /\ MayReplicate(Append(s, t)[i].via)
    <3>1. CASE i = Len(s) + 1
      BY <1>10, <1>3, <1>4, <1>9, <3>1
    <3>2. CASE i # Len(s) + 1
      <4>1. i \in 1 .. Len(s)
        BY <1>10, <3>2
      <4>2. Append(s, t)[i] = s[i]
        BY <1>10, <4>1
      <4>3. s[i].via \in controlled /\ MayReplicate(s[i].via)
        BY <1>1, <1>10, <1>c, <2>1, <4>1, <4>2 DEF DomainJustified
      <4> QED
        BY <4>2, <4>3
    <3> QED
      BY <3>1, <3>2
  <2>2. escalations' = Append(s, t)
    BY <1>3, <1>c
  <2> QED
    BY <1>10, <1>3, <1>6, <2>1, <2>2 DEF DomainJustified
<1>13. ChainHolds'
  BY <1>1, <1>3, ChainStays
<1> QED
  BY <1>8, <1>11, <1>12, <1>13 DEF AclInv

(* ... and an edge that gives nothing new.                                 *)
LEMMA PassEdgeStep ==
  ASSUME AclInv, phase = "spread", PassEdge(edges[step]),
         directory' = directory, seeds' = seeds, edges' = edges
  PROVE  AclInv'
<1>1. AclTypeOK /\ RoundsInv /\ DomainJustified /\ ChainHolds
  BY DEF AclInv
<1>2. Proceed(FALSE) /\ controlled' = controlled /\ origin' = origin /\ escalations' = escalations
  BY DEF PassEdge
<1>3. Settled(edges[step])
  BY DEF PassEdge, Settled
<1>4. \A x : GroupsOf(x)' = GroupsOf(x) /\ MayReplicate(x)' = MayReplicate(x)
  BY DirectoryOnly
<1>5. \A e : Settled(e)' = Settled(e)
  BY <1>2 DEF Settled, DomainTold
<1>6. /\ Len(edges) \in Nat /\ step \in 1 .. Len(edges) /\ spreading \in BOOLEAN
  BY <1>1, RoundEdge DEF AclTypeOK
<1>7. ~spreading => \A k \in 1 .. step : Settled(edges[k])
  <2>1. ~spreading => \A k \in 1 .. step - 1 : Settled(edges[k])
    BY <1>1 DEF RoundsInv
  <2>2. \A k \in 1 .. step : k \in 1 .. step - 1 \/ k = step
    BY <1>6
  <2> QED
    BY <1>3, <2>1, <2>2
<1>8. /\ phase' \in {"spread", "done"} /\ step' \in Nat \ {0} /\ spreading' \in BOOLEAN
      /\ phase' = "spread" => step' <= Len(edges)
      /\ phase' = "spread" /\ ~spreading' => \A k \in 1 .. step' - 1 : Settled(edges[k])
      /\ phase' = "done" => \A k \in 1 .. Len(edges) : Settled(edges[k])
  <2>1. CASE step < Len(edges)
    <3>1. step' = step + 1 /\ spreading' = (spreading \/ FALSE) /\ phase' = phase
      BY <1>2, <2>1 DEF Proceed
    <3>2. step' \in Nat \ {0} /\ step' <= Len(edges) /\ step' - 1 = step
      BY <1>6, <2>1, <3>1
    <3>3. spreading' = spreading
      BY <1>6, <3>1
    <3> QED
      BY <1>6, <1>7, <3>1, <3>2, <3>3
  <2>2. CASE ~(step < Len(edges))
    <3>1. /\ step' = 1 /\ spreading' = FALSE
          /\ phase' = IF spreading \/ FALSE THEN "spread" ELSE "done"
      BY <1>2, <2>2 DEF Proceed
    <3>2. step = Len(edges) /\ step' <= Len(edges) /\ step' \in Nat \ {0}
      BY <1>6, <2>2, <3>1
    <3>3. \A k \in 1 .. step' - 1 : FALSE
      BY <3>1
    <3>4. phase' = "done" => ~spreading
      BY <3>1
    <3>5. phase' \in {"spread", "done"}
      BY <3>1
    <3>6. spreading' \in BOOLEAN
      BY ONLY <3>1
    <3> QED
      BY <1>7, <3>2, <3>3, <3>4, <3>5, <3>6
  <2> QED
    BY <2>1, <2>2
<1>9. AclTypeOK'
  <2>1. phase' \in {"idle", "expand", "spread", "done"}
    BY <1>8
  <2> QED
    BY <1>1, <1>2, <1>8, <2>1, Zenon DEF AclTypeOK
<1>10. RoundsInv'
  <2>1. WithGroups(controlled)'
    BY <1>1, <1>2, <1>4 DEF RoundsInv, WithGroups
  <2>2. Analyzed' = Analyzed
    BY DirectoryOnly
  <2>3. edges = Analyzed /\ seeds \subseteq controlled /\ (seeds = {} => controlled = {})
    BY <1>1 DEF RoundsInv
  <2>4. phase' = "spread" /\ ~spreading' => \A k \in 1 .. step' - 1 : Settled(edges[k])'
    BY <1>5, <1>8
  <2>5. phase' = "done" => \A k \in 1 .. Len(edges) : Settled(edges[k])'
    BY <1>5, <1>8
  <2> QED
    BY <1>2, <1>8, <2>1, <2>2, <2>3, <2>4, <2>5 DEF RoundsInv
<1>11. DomainJustified'
  BY <1>1, <1>2, <1>4 DEF DomainJustified
<1>12. ChainHolds'
  BY <1>1, <1>2, ChainStays
<1> QED
  BY <1>9, <1>10, <1>11, <1>12 DEF AclInv

(* Together: the invariant is inductive.                                   *)
LEMMA AclInvStep ==
  ASSUME AclInv, [AclNext]_aclVars
  PROVE  AclInv'
<1>1. CASE SeedControl
  BY <1>1, SeedStep
<1>2. CASE \E s \in seeds : ExpandSeed(s)
  BY <1>2, ExpandStep
<1>3. CASE StartSpreading
  BY <1>3, StartStep
<1>4. CASE Spread
  <2>1. /\ phase = "spread" /\ directory' = directory /\ seeds' = seeds /\ edges' = edges
        /\ TakeEdge(edges[step]) \/ TakeDomain(edges[step]) \/ PassEdge(edges[step])
    BY <1>4 DEF Spread
  <2> QED
    BY <2>1, TakeEdgeStep, TakeDomainStep, PassEdgeStep
<1>5. CASE UNCHANGED aclVars
  <2>1. UNCHANGED <<phase, directory, seeds, edges, step, spreading, controlled, origin,
                    escalations>>
    BY <1>5 DEF aclVars
  <2>2. \A x : GroupsOf(x)' = GroupsOf(x) /\ MayReplicate(x)' = MayReplicate(x)
    BY <2>1, DirectoryOnly
  <2>3. Analyzed' = Analyzed /\ \A e : Settled(e)' = Settled(e)
    BY <2>1, DirectoryOnly DEF Settled, DomainTold
  <2>4. AclTypeOK'
    BY <2>1 DEF AclInv, AclTypeOK
  <2>5. RoundsInv'
    BY <2>1, <2>2, <2>3 DEF AclInv, RoundsInv, WithGroups
  <2>6. DomainJustified'
    BY <2>1, <2>2 DEF AclInv, DomainJustified
  <2>7. ChainHolds'
    BY <2>1, ChainStays DEF AclInv
  <2> QED
    BY <2>4, <2>5, <2>6, <2>7 DEF AclInv
<1> QED
  BY <1>1, <1>2, <1>3, <1>4, <1>5 DEF AclNext

(* The invariant holds in every state.                                     *)
LEMMA AclInvariant == AclSpec => []AclInv
BY AclInvInit, AclInvStep, PTL DEF AclSpec

(* Once the rounds are over nothing is missing: an edge for every right,   *)
(* and every edge settled.                                                 *)
LEMMA InvImpliesExact == AclInv => EscalationExact
<1> SUFFICES ASSUME AclInv PROVE EscalationExact
  OBVIOUS
<1>1. AclTypeOK /\ RoundsInv /\ DomainJustified /\ ChainHolds
  BY DEF AclInv
<1>2. ASSUME phase = "done", NEW l \in controlled
      PROVE  /\ GroupsOf(l) \subseteq controlled
             /\ \A i \in Entries : MayControl(l, i) => E(i).label \in controlled
             /\ MayReplicate(l) => DomainTold
  <2>1. /\ edges = Analyzed /\ WithGroups(controlled) /\ directory \in Directory
        /\ \A k \in 1 .. Len(edges) : Settled(edges[k])
    BY <1>1, <1>2 DEF RoundsInv, AclTypeOK
  <2>2. DOMAIN Analyzed = 1 .. Len(edges)
    BY <2>1, EdgesExact
  <2>3. ASSUME NEW i \in Entries, MayControl(l, i) PROVE E(i).label \in controlled
    <3>1. PICK k \in DOMAIN Analyzed :
            /\ Analyzed[k].trustee = l /\ Analyzed[k].right # "DCSync"
            /\ Analyzed[k].target = E(i).label
      BY <2>1, <2>3, EdgesExact
    <3>2. Settled(Analyzed[k])
      BY <2>1, <2>2
    <3> QED
      BY <1>2, <3>1, <3>2 DEF Settled
  <2>4. ASSUME MayReplicate(l) PROVE DomainTold
    <3>1. PICK k \in DOMAIN Analyzed : Analyzed[k].trustee = l /\ Analyzed[k].right = "DCSync"
      BY <2>1, <2>4, EdgesExact
    <3>2. Settled(Analyzed[k])
      BY <2>1, <2>2
    <3> QED
      BY <1>2, <3>1, <3>2 DEF Settled
  <2>5. GroupsOf(l) \subseteq controlled
    BY <2>1 DEF WithGroups
  <2> QED
    BY <2>3, <2>4, <2>5
<1> QED
  BY <1>1, <1>2 DEF EscalationExact, DomainJustified

(* What is reported to be under control hangs by a chain of rights and     *)
(* memberships on a credential that can be reached, the domain is called   *)
(* compromised only where a controlled label may replicate it, and in the  *)
(* end nothing that the directory gives is missing: for every directory,   *)
(* in any order of its entries and lists, and any seeds.                   *)
THEOREM Escalation == AclSpec => []EscalationExact
BY AclInvariant, InvImpliesExact, PTL
=============================================================================
