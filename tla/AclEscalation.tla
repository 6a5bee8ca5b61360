---------------------------- MODULE AclEscalation ----------------------------
(***************************************************************************)
(* How control spreads from the credentials that can be reached, over the  *)
(* access control lists of a captured directory (acl.py, and in paths.py   *)
(* _group_membership, escalate_via_acls and _esc_chain).                   *)
(*                                                                         *)
(* An entry of the directory carries a label (its account name), a SID, an *)
(* owner and access control entries.  Whoever acts under a label has its   *)
(* groups, and takes over what any of them has a control right on, until a *)
(* round over all edges changes nothing.                                   *)
(***************************************************************************)
EXTENDS Integers, Sequences, FiniteSets, SequencesExt

CONSTANTS
  Labels,       \* account names of entries
  AccountSids,  \* SIDs; one that no entry carries stands for itself
  Privileged,   \* SIDs that are expected to hold control (_is_benign)
  Dns,          \* names of entries
  Directories,  \* the directories that may have been captured
  SeedSets      \* account names of the credentials that can be reached

WholeObject == {"GenericAll", "WriteDacl", "WriteOwner", "GenericWrite"}
Bits == WholeObject \cup {"ControlAccess", "WriteProp"}
Guids == {"none", "password", "changes", "changes_all", "member", "other"}
Ace == [trustee : AccountSids, allow : BOOLEAN, inherit_only : BOOLEAN,
        mask : SUBSET Bits, guid : Guids]
Entry == [dn : Dns, label : Labels, sid : AccountSids, domain : BOOLEAN,
          owner : AccountSids, aces : Seq(Ace), member_of : SUBSET Dns]
Directory == [entries : Seq(Entry), authored : SUBSET (Labels \X Labels)]

(* A range file has finitely many entries, and its account names are those *)
(* of its entries and credentials.                                         *)
ASSUME AclAssumption ==
  /\ IsFiniteSet(Labels)
  /\ Directories \subseteq Directory
  /\ SeedSets \subseteq SUBSET Labels

NoDirectory == [entries |-> <<>>, authored |-> {}]
Who == Labels \cup AccountSids

VARIABLES
  phase,        \* where escalate_via_acls is
  directory,    \* the captured directory
  seeds,        \* the account names to start from
  edges,        \* analyze_acls(cfg).edges
  step,         \* the edge the round is at
  spreading,    \* the round has changed something
  controlled,   \* labels under control
  origin,       \* label -> how it came under control
  escalations   \* what is reported, in order

aclVars == <<phase, directory, seeds, edges, step, spreading, controlled,
             origin, escalations>>

Entries == DOMAIN directory.entries
E(i) == directory.entries[i]
-----------------------------------------------------------------------------
(* acl.py: edges from descriptors.                                         *)

(* _sid_map, _resolve: the label of the last entry with that SID.          *)
Resolved(sid) ==
  LET holders == {i \in Entries : E(i).sid = sid}
  IN  IF holders = {} THEN sid
      ELSE E(CHOOSE i \in holders : \A j \in holders : j <= i).label

(* _parse_aces: what denies, and what only descendants inherit, grants     *)
(* nothing on the object; and who holds control anyway is left out.        *)
Effective(a) == a.allow /\ ~a.inherit_only /\ a.trustee \notin Privileged

\* Mutation: a right over any property adds members.
GrantedAnyProperty(ace, right) ==
  \/ right \in WholeObject \cap ace.mask
  \/ "ControlAccess" \in ace.mask /\ right = "AllExtendedRights"
  \/ "WriteProp" \in ace.mask /\ right = "AddMember"

(* _rights_for.                                                            *)
ExtendedRight == [none |-> "AllExtendedRights", password |-> "ForceChangePassword",
                  changes |-> "GetChanges", changes_all |-> "GetChangesAll"]
Granted(ace, right) ==
  \/ right \in WholeObject \cap ace.mask
  \/ /\ "ControlAccess" \in ace.mask /\ ace.guid \in DOMAIN ExtendedRight
     /\ right = ExtendedRight[ace.guid]
  \/ "WriteProp" \in ace.mask /\ ace.guid = "member" /\ right = "AddMember"

DirectRights == <<"GenericAll", "WriteDacl", "WriteOwner", "GenericWrite",
                  "ForceChangePassword", "AddMember">>

ReplicationRights == {"GetChanges", "GetChangesAll", "AllExtendedRights"}

Edge(i, sid, right) == [trustee |-> Resolved(sid), right |-> right, target |-> E(i).label]

OwnerEdges(i) ==
  IF E(i).owner \in Privileged THEN <<>> ELSE <<Edge(i, E(i).owner, "Owns")>>

DirectEdges(i, k) ==
  LET a == E(i).aces[k]
  IN  FlattenSeq([n \in DOMAIN DirectRights |->
                    IF Effective(a) /\ Granted(a, DirectRights[n])
                    THEN <<Edge(i, a.trustee, DirectRights[n])>> ELSE <<>>])

(* Rights that are put together over all entries of one trustee: to        *)
(* replicate secrets takes both halves, and counts on a domain head only.  *)
(* A trustee comes where the first of its entries is.                      *)
Replication(i, k) ==
  IF Effective(E(i).aces[k])
  THEN {r \in ReplicationRights : Granted(E(i).aces[k], r)} ELSE {}
PutTogether(i, sid) ==
  UNION {Replication(i, k) : k \in {k \in DOMAIN E(i).aces : E(i).aces[k].trustee = sid}}

\* Mutation: half of the rights is enough.
CanReplicateByHalf(got) == got # {}

CanReplicate(got) ==
  "AllExtendedRights" \in got \/ {"GetChanges", "GetChangesAll"} \subseteq got

ReplicationEdges(i, k) ==
  LET sid == E(i).aces[k].trustee
      got == PutTogether(i, sid)
      First == /\ Replication(i, k) # {}
               /\ \A j \in 1 .. k - 1 : E(i).aces[j].trustee = sid => Replication(i, j) = {}
  IN  IF ~First THEN <<>>
      ELSE IF E(i).domain /\ CanReplicate(got) THEN <<Edge(i, sid, "DCSync")>>
      ELSE IF "AllExtendedRights" \in got THEN <<Edge(i, sid, "AllExtendedRights")>>
      ELSE <<>>

EdgesOf(i) ==
  OwnerEdges(i) \o FlattenSeq([k \in DOMAIN E(i).aces |-> DirectEdges(i, k)])
    \o FlattenSeq([k \in DOMAIN E(i).aces |-> ReplicationEdges(i, k)])

Analyzed == FlattenSeq([i \in Entries |-> EdgesOf(i)])

(* _group_membership: captured memberOf, by the label of the group's entry, *)
(* the last of that name, and what the range file says itself.             *)
GroupsOf(label) ==
  {E(g).label : g \in {g \in Entries :
     /\ \A h \in Entries : E(h).dn = E(g).dn => h <= g
     /\ \E m \in Entries : E(m).label = label /\ E(g).dn \in E(m).member_of}}
  \cup {p[2] : p \in {p \in directory.authored : p[1] = label}}

(* with_groups: all groups, direct or not, that are not controlled yet.    *)
Further(label, known, found) ==
  found \cup {g \in Labels \ (known \cup {label}) :
               \E l \in found \cup {label} : g \in GroupsOf(l)}

AllGroups(label, known) ==
  LET found[n \in 0 .. Cardinality(Labels)] ==
        IF n = 0 THEN {} ELSE Further(label, known, found[n - 1])
  IN  found[Cardinality(Labels)]
-----------------------------------------------------------------------------
AclInit ==
  /\ phase = "idle"
  /\ directory \in Directories /\ seeds \in SeedSets
  /\ edges = <<>> /\ step = 1 /\ spreading = FALSE
  /\ controlled = {} /\ escalations = <<>>
  /\ origin = [l \in Who |-> [kind |-> "none"]]

(* l and its groups come under control; what was controlled keeps its      *)
(* origin.                                                                 *)
TakeOver(l, how) ==
  LET groups == AllGroups(l, controlled)
  IN  /\ controlled' = controlled \cup {l} \cup groups
      /\ origin' = [x \in Who |-> IF x = l THEN how
                                  ELSE IF x \in groups THEN [kind |-> "member", via |-> l]
                                  ELSE origin[x]]

(* The seeds, all of them, and then the groups of one after another.       *)
SeedControl ==
  /\ phase = "idle" /\ phase' = "expand"
  /\ edges' = Analyzed
  /\ controlled' = seeds
  /\ origin' = [l \in Who |-> [kind |-> IF l \in seeds THEN "seed" ELSE "none"]]
  /\ UNCHANGED <<directory, seeds, step, spreading, escalations>>

ExpandSeed(s) ==
  /\ phase = "expand" /\ AllGroups(s, controlled) # {}
  /\ TakeOver(s, origin[s])
  /\ UNCHANGED <<phase, directory, seeds, edges, step, spreading, escalations>>

(* Nothing is done without an edge or without a seed.                      *)
StartSpreading ==
  /\ phase = "expand" /\ \A s \in seeds : AllGroups(s, controlled) = {}
  /\ phase' = IF edges = <<>> \/ seeds = {} THEN "done" ELSE "spread"
  /\ UNCHANGED <<directory, seeds, edges, step, spreading, controlled, origin,
                 escalations>>

\* Mutation: there is one round.
ProceedOnce(found) ==
  /\ IF step < Len(edges) THEN step' = step + 1 /\ UNCHANGED phase
     ELSE step' = 1 /\ phase' = "done"
  /\ UNCHANGED spreading

(* To the next edge, to the next round, or to the end after a round that   *)
(* has changed nothing.                                                    *)
Proceed(found) ==
  IF step < Len(edges)
  THEN step' = step + 1 /\ spreading' = (spreading \/ found) /\ UNCHANGED phase
  ELSE /\ step' = 1 /\ spreading' = FALSE
       /\ phase' = IF spreading \/ found THEN "spread" ELSE "done"

Told(e) == [right |-> e.right, via |-> e.trustee, target |-> e.target]
DomainTold == \E i \in DOMAIN escalations : escalations[i].right = "DCSync"

(* An edge that gives control of something new.                            *)
TakeEdge(e) ==
  /\ e.trustee \in controlled /\ e.right # "DCSync" /\ e.target \notin controlled
  /\ TakeOver(e.target, [kind |-> "acl", via |-> e.trustee, right |-> e.right])
  /\ escalations' = Append(escalations, Told(e))
  /\ Proceed(TRUE)

\* Mutation: the round counts as changed whenever the edge is met.
TakeDomainAgain(e) ==
  /\ e.trustee \in controlled /\ e.right = "DCSync"
  /\ escalations' = IF DomainTold THEN escalations ELSE Append(escalations, Told(e))
  /\ Proceed(TRUE)
  /\ UNCHANGED <<controlled, origin>>

(* The domain is compromised; that is told once.                           *)
TakeDomain(e) ==
  /\ e.trustee \in controlled /\ e.right = "DCSync" /\ ~DomainTold
  /\ escalations' = Append(escalations, Told(e))
  /\ Proceed(TRUE)
  /\ UNCHANGED <<controlled, origin>>

PassEdge(e) ==
  /\ \/ e.trustee \notin controlled
     \/ e.right = "DCSync" /\ DomainTold
     \/ e.right # "DCSync" /\ e.target \in controlled
  /\ Proceed(FALSE)
  /\ UNCHANGED <<controlled, origin, escalations>>

Spread ==
  /\ phase = "spread"
  /\ LET e == edges[step] IN TakeEdge(e) \/ TakeDomain(e) \/ PassEdge(e)
  /\ UNCHANGED <<directory, seeds, edges>>

AclNext == SeedControl \/ (\E s \in seeds : ExpandSeed(s)) \/ StartSpreading \/ Spread

(* The rounds of one synchronous call.                                     *)
RoundsFairness == WF_aclVars(Spread)

AclSpec == AclInit /\ [][AclNext]_aclVars /\ RoundsFairness
-----------------------------------------------------------------------------
(* What a descriptor means, entry by entry of its list and without edges.  *)
Applies(i, k, l) ==
  LET a == E(i).aces[k]
  IN  /\ a.allow /\ ~a.inherit_only
      /\ a.trustee \notin Privileged /\ Resolved(a.trustee) = l
MayControl(l, i) ==
  \/ E(i).owner \notin Privileged /\ Resolved(E(i).owner) = l
  \/ \E k \in DOMAIN E(i).aces :
       LET a == E(i).aces[k]
       IN  /\ Applies(i, k, l)
           /\ \/ a.mask \cap WholeObject # {}
              \/ "ControlAccess" \in a.mask /\ a.guid = "password"
              \/ "ControlAccess" \in a.mask /\ a.guid = "none" /\ ~E(i).domain
              \/ "WriteProp" \in a.mask /\ a.guid = "member"
MayReplicate(l) ==
  \E i \in Entries : E(i).domain /\ \E sid \in AccountSids :
    LET guids == {E(i).aces[k].guid : k \in {k \in DOMAIN E(i).aces :
                    /\ Applies(i, k, l) /\ E(i).aces[k].trustee = sid
                    /\ "ControlAccess" \in E(i).aces[k].mask}}
    IN  "none" \in guids \/ {"changes", "changes_all"} \subseteq guids

(* Of the groups of l, directly or not: every set of labels that holds    *)
(* the groups of l and those of its own members holds g.                   *)
ActsAs(l, g) ==
  \A T \in SUBSET Labels :
    GroupsOf(l) \subseteq T /\ (\A x \in T : GroupsOf(x) \subseteq T) => g \in T

(* How l came under control is a seed, or a membership or a right of what  *)
(* is in T.                                                                *)
LinkedTo(l, T) ==
  \/ origin[l].kind = "seed" /\ l \in seeds
  \/ origin[l].kind = "member" /\ origin[l].via \in T /\ ActsAs(origin[l].via, l)
  \/ /\ origin[l].kind = "acl" /\ origin[l].via \in T
     /\ \E i \in Entries : E(i).label = l /\ MayControl(origin[l].via, i)

(* The chain that _esc_chain shows for a label ends at a seed, and each of *)
(* its links is a right or a membership of the directory: no labels hang   *)
(* from one another only.                                                  *)
ChainHolds ==
  \A T \in SUBSET controlled :
    T # controlled => \E l \in controlled \ T : LinkedTo(l, T)

(* "an edge exists only because it is present in a captured descriptor",   *)
(* "expands again to a fixpoint": every label under control has its chain, *)
(* and in the end no group, no right and no compromise of the domain that  *)
(* the directory gives is missing, whatever the order of the edges.        *)
EscalationExact ==
  /\ ChainHolds
  /\ \A i \in DOMAIN escalations : escalations[i].right = "DCSync" =>
       escalations[i].via \in controlled /\ MayReplicate(escalations[i].via)
  /\ phase = "done" =>
       \A l \in controlled :
         /\ GroupsOf(l) \subseteq controlled
         /\ \A i \in Entries : MayControl(l, i) => E(i).label \in controlled
         /\ MayReplicate(l) => DomainTold

(* "to a fixpoint": rounds over the edges, each of which may bring groups  *)
(* and edges of its own into play, come to an end, also around cycles of   *)
(* memberships and rights and with the domain compromised on the way.      *)
RoundsEnd == phase = "spread" ~> phase = "done"
=============================================================================
