--------------------------- MODULE MCAclEscalation ---------------------------
(* Directories of four entries: the head of the domain, two users and a    *)
(* group, with every pair of access control lists of interest on the users *)
(* and every one of some on the group and on the head.                     *)
EXTENDS AclEscalation

CONSTANTS domain, alice, bob, staff, everyone, admins

MCLabels == {domain, alice, bob, staff}
MCSids == {1, 2, 3, 4, everyone, admins}

Allow(trustee, mask, guid) ==
  [trustee |-> trustee, allow |-> TRUE, inherit_only |-> FALSE, mask |-> mask, guid |-> guid]
Deny(ace) == [ace EXCEPT !.allow = FALSE]
OnlyInherited(ace) == [ace EXCEPT !.inherit_only = TRUE]

HeadLists ==
  {<<>>, <<Allow(3, {"ControlAccess"}, "changes")>>,
   <<Allow(3, {"ControlAccess"}, "changes"), Allow(4, {"ControlAccess"}, "changes_all")>>,
   <<Allow(3, {"ControlAccess"}, "changes_all"), Allow(admins, {"GenericAll"}, "none"),
     Allow(3, {"ControlAccess"}, "changes")>>,
   <<OnlyInherited(Allow(2, {"ControlAccess"}, "none")),
     Allow(4, {"ControlAccess", "WriteDacl"}, "none")>>}
UserLists(sid) ==
  {<<>>, <<Allow(sid, {"WriteProp"}, "other"), Deny(Allow(sid, {"GenericAll"}, "none"))>>,
   <<Allow(sid, {"ControlAccess"}, "password")>>,
   <<Allow(everyone, {"WriteOwner"}, "none"), Allow(sid, {"ControlAccess"}, "none")>>}
GroupLists ==
  {<<>>, <<Allow(2, {"WriteProp"}, "member")>>, <<Allow(3, {"GenericWrite", "WriteDacl"}, "none")>>}

MCDirectories ==
  {[entries |->
      <<[dn |-> 3, label |-> bob, sid |-> 3, domain |-> FALSE, owner |-> admins,
         aces |-> b, member_of |-> {}],
        [dn |-> 4, label |-> staff, sid |-> 4, domain |-> FALSE, owner |-> o,
         aces |-> g, member_of |-> {}],
        [dn |-> 2, label |-> alice, sid |-> 2, domain |-> FALSE, owner |-> admins,
         aces |-> a, member_of |-> m],
        [dn |-> 1, label |-> domain, sid |-> 1, domain |-> TRUE, owner |-> admins,
         aces |-> d, member_of |-> {}]>>,
    authored |-> w] :
   d \in HeadLists, a \in UserLists(4), b \in UserLists(4), g \in GroupLists,
   o \in {admins, 3}, m \in {{}, {4}}, w \in {{}, {<<staff, bob>>}}}
MCSeeds == {{}, {alice}, {bob}, {alice, bob}}
=============================================================================
