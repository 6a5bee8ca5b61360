---------------------------- MODULE MCAttackPaths ----------------------------
(* Small estates of two hosts that serve HTTP on several ports: one text   *)
(* is anonymous and three are behind doors, two of which are routes of one *)
(* service.  Three secrets may leak anywhere and open none, one or two     *)
(* doors, one for two users, one on two ports; every secret has ports of   *)
(* its own.                                                                *)
EXTENDS AttackPaths

CONSTANTS web, shop, u, v

MCServices == {web, shop}
MCUsers == {u, v}
Site(service, route) == [service |-> service, route |-> route]
Shop == Site(shop, 1)
Page1 == Site(web, 1)
Page2 == Site(web, 2)

Login(door, user, port) == [door |-> door, user |-> user, port |-> port]
Grants ==
  {{}, {Login(Page1, u, 1)}, {Login(Page2, u, 1)},
   {Login(Shop, u, 1), Login(Page1, v, 1)},
   {Login(Page2, u, 1), Login(Page2, v, 1)}}
LiveGrants == Grants \cup {{Login(Shop, u, 1), Login(Shop, u, 2)}}

Claims(grants) ==
  UNION {{[sid |-> s, door |-> g.door, user |-> g.user,
            port |-> 2 * (s - 1) + g.port] :
            g \in grants[s]} : s \in DOMAIN grants}
Text(door, anon, leaks) == [door |-> door, anon |-> anon, leaks |-> leaks]
Leaks(sids) == {{}} \cup {{s} : s \in sids}

EstatesOf(sids, grants) ==
  {[locations |-> <<Text(Page1, FALSE, a), Text(Shop, TRUE, {1}),
                    Text(Page2, FALSE, b), Text(Shop, FALSE, c)>>,
    claims |-> Claims(g)] :
   a \in Leaks(sids), b \in Leaks(sids), c \in Leaks(sids),
   g \in [sids -> grants]}

MCEstates == EstatesOf({1, 2, 3}, Grants) \cup EstatesOf({1, 2}, LiveGrants)
=============================================================================
