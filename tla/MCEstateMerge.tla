---------------------------- MODULE MCEstateMerge ----------------------------
(* Ranges of up to five hosts in subnets of four and eight addresses.  The *)
(* captures are taken by name, at the placeholder, and by address: ids,    *)
(* names, addresses and ports all collide in some order.                   *)
EXTENDS EstateMerge

CONSTANTS idA, idB, idC, www, db

Cap(id, name, ip, port, type, posture) ==
  [id |-> id, name |-> name, ip |-> ip,
   service |-> [port |-> port, type |-> type, posture |-> posture]]
MCHostIds == {idA, idB, idC}
MCStems == {www, db}
MCCaptures ==
  {Cap(idA, <<www>>, 10, 80, "http", 1), Cap(idA, <<www>>, 10, 80, "http", 2),
   Cap(idB, <<www>>, 10, 80, "banner", 1), Cap(idB, <<www, 2>>, 11, 22, "ssh", 1),
   Cap(idA, <<www>>, 12, 80, "banner", 1), Cap(idC, <<db>>, 11, 80, "http", 1),
   Cap(idC, <<www>>, 10, 22, "ssh", 1), Cap(idC, <<www>>, 3, 22, "ssh", 1),
   Cap(idB, <<db>>, 8, 22, "ssh", 1)}
MCSubnets == {[base |-> 8, size |-> 4], [base |-> 8, size |-> 8]}
(* A range written by hand: one host on a low address, with a gateway.     *)
MCBases ==
  {[net |-> [base |-> 8, size |-> 8], gateway |-> 10,
    hosts |-> <<[id |-> idC, name |-> <<www>>, ip |-> 9,
                 services |-> {[port |-> 80, type |-> "http", posture |-> 1]}]>>]}
=============================================================================
