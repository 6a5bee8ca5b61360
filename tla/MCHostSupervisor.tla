-------------------------- MODULE MCHostSupervisor --------------------------
(* Hosts with a facade of each kind and smaller ones, with the clients     *)
(* that may connect; clients are numbers, as facades are, so that events   *)
(* about either compare.                                                   *)
EXTENDS HostSupervisor

AllKinds == <<"datagram", "stream", "thread", "session">>
TwoKinds == <<"stream", "datagram">>
OneClient == {1}
TwoClients == {1, 2}
=============================================================================
