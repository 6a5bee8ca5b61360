---------------------------- MODULE MCDnsServer ----------------------------
(* DnsServer alone, for what it does not do: names with a pointer back to  *)
(* a label before it, and without one.                                     *)
EXTENDS DnsServer

LoopZones == {<<>>}
LoopNames == {<<Label, End>>, <<Label, Label, 1, End>>}
=============================================================================
