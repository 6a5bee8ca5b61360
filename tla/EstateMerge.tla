----------------------------- MODULE EstateMerge -----------------------------
(***************************************************************************)
(* How a range grows out of captures (orchestrate/merge.py and, in cli.py, *)
(* `capture`, `capture --append` and `merge`): the services of one host    *)
(* are united by its id, addresses that collide or lie outside the subnet  *)
(* are reassigned, host names that collide are renamed, and the result is  *)
(* validated before the range file is written.                             *)
(*                                                                         *)
(* An address is a number and a subnet an aligned block of 2^n of them.  A *)
(* host name is a sequence: a stem and the suffixes it was given.  What a  *)
(* service answers is its `posture`.                                       *)
(***************************************************************************)
EXTENDS Integers, Sequences, FiniteSets

CONSTANTS
  HostIds, Stems, SvcPorts, SvcTypes, Postures,
  Bases,         \* ranges written by hand that captures may be appended to
  Captures,      \* what a capture may bring home
  Subnets,       \* values of --subnet for a merge
  Placeholder,   \* _PLACEHOLDER_IP: the address of a host captured by name
  FirstHost,     \* offset of the first address given to a host, 10 in the code
  SubnetBits,    \* host bits of the smallest subnet derived, 8 in the code
  AddressBits,   \* bits of an address
  MaxCaptures    \* bound: captures taken in one behaviour

(* How many addresses a block with n host bits has.                        *)
BlockSize[n \in 0 .. AddressBits] == IF n = 0 THEN 1 ELSE 2 * BlockSize[n - 1]

NoGateway == -1
Addresses == 0 .. BlockSize[AddressBits] - 1
Names == Seq(Stems \cup Nat)
Service == [port : SvcPorts, type : SvcTypes, posture : Postures]
Host == [id : HostIds, name : Names, ip : Addresses, services : SUBSET Service]
Subnet == {n \in [base : Addresses, size : Nat \ {0}] :
             n.base + n.size <= BlockSize[AddressBits]}
RangeFile == [net : Subnet, gateway : Addresses \cup {NoGateway}, hosts : Seq(Host)]
Capture == [id : HostIds, name : Names, ip : Addresses, service : Service]

VARIABLES
  range,    \* the range file, NoRange while there is none
  taken,    \* history: the captures in the file and the host that got each
  outcome   \* what the last command said

mergeVars == <<range, taken, outcome>>

In(ip, net) == net.base <= ip /\ ip < net.base + net.size
Block(ip, bits) == [base |-> (ip \div BlockSize[bits]) * BlockSize[bits],
                    size |-> BlockSize[bits]]
Ids(hosts) == {hosts[i].id : i \in DOMAIN hosts}
NoRange == [net |-> Block(0, SubnetBits), gateway |-> NoGateway, hosts |-> <<>>]
-----------------------------------------------------------------------------
(* _merge_host: the services are united; two that disagree on a port stop  *)
(* the merge; an address takes the place of the placeholder.               *)
Clash(dst, src) ==
  \E s \in dst.services, t \in src.services : s.port = t.port /\ s # t

United(dst, src) ==
  [dst EXCEPT !.services = @ \cup src.services,
              !.ip = IF @ = Placeholder THEN src.ip ELSE @]

Gathered(union, h) ==
  IF h.id \notin Ids(union.hosts)
  THEN [union EXCEPT !.hosts = Append(@, h)]
  ELSE LET i == CHOOSE i \in DOMAIN union.hosts : union.hosts[i].id = h.id
       IN  [ok |-> union.ok /\ ~Clash(union.hosts[i], h),
            hosts |-> [union.hosts EXCEPT ![i] = United(@, h)]]

UnionById(hosts) ==
  LET union[n \in 0 .. Len(hosts)] ==
        IF n = 0 THEN [ok |-> TRUE, hosts |-> <<>>]
        ELSE Gathered(union[n - 1], hosts[n])
  IN  union[Len(hosts)]

(* _subnet: the smallest block, of SubnetBits at least, that covers all.   *)
Covering(ips) ==
  LET Covers(b) == \A x, y \in ips : x \div BlockSize[b] = y \div BlockSize[b]
      bits == CHOOSE b \in SubnetBits .. AddressBits :
                Covers(b) /\ \A a \in SubnetBits .. b - 1 : ~Covers(a)
  IN  Block(CHOOSE x \in ips : TRUE, bits)

(* _assign_ips: an address stays where it is the only one of its kind and  *)
(* one that a host may have; the other hosts, in order, get the free       *)
(* addresses, in order: those from FirstHost up, then those below.         *)
Usable(net) ==
  IF net.size <= 2 THEN net.base .. net.base + net.size - 1
  ELSE net.base + 1 .. net.base + net.size - 2

\* Mutation: only the conventional addresses stay.
PinnedFromFirst(hosts, net, gw) ==
  {i \in DOMAIN hosts :
     /\ \A j \in DOMAIN hosts : hosts[j].ip = hosts[i].ip => j = i
     /\ In(hosts[i].ip, net) /\ hosts[i].ip >= net.base + FirstHost
     /\ hosts[i].ip # gw}

Pinned(hosts, net, gw) ==
  {i \in DOMAIN hosts :
     /\ \A j \in DOMAIN hosts : hosts[j].ip = hosts[i].ip => j = i
     /\ In(hosts[i].ip, net) /\ hosts[i].ip # net.base /\ hosts[i].ip # gw}

Free(hosts, net, gw) ==
  Usable(net) \ ({gw} \cup {hosts[i].ip : i \in Pinned(hosts, net, gw)})

Fits(hosts, net, gw) ==
  Len(hosts) - Cardinality(Pinned(hosts, net, gw)) <= Cardinality(Free(hosts, net, gw))

Assigned(hosts, net, gw) ==
  LET pinned == Pinned(hosts, net, gw)
      free == Free(hosts, net, gw)
      Rank(a) == IF a - net.base >= FirstHost THEN a ELSE a + net.size
      Place(i) == Cardinality({j \in 1 .. i - 1 : j \notin pinned})
      Given(i) == CHOOSE a \in free :
                    Cardinality({b \in free : Rank(b) < Rank(a)}) = Place(i)
  IN  [i \in DOMAIN hosts |->
         IF i \in pinned THEN hosts[i] ELSE [hosts[i] EXCEPT !.ip = Given(i)]]

\* Mutation: the suffix is the place of the host, taken or not.
SuffixByCount(name, seen) == Append(name, 2)

(* _dedup_hostnames: the first suffix that makes the name a new one.       *)
Suffixed(name, seen) ==
  Append(name, CHOOSE n \in 2 .. Cardinality(seen) + 2 :
                 /\ Append(name, n) \notin seen
                 /\ \A k \in 2 .. n - 1 : Append(name, k) \in seen)

Unlike(name, seen) == IF name \in seen THEN Suffixed(name, seen) ELSE name

Renamed(hosts) ==
  LET named[n \in 0 .. Len(hosts)] ==
        IF n = 0 THEN <<>>
        ELSE LET before == named[n - 1]
             IN  Append(before, Unlike(hosts[n].name, {before[i] : i \in DOMAIN before}))
      names == named[Len(hosts)]
  IN  [i \in DOMAIN hosts |-> [hosts[i] EXCEPT !.name = names[i]]]

(* merge_configs of two ranges, in the subnet asked for or a derived one.  *)
Merged(a, b, subnets) ==
  LET union == UnionById(a.hosts \o b.hosts)
      net == IF subnets # {} THEN CHOOSE n \in subnets : TRUE
             ELSE Covering({union.hosts[i].ip : i \in DOMAIN union.hosts})
      given == IF a.gateway # NoGateway THEN a.gateway ELSE b.gateway
      gw == IF given # NoGateway /\ In(given, net) THEN given ELSE NoGateway
  IN  IF ~union.ok THEN [outcome |-> "conflict"]
      ELSE IF ~Fits(union.hosts, net, gw) THEN [outcome |-> "too small"]
      ELSE [outcome |-> "written",
            range |-> [net |-> net, gateway |-> gw,
                       hosts |-> Renamed(Assigned(union.hosts, net, gw))]]

(* RangeConfig._cross_checks and Host._unique_ports.                       *)
Valid(r) ==
  /\ r.gateway # NoGateway => In(r.gateway, r.net)
  /\ \A i, j \in DOMAIN r.hosts : i # j =>
       /\ r.hosts[i].id # r.hosts[j].id
       /\ r.hosts[i].name # r.hosts[j].name
       /\ r.hosts[i].ip # r.hosts[j].ip
  /\ \A i \in DOMAIN r.hosts :
       /\ In(r.hosts[i].ip, r.net)
       /\ r.hosts[i].ip # r.net.base /\ r.hosts[i].ip # r.gateway
       /\ \A s, t \in r.hosts[i].services : s.port = t.port => s = t

(* A range file that does not load is not appended to.                     *)
ASSUME MergeAssumption ==
  /\ FirstHost \in Nat /\ AddressBits \in Nat
  /\ SubnetBits \in 2 .. AddressBits /\ Placeholder \in Addresses
  /\ Captures \subseteq Capture /\ Subnets \subseteq Subnet
  /\ \A r \in Bases : r \in RangeFile /\ Valid(r)
-----------------------------------------------------------------------------
(* _capture_config: a range of one host that offers one service, in the    *)
(* block of its address.                                                   *)
Captured(c, id) ==
  [net |-> Block(c.ip, SubnetBits), gateway |-> NoGateway,
   hosts |-> <<[id |-> id, name |-> c.name, ip |-> c.ip, services |-> {c.service}]>>]

(* _reconcile_append: the host that the capture is of, by its id or else   *)
(* by an address that is not the placeholder.                              *)
Targets(hosts, c) ==
  IF c.id \in Ids(hosts) THEN {i \in DOMAIN hosts : hosts[i].id = c.id}
  ELSE {i \in DOMAIN hosts : c.ip # Placeholder /\ hosts[i].ip = c.ip}

\* Mutation: whatever is on the port is dropped.
IsStalePort(s, c) == s.port = c.service.port

(* The same service, to be refreshed.                                      *)
IsStale(s, c) == s.port = c.service.port /\ s.type = c.service.type

Reconciled(r, c) ==
  LET at == Targets(r.hosts, c)
  IN  [r EXCEPT !.hosts = [i \in DOMAIN r.hosts |->
         IF i \notin at THEN r.hosts[i]
         ELSE [r.hosts[i] EXCEPT !.services = {s \in @ : ~IsStale(s, c)}]]]

IdFor(r, c) ==
  LET at == Targets(r.hosts, c)
  IN  IF at = {} THEN c.id ELSE r.hosts[CHOOSE i \in at : TRUE].id

Took(c, id) == Append(taken, [capture |-> c, host |-> id])

(* A result that does not validate is not written.                         *)
Write(result, c, id) ==
  IF result.outcome = "written" /\ Valid(result.range)
  THEN /\ range' = result.range /\ taken' = Took(c, id) /\ outcome' = "written"
  ELSE /\ outcome' = IF result.outcome = "written" THEN "invalid" ELSE result.outcome
       /\ UNCHANGED <<range, taken>>

(* capture -o: a new range file.                                           *)
CaptureNew(c) ==
  /\ range = NoRange
  /\ Write([outcome |-> "written", range |-> Captured(c, c.id)], c, c.id)

(* capture --append: the range keeps its subnet.                           *)
CaptureAppend(c) ==
  /\ range # NoRange /\ Len(taken) < MaxCaptures
  /\ LET id == IdFor(range, c)
     IN  Write(Merged(Reconciled(range, c), Captured(c, id), {range.net}), c, id)

(* merge of the range with a capture in a file of its own.                 *)
MergeFile(c, subnets) ==
  /\ range # NoRange /\ Len(taken) < MaxCaptures
  /\ Valid(Captured(c, c.id))
  /\ Write(Merged(range, Captured(c, c.id), subnets), c, c.id)

MergeInit ==
  /\ range \in Bases \cup {NoRange} /\ taken = <<>> /\ outcome = "none"

MergeNext ==
  \E c \in Captures :
    \/ CaptureNew(c)
    \/ CaptureAppend(c)
    \/ \E subnets \in {{}} \cup {{n} : n \in Subnets} : MergeFile(c, subnets)

MergeSpec == MergeInit /\ [][MergeNext]_mergeVars
-----------------------------------------------------------------------------
(* "dropping one would lose a measured facade": after any sequence of      *)
(* appends and merges the host a capture went to still serves what was     *)
(* captured of it last on that port, in every posture it had then.         *)
NothingLost ==
  \A i \in DOMAIN taken :
    LET c == taken[i].capture.service
        Same(j) == /\ taken[j].host = taken[i].host
                   /\ taken[j].capture.service.port = c.port
                   /\ taken[j].capture.service.type = c.type
        last == CHOOSE j \in i .. Len(taken) :
                  Same(j) /\ \A k \in j + 1 .. Len(taken) : ~Same(k)
    IN  \E h \in DOMAIN range.hosts :
          /\ range.hosts[h].id = taken[i].host
          /\ taken[last].capture.service \in range.hosts[h].services

(* "so the merged config validates": a merge that does not fail closed     *)
(* yields a range that loads again, whatever addresses and names collided. *)
(* Only a first capture can be refused for its address, which is used as   *)
(* it is; and a subnet of two addresses gives even its base to a host.     *)
WrittenLoads ==
  outcome = "invalid" =>
    range = NoRange \/ \E n \in Subnets \cup {range.net} : n.size <= 2

(* "Keep each host's measured IP where it's unique and in-subnet": a host  *)
(* is moved only off the placeholder, out of an address its subnet does    *)
(* not give to hosts, or where the new capture claims its address too.     *)
AddressKept ==
  [][\A h \in DOMAIN range.hosts :
       LET old == range.hosts[h].ip
       IN  \/ range'.hosts[h].ip = old
           \/ old \in {Placeholder, range'.net.base, range'.gateway}
           \/ ~In(old, range'.net)
           \/ taken'[Len(taken')].capture.ip = old]_mergeVars
-----------------------------------------------------------------------------
(* What the documentation says and the code does not do.                   *)

(* "Union by measured IP": a capture is given the id of another host only  *)
(* when that host has the address by measurement, not by reassignment.     *)
UnionByMeasuredIp ==
  \A i \in DOMAIN taken :
    taken[i].host # taken[i].capture.id =>
      \E j \in 1 .. i - 1 : /\ taken[j].host = taken[i].host
                            /\ taken[j].capture.ip = taken[i].capture.ip
=============================================================================
