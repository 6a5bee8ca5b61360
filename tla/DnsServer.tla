----------------------------- MODULE DnsServer -----------------------------
(***************************************************************************)
(* The DNS facade (facades/dns.py): decode the name of a question, look it *)
(* up or transfer the zone, log the query, send the answer.  All of it is  *)
(* synchronous on the event loop of the host: while one query is decoded   *)
(* no other facade of the host runs.                                       *)
(*                                                                         *)
(* The bytes of a name are cells: a label, the end, or a compression       *)
(* pointer, which is the number of the cell it leads to.  One iteration of *)
(* _decode_name is one step; what follows it is another.                   *)
(***************************************************************************)
EXTENDS Integers, Sequences, SequencesExt

CONSTANTS
  Zones,        \* the record tables a server may have
  Names,        \* the encoded names clients send
  AxfrAllowed,  \* cfg.axfr_allowed
  MessageLimit, \* _AXFR_MSG_LIMIT, in units of size
  WireLimit     \* the largest message a 2-byte length, or a datagram, can hold

Label == 0
End == -1
Places == {"apex", "inside", "outside"}
Record == [at : Places, type : {"SOA", "NS", "A"}, ok : BOOLEAN, size : Nat]

ASSUME DnsAssumption ==
  /\ AxfrAllowed \in BOOLEAN
  /\ MessageLimit \in Nat /\ WireLimit \in Nat /\ MessageLimit < WireLimit
  /\ \A z \in Zones : z \in Seq(Record)
  /\ \A n \in Names : n \in Seq(Nat \cup {Label, End})

VARIABLES
  dnsZone,    \* self.records, a sequence
  dnsQuery,   \* the query being handled
  dnsStage,   \* "idle", "decoding", "decoded"
  dnsAt,      \* _decode_name: the cell it reads
  dnsLogged,  \* the rcode of the last dns_query event
  dnsReply    \* the last reply: its kind, and its messages of records

dnsVars == <<dnsZone, dnsQuery, dnsStage, dnsAt, dnsLogged, dnsReply>>

(* A query whose packet ends before the type and class is not `whole`.     *)
Query == [name : Names, asks : Places \cup {"absent"},
          type : {"A", "ANY", "AXFR"}, tcp : BOOLEAN, whole : BOOLEAN]
Reply(kind, messages) == [kind |-> kind, messages |-> messages]

DnsInit ==
  /\ dnsZone \in Zones
  /\ dnsQuery \in [name : {<<End>>}, asks : {"absent"}, type : {"A"}, tcp : {FALSE},
                   whole : {TRUE}]
  /\ dnsStage = "idle" /\ dnsAt = 1
  /\ dnsLogged = "none" /\ dnsReply = Reply("none", <<>>)

DnsReceive(q) ==
  /\ dnsStage = "idle"
  /\ dnsQuery' = q
  /\ dnsStage' = "decoding" /\ dnsAt' = 1
  /\ dnsLogged' = "none" /\ dnsReply' = Reply("none", <<>>)
  /\ UNCHANGED dnsZone
-----------------------------------------------------------------------------
Cell == dnsQuery.name[dnsAt]

(* The walk passes the end of the packet (IndexError), or type and class   *)
(* are not there after the name (struct.error): the query is dropped.      *)
DnsTruncated ==
  /\ \/ dnsStage = "decoding" /\ dnsAt > Len(dnsQuery.name)
     \/ dnsStage = "decoded" /\ ~dnsQuery.whole
  /\ dnsStage' = "idle"
  /\ dnsReply' = Reply("dropped", <<>>)
  /\ UNCHANGED <<dnsZone, dnsQuery, dnsAt, dnsLogged>>

(* A pointer is followed, wherever it leads; a label is passed.            *)
Target(at, cell) == IF cell > 0 THEN cell ELSE at + 1

DnsDecode ==
  /\ dnsStage = "decoding" /\ dnsAt <= Len(dnsQuery.name)
  /\ IF Cell = End
     THEN dnsStage' = "decoded" /\ UNCHANGED dnsAt
     ELSE dnsAt' = Target(dnsAt, Cell) /\ UNCHANGED dnsStage
  /\ UNCHANGED <<dnsZone, dnsQuery, dnsLogged, dnsReply>>
-----------------------------------------------------------------------------
(* What a query asks for, once its name, type and class are read.          *)
Asked(types) == dnsStage = "decoded" /\ dnsQuery.whole /\ dnsQuery.type \in types

(* Records are named by their place in the table; 0 is the SOA that        *)
(* brackets a transfer, -1 the NS made up for an apex that has none.       *)
Soa == 0
MadeUpNs == -1

SizeOf(rr) == IF rr > 0 THEN dnsZone[rr].size ELSE 1
SizeOfAll(rrs) ==
  LET size[n \in 0 .. Len(rrs)] == IF n = 0 THEN 0 ELSE size[n - 1] + SizeOf(rrs[n])
  IN  size[Len(rrs)]

(* Messages are written one after the other.  One that the length prefix   *)
(* cannot announce raises, and ends the connection: what was framed before *)
(* it may be on its way.  A datagram that is too long is not sent.         *)
Sent(kind, messages) ==
  LET tooLong == {k \in DOMAIN messages : SizeOfAll(messages[k]) > WireLimit}
  IN  IF tooLong = {} THEN Reply(kind, messages)
      ELSE Reply("cut", SubSeq(messages, 1, Min(tooLong) - 1))

(* _resolve: the records of the name that match and can be encoded.        *)
Matching(q) ==
  {i \in DOMAIN dnsZone : /\ dnsZone[i].at = q.asks
                          /\ q.type = "ANY" \/ dnsZone[i].type = q.type
                          /\ dnsZone[i].ok}

Known(q) == \E i \in DOMAIN dnsZone : dnsZone[i].at = q.asks

DnsResolve ==
  /\ Asked({"A", "ANY"})
  /\ dnsStage' = "idle"
  /\ dnsLogged' = IF Known(dnsQuery) THEN "NOERROR" ELSE "NXDOMAIN"
  /\ dnsReply' = Sent("answer", <<SetToSortSeq(Matching(dnsQuery), <)>>)
  /\ UNCHANGED <<dnsZone, dnsQuery, dnsAt>>

(* _axfr_response: permitted, by TCP, for the zone of the server.          *)
Permitted(q) == AxfrAllowed /\ q.tcp /\ q.asks = "apex"

DnsRefuse ==
  /\ Asked({"AXFR"}) /\ ~Permitted(dnsQuery)
  /\ dnsStage' = "idle"
  /\ dnsLogged' = "REFUSED"
  /\ dnsReply' = Reply("refused", <<>>)
  /\ UNCHANGED <<dnsZone, dnsQuery, dnsAt>>

(* _zone_rrs.  The apex has an NS also where that cannot be encoded.       *)
InZone(i) == dnsZone[i].at # "outside" /\ dnsZone[i].type # "SOA"
HasApexNs == \E i \in DOMAIN dnsZone : dnsZone[i].at = "apex" /\ dnsZone[i].type = "NS"

Leaving(i) == InZone(i) /\ dnsZone[i].ok

Transferred ==
  LET listed[n \in 0 .. Len(dnsZone)] ==
        IF n = 0 THEN IF HasApexNs THEN <<>> ELSE <<MadeUpNs>>
        ELSE IF Leaving(n) THEN Append(listed[n - 1], n) ELSE listed[n - 1]
  IN  listed[Len(dnsZone)]

Overfull(acc, rr) == acc.cur # <<>> /\ acc.size + SizeOf(rr) > MessageLimit
Nothing == [done |-> <<>>, cur |-> <<>>, size |-> 0]
Filled(acc, rr) == [acc EXCEPT !.cur = Append(@, rr), !.size = @ + SizeOf(rr)]

\* Mutation: the record that does not fit any more is lost with the flush.
ChunksLosing(rrs) ==
  LET chunked[n \in 0 .. Len(rrs)] ==
        IF n = 0 THEN Nothing
        ELSE LET acc == chunked[n - 1]
             IN  IF Overfull(acc, rrs[n])
                 THEN [Nothing EXCEPT !.done = Append(acc.done, acc.cur)]
                 ELSE Filled(acc, rrs[n])
      last == chunked[Len(rrs)]
  IN  Append(last.done, last.cur)

(* _chunk_axfr: a message is sent before the record that would overfill it.*)
Chunks(rrs) ==
  LET chunked[n \in 0 .. Len(rrs)] ==
        IF n = 0 THEN Nothing
        ELSE LET acc == chunked[n - 1]
             IN  IF Overfull(acc, rrs[n])
                 THEN Filled([Nothing EXCEPT !.done = Append(acc.done, acc.cur)], rrs[n])
                 ELSE Filled(acc, rrs[n])
      last == chunked[Len(rrs)]
  IN  Append(last.done, last.cur)

(* The transfer is logged before it is sent.                               *)
DnsTransfer ==
  /\ Asked({"AXFR"}) /\ Permitted(dnsQuery)
  /\ dnsStage' = "idle"
  /\ dnsLogged' = "NOERROR"
  /\ dnsReply' = Sent("transfer", Chunks(<<Soa>> \o Transferred \o <<Soa>>))
  /\ UNCHANGED <<dnsZone, dnsQuery, dnsAt>>

DnsServe == DnsResolve \/ DnsRefuse \/ DnsTransfer
DnsNext == (\E q \in Query : DnsReceive(q)) \/ DnsTruncated \/ DnsDecode \/ DnsServe

(* The event loop runs a callback to its end.                              *)
DnsFairness == WF_dnsVars(DnsTruncated \/ DnsDecode \/ DnsServe)
DnsSpec == DnsInit /\ [][DnsNext]_dnsVars /\ DnsFairness
-----------------------------------------------------------------------------
(* A zone leaves the server only where the captured posture allows it, and *)
(* then as a whole: the SOA, every record of the zone that can be encoded  *)
(* once and in order, an NS if the apex has none, no other record, and the *)
(* SOA again, however they are split; no message but one that holds a      *)
(* single record exceeds the limit, and a transfer is cut short only by a  *)
(* record that no message can hold.                                        *)
DnsTransferWhole ==
  LET sent == dnsReply.messages
      places == UNION {{k} \X DOMAIN sent[k] : k \in DOMAIN sent}
      At(p) == sent[p[1]][p[2]]
      Before(p, q) == p[1] < q[1] \/ (p[1] = q[1] /\ p[2] < q[2])
  IN /\ sent # <<>> /\ dnsQuery.type = "AXFR" =>
          AxfrAllowed /\ dnsQuery.tcp /\ dnsQuery.asks = "apex"
     /\ dnsReply.kind = "transfer" =>
          /\ \A p \in places : At(p) = Soa <=>
               (\A q \in places : ~Before(q, p)) \/ (\A q \in places : ~Before(p, q))
          /\ {At(p) : p \in places} = {Soa} \cup {i \in DOMAIN dnsZone : Leaving(i)}
                                          \cup (IF HasApexNs THEN {} ELSE {MadeUpNs})
          /\ \A p, q \in places : Before(p, q) /\ At(p) > 0 /\ At(q) > 0 => At(p) < At(q)
          /\ \A k \in DOMAIN sent :
               sent[k] # <<>> /\ (Len(sent[k]) > 1 => SizeOfAll(sent[k]) <= MessageLimit)
     /\ dnsReply.kind = "cut" /\ dnsQuery.type = "AXFR" =>
          \E i \in DOMAIN dnsZone : dnsZone[i].size > WireLimit
-----------------------------------------------------------------------------
(* What the code means to do and does not.                                 *)

(* "Every query is logged": a query that is received, whatever its name,   *)
(* is logged, or dropped because it cannot be read.                        *)
EveryQueryLogged ==
  dnsStage = "decoding" ~> dnsLogged # "none" \/ dnsReply.kind = "dropped"
=============================================================================
