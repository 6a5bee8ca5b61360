----------------------------- MODULE MCServices -----------------------------
(* The facades of one host that share nothing but the process and the      *)
(* emitter, and the scorer, which reads the log when all is over.  None    *)
(* reads what another writes, so a behaviour is about one of them, the     *)
(* `focus`, and the others rest in their initial states: what holds of     *)
(* each here holds of them side by side.                                   *)
EXTENDS SmbTelemetry, SshSession, RdpSession, BannerSession, KerberosKdc,
        DnsServer, MCHttpSession, MCObjectiveScorer

CONSTANTS t1, t2, o1, o2, r1, r2, secret, roast, keyed, plain, svc, ghost

VARIABLE focus

MCThreads == {t1, t2}
MCObjects == {o1, o2}
MCSessions == {1, 2}
MCRdpConns == {r1, r2}
MCShares == {secret}
MCSmbOffers == {{300, 311}}
MCRules == {1, 2, 3}
(* Probes: of two rules, of a rule that closes, of one that has no response *)
(* in a binary protocol, of none.                                           *)
MCProbes == {1, 2, 3, 4}
MCFits == <<{1, 3}, {2, 3}, {3}, {}>>
MCUsers == {roast, keyed, plain}
MCOffers == {{RC4, AES256}, {AES128, AES256}, {AES128, Unsupported}, {Unsupported}}

(* Record tables: without an NS; with an SOA, records of another zone and  *)
(* sizes that need several messages; with an NS that cannot be encoded; a  *)
(* record longer than the limit; one longer than any message.              *)
Rec(at, type, ok, size) == [at |-> at, type |-> type, ok |-> ok, size |-> size]
A(size) == Rec("inside", "A", TRUE, size)
MCZones ==
  {<<>>, <<A(1)>>,
   <<Rec("apex", "NS", TRUE, 1), A(2), Rec("apex", "SOA", TRUE, 1), A(2),
     Rec("outside", "A", TRUE, 1), A(1), Rec("inside", "A", FALSE, 1)>>,
   <<A(2), Rec("apex", "NS", FALSE, 1), A(1)>>,
   <<A(1), A(4), A(1)>>,
   <<A(1), A(6), A(1)>>}
(* Names: plain, truncated, with a pointer forward, to itself, backward.   *)
MCNames == {<<Label, End>>, <<Label, Label>>, <<Label, 4, Label, Label, End>>,
            <<Label, 2>>, <<Label, Label, 1, End>>}

allVars == <<smbVars, sshVars, rdpVars, bannerVars, krbVars, dnsVars, httpVars, vars>>
MCVars == <<focus, allVars>>

Parts == {"smb", "ssh", "rdp", "banner", "krb", "dns", "http", "score"}

OneBanner == [binary |-> FALSE, once |-> FALSE]
OneObjective == CHOOSE o \in MCObjectives : TRUE

MCInit ==
  /\ focus \in Parts
  /\ SmbInit /\ SshInit /\ RdpInit /\ BannerInit /\ KrbInit /\ DnsInit
  /\ HttpInit /\ Init
  /\ focus # "dns" => dnsZone = <<>>
  /\ focus # "rdp" => rdpNla
  /\ focus # "banner" => bannerCfg = OneBanner
  /\ focus # "score" => seq = OneObjective

MCNext ==
  /\ UNCHANGED focus
  /\ \/ focus = "smb" /\ SmbNext
     \/ focus = "ssh" /\ SshNext
     \/ focus = "rdp" /\ RdpNext
     \/ focus = "banner" /\ BannerNext
     \/ focus = "krb" /\ KrbNext
     \/ focus = "dns" /\ DnsNext
     \/ focus = "http" /\ HttpNext
     \/ focus = "score" /\ Next
  /\ focus # "smb" => UNCHANGED smbVars
  /\ focus # "ssh" => UNCHANGED sshVars
  /\ focus # "rdp" => UNCHANGED rdpVars
  /\ focus # "banner" => UNCHANGED bannerVars
  /\ focus # "krb" => UNCHANGED krbVars
  /\ focus # "dns" => UNCHANGED dnsVars
  /\ focus # "http" => UNCHANGED httpVars
  /\ focus # "score" => UNCHANGED vars

MCSpec == MCInit /\ [][MCNext]_MCVars

(* SMB threads are alike, and so are HTTP connections.                     *)
Alike == Permutations(MCThreads) \cup Permutations(MCConns)
=============================================================================
