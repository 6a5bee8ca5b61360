--------------------------- MODULE ServicesProofs ---------------------------
(***************************************************************************)
(* What is proved of the facades of run Services, one after another: of    *)
(* SmbTelemetry, for any number of threads and connections, any shares and *)
(* any of the facade's settings; of SshSession, for any number of          *)
(* connections, of their sessions and of objects that stand for them; of   *)
(* KerberosKdc, for any identities and any sequence of requests; of        *)
(* RdpSession, for any number of connections; of BannerSession, for any    *)
(* rules and any stream; and of DnsServer, for any zones and names.        *)
(***************************************************************************)
EXTENDS SmbTelemetry, SshSession, KerberosKdc, RdpSession, BannerSession, DnsServer,
        SharedLemmas, FiniteSetTheorems, TLAPS

(* SMB.                                                                    *)
SmbOutcomes == {"null", "success", "failure", "refused"}

Trees == [share : SmbShares, by : {"null", "named"}]

SmbShapes ==
  /\ smbOpen \subseteq SmbThreads
  /\ smbConn \in [SmbThreads -> Nat] /\ smbNext \in Nat
  /\ smbDialect \in [SmbThreads -> Int]
  /\ smbUser \in [SmbThreads -> {"none", "null", "named"}]
  /\ smbTrees \in [SmbThreads -> SUBSET Trees]
  /\ smbOutcome \in [SmbThreads -> SmbOutcomes \cup {"none"}]
  /\ smbHandler \in BOOLEAN
  /\ smbEntry \in [SmbThreads -> Nat]
  /\ smbPending \in [SmbThreads -> {"none", "anonymous", "ntlm"}]
  /\ smbDid \in [SmbThreads -> Seq(SmbOutcomes)]
  /\ smbTold \in [SmbThreads -> Seq({"success", "failure"})]
  /\ smbConnects \in [SmbThreads -> SUBSET SmbShares]

(* A thread that serves no connection holds nothing of one.                *)
Idle(t) ==
  t \notin smbOpen => /\ smbDialect[t] = 0 /\ smbUser[t] = "none"
                      /\ smbTrees[t] = {} /\ smbOutcome[t] = "none"

(* A restricted tree is a named session's; its logon and its connect have  *)
(* been told.                                                              *)
Granted(t, tree) ==
  /\ tree.by = "named"
  /\ smbHandler => /\ Count(smbTold[t], "success") >= 1
                   /\ tree.share \in smbConnects[t]

(* Whose session it is: a named one has logged on with success; over SMB1, *)
(* where it is safe, a session is always named, and a restricted share     *)
(* needs a named one over SMB2.                                            *)
Sessions(t) ==
  /\ smbDialect[t] = 0 => smbUser[t] = "none" /\ smbTrees[t] = {}
  /\ smbUser[t] = "named" => Count(smbDid[t], "success") >= 1
  /\ (Smb1Enabled => Registered) =>
       /\ smbDialect[t] = Smb1 => smbUser[t] # "null"
       /\ \A tree \in smbTrees[t] :
            tree.share \in SmbRestricted => Granted(t, tree)

Own(t) == smbHandler => smbEntry[t] = IF t \in smbOpen THEN smbConn[t] ELSE 0

Failed(s) == s # <<>> /\ s[Len(s)] = "failure"

(* What has been told of a connection that is still heard: every success,  *)
(* but for the one whose record is to come; no failure before it ends; and *)
(* what is pending is what a failure would be told of.                     *)
Heard(t) ==
  /\ Count(smbTold[t], "success") + (IF smbOutcome[t] = "success" THEN 1 ELSE 0)
       = Count(smbDid[t], "success")
  /\ t \in smbOpen => Count(smbTold[t], "failure") = 0
  /\ smbOutcome[t] = "success" => smbPending[t] # "none" /\ ~Failed(smbDid[t])
  /\ t \in smbOpen /\ smbOutcome[t] # "success" =>
       (Failed(smbDid[t]) <=> smbPending[t] = "ntlm")
  /\ t \notin smbOpen /\ Failed(smbDid[t]) => Failed(smbTold[t])

Told(t) ==
  /\ \A o \in {"success", "failure"} : Count(smbTold[t], o) <= Count(smbDid[t], o)
  /\ smbHandler => Heard(t)

SmbThreadInv(t) == Idle(t) /\ Sessions(t) /\ Own(t) /\ Told(t)

SmbInv == SmbShapes /\ \A t \in SmbThreads : SmbThreadInv(t)
-----------------------------------------------------------------------------
LEMMA CountFacts ==
  ASSUME NEW S, NEW s \in Seq(S), NEW x
  PROVE  /\ Count(s, x) \in Nat
         /\ Count(<<>>, x) = 0
         /\ \A y \in S : Count(Append(s, y), x) =
                           Count(s, x) + (IF y = x THEN 1 ELSE 0)
<1> DEFINE at(q) == {i \in DOMAIN q : q[i] = x}
<1>1. IsFiniteSet(at(s)) /\ Count(s, x) \in Nat
  <2>1. DOMAIN s = 1 .. Len(s) /\ Len(s) \in Nat
    OBVIOUS
  <2>2. IsFiniteSet(1 .. Len(s))
    BY <2>1, FS_Interval
  <2>3. IsFiniteSet(at(s))
    BY <2>1, <2>2, FS_Subset
  <2> QED
    BY <2>3, FS_CardinalityType DEF Count
<1>2. Count(<<>>, x) = 0
  <2>1. at(<<>>) = {}
    OBVIOUS
  <2> QED
    BY <2>1, FS_EmptySet DEF Count
<1>3. ASSUME NEW y \in S
      PROVE  Count(Append(s, y), x) = Count(s, x) + (IF y = x THEN 1 ELSE 0)
  <2>1. at(Append(s, y)) = IF y = x THEN at(s) \cup {Len(s) + 1} ELSE at(s)
    OBVIOUS
  <2>2. Len(s) + 1 \notin at(s)
    OBVIOUS
  <2> HIDE DEF at
  <2>3. Cardinality(at(s) \cup {Len(s) + 1}) = Cardinality(at(s)) + 1
    BY <1>1, <2>2, FS_AddElement
  <2>4. Cardinality(at(Append(s, y))) =
          Cardinality(at(s)) + (IF y = x THEN 1 ELSE 0)
    BY <1>1, <2>1, <2>3, FS_CardinalityType
  <2> QED
    BY <2>4 DEF Count, at
<1> QED
  BY <1>1, <1>2, <1>3

(* A logon that failed has been counted.                                   *)
LEMMA FailedCounts ==
  ASSUME NEW S, NEW s \in Seq(S), Failed(s)
  PROVE  Count(s, "failure") >= 1
<1> DEFINE at == {i \in DOMAIN s : s[i] = "failure"}
<1>1. Len(s) \in at /\ DOMAIN s = 1 .. Len(s) /\ Len(s) \in Nat
  BY DEF Failed
<1>2. IsFiniteSet(at)
  <2>1. IsFiniteSet(1 .. Len(s)) /\ at \subseteq 1 .. Len(s)
    BY <1>1, FS_Interval
  <2> QED
    BY <2>1, FS_Subset
<1>3. Cardinality(at) # 0 /\ Cardinality(at) \in Nat
  <2> HIDE DEF at
  <2> QED
    BY <1>1, <1>2, FS_EmptySet, FS_CardinalityType
<1> QED
  BY <1>3 DEF Count

LEMMA SmbInitInv == SmbInit => SmbInv
<1> SUFFICES ASSUME SmbInit PROVE SmbInv
  OBVIOUS
<1>1. SmbShapes
  BY DEF SmbInit, SmbShapes, SmbOutcomes
<1>2. ASSUME NEW t \in SmbThreads
      PROVE  SmbThreadInv(t)
  <2>1. Idle(t) /\ Sessions(t) /\ Own(t)
    BY DEF SmbInit, Idle, Sessions, Own, Smb1
  <2>2. smbTold[t] = <<>> /\ smbDid[t] = <<>> /\ ~Failed(<<>>)
    BY DEF SmbInit, Failed
  <2>3. \A x : Count(<<>>, x) = 0
    <3>1. <<>> \in Seq({})
      OBVIOUS
    <3> QED
      BY <3>1, CountFacts
  <2>4. Told(t)
    BY <2>2, <2>3 DEF SmbInit, Told, Heard
  <2> QED
    BY <2>1, <2>4 DEF SmbThreadInv
<1> QED
  BY <1>1, <1>2 DEF SmbInv

(* What a thread does concerns the connection it serves and no other.      *)
SmbApart(t) ==
  /\ smbHandler' = smbHandler
  /\ \A p \in SmbThreads \ {t} :
       /\ (p \in smbOpen' <=> p \in smbOpen)
       /\ smbConn'[p] = smbConn[p] /\ smbDialect'[p] = smbDialect[p]
       /\ smbUser'[p] = smbUser[p] /\ smbTrees'[p] = smbTrees[p]
       /\ smbOutcome'[p] = smbOutcome[p] /\ smbEntry'[p] = smbEntry[p]
       /\ smbPending'[p] = smbPending[p]
       /\ smbDid'[p] = smbDid[p] /\ smbTold'[p] = smbTold[p]
       /\ smbConnects'[p] = smbConnects[p]

LEMMA SmbApartKeeps ==
  ASSUME NEW t, NEW p \in SmbThreads \ {t}, SmbApart(t), SmbThreadInv(p)
  PROVE  SmbThreadInv(p)'
<1>1. Idle(p)'
  BY DEF SmbApart, SmbThreadInv, Idle
<1>2. Sessions(p)'
  BY DEF SmbApart, SmbThreadInv, Sessions, Granted, Registered
<1>3. Own(p)'
  BY DEF SmbApart, SmbThreadInv, Own
<1>4. Told(p)'
  BY DEF SmbApart, SmbThreadInv, Told, Heard
<1> QED
  BY <1>1, <1>2, <1>3, <1>4 DEF SmbThreadInv

(* The dialect answered is one of the ladder's; below the ceiling, or the  *)
(* library's own 2.0.2.                                                    *)
LEMMA SelectedFacts ==
  ASSUME NEW offered, NEW smb1 \in BOOLEAN
  PROVE  /\ Selected(offered, smb1) \in Ladder
         /\ Selected(offered, smb1) <= SmbCeiling \/ Selected(offered, smb1) = 202
<1> DEFINE S == Candidates(offered)
<1>1. S \subseteq Ladder /\ \A d \in S : d <= SmbCeiling
  BY DEF Candidates
<1>2. S # {} => Max(S) \in S
  <2>1. S # {} => \E x \in S : \A y \in S : x >= y
    <3> HIDE DEF S
    <3>1. CASE 311 \in S
      BY <1>1, <3>1 DEF Ladder
    <3>2. CASE 311 \notin S /\ 300 \in S
      BY <1>1, <3>2 DEF Ladder
    <3>3. CASE 311 \notin S /\ 300 \notin S /\ 210 \in S
      BY <1>1, <3>3 DEF Ladder
    <3>4. CASE 311 \notin S /\ 300 \notin S /\ 210 \notin S
      <4>1. \A x \in S : x = 202
        BY <1>1, <3>4 DEF Ladder
      <4> QED
        BY <4>1
    <3> QED
      BY <3>1, <3>2, <3>3, <3>4
  <2> HIDE DEF S
  <2> QED
    BY <2>1 DEF Max
<1>3. SmbCeiling \in Ladder /\ 202 \in Ladder /\ SmbCeiling <= SmbCeiling
  BY SmbAssumption DEF Ladder
<1> QED
  BY <1>1, <1>2, <1>3 DEF Selected

(* A decided logon: of a known account only by a right password; of nobody *)
(* over SMB1 once credentials are registered.                              *)
LEMMA DecidedFacts ==
  ASSUME NEW t, NEW kind \in {"anonymous", "right", "wrong"},
         kind = "right" => HavePasswords, NEW o \in Decided(t, kind)
  PROVE  /\ o \in SmbOutcomes
         /\ kind = "right" => o = "success"
         /\ o = "failure" => kind # "anonymous"
         /\ kind # "anonymous" => o \in {"success", "failure"}
         /\ Registered /\ smbDialect[t] = Smb1 /\ kind # "right" =>
              o \in {"failure", "refused"}
BY DEF Decided, SmbOutcomes, Registered

LEMMA SmbStep ==
  ASSUME SmbInv, NEW t \in SmbThreads, SmbThread(t)
  PROVE  SmbInv'
<1>0. SmbShapes /\ Idle(t) /\ Sessions(t) /\ Own(t) /\ Told(t)
  BY DEF SmbInv, SmbThreadInv
<1>a. ASSUME SmbShapes', SmbApart(t), Idle(t)', Sessions(t)', Own(t)', Told(t)'
      PROVE  SmbInv'
  BY <1>a, SmbApartKeeps, Zenon DEF SmbInv, SmbThreadInv
<1>1. CASE SmbAccept(t)
  <2>1. SmbShapes' /\ SmbApart(t)
    BY <1>0, <1>1, SMTT(20) DEF SmbAccept, SmbShapes, SmbApart
  <2>2. Idle(t)' /\ Own(t)'
    BY <1>0, <1>1 DEF SmbAccept, SmbShapes, Idle, Own
  <2>3. Sessions(t)'
    BY <1>0, <1>1 DEF SmbAccept, SmbShapes, Idle, Sessions, Smb1
  <2>4. Told(t)'
    <3>1. /\ smbTold'[t] = <<>> /\ smbDid'[t] = <<>> /\ smbOutcome'[t] = "none"
          /\ smbHandler => smbPending'[t] = "none"
          /\ smbHandler' = smbHandler
          /\ t \in smbOpen'
      BY <1>0, <1>1 DEF SmbAccept, SmbShapes, Idle
    <3>2. ~Failed(<<>>) /\ \A x : Count(<<>>, x) = 0
      <4>1. <<>> \in Seq({})
        OBVIOUS
      <4> QED
        BY <4>1, CountFacts DEF Failed
    <3> QED
      BY <3>1, <3>2 DEF Told, Heard
  <2> QED
    BY <1>a, <2>1, <2>2, <2>3, <2>4
<1>2. ASSUME NEW offered, NEW smb1 \in BOOLEAN, SmbNegotiate(t, offered, smb1)
      PROVE  SmbInv'
  <2>0. Selected(offered, smb1) \in Int
    BY SelectedFacts DEF Ladder
  <2>1. SmbShapes' /\ SmbApart(t)
    BY <1>0, <1>2, <2>0 DEF SmbNegotiate, SmbShapes, SmbApart
  <2>2. Idle(t)' /\ Own(t)' /\ Sessions(t)'
    BY <1>0, <1>2
       DEF SmbNegotiate, SmbShapes, Idle, Own, Sessions, Granted, Registered
  <2>3. Told(t)'
    BY <1>0, <1>2 DEF SmbNegotiate, Told, Heard
  <2> QED
    BY <1>a, <2>1, <2>2, <2>3
<1>3. CASE Smb1Negotiate(t)
  <2>1. SmbShapes' /\ SmbApart(t)
    BY <1>0, <1>3 DEF Smb1Negotiate, SmbShapes, SmbApart, Smb1
  <2>2. Idle(t)' /\ Own(t)' /\ Sessions(t)'
    BY <1>0, <1>3
       DEF Smb1Negotiate, SmbShapes, Idle, Own, Sessions, Granted, Registered, Smb1
  <2>3. Told(t)'
    BY <1>0, <1>3 DEF Smb1Negotiate, Told, Heard
  <2> QED
    BY <1>a, <2>1, <2>2, <2>3
<1>4. ASSUME NEW kind \in {"anonymous", "right", "wrong"}, SmbAuthenticate(t, kind)
      PROVE  SmbInv'
  <2>1. PICK o \in Decided(t, kind) :
          /\ smbOutcome' = [smbOutcome EXCEPT ![t] = o]
          /\ smbDid' = [smbDid EXCEPT ![t] = Append(@, o)]
          /\ smbUser' = [smbUser EXCEPT ![t] =
               IF o \in {"failure", "refused"} THEN @
               ELSE IF kind = "right" THEN "named" ELSE "null"]
    BY <1>4 DEF SmbAuthenticate
  <2>2. /\ o \in SmbOutcomes /\ (kind = "right" => o = "success")
        /\ o = "failure" => kind # "anonymous"
        /\ kind # "anonymous" => o \in {"success", "failure"}
        /\ Registered /\ smbDialect[t] = Smb1 /\ kind # "right" =>
             o \in {"failure", "refused"}
    BY <1>4, DecidedFacts DEF SmbAuthenticate
  <2>3. SmbShapes' /\ SmbApart(t)
    BY <1>0, <1>4, <2>1, <2>2 DEF SmbAuthenticate, SmbShapes, SmbApart
  <2>4. Idle(t)' /\ Own(t)'
    BY <1>0, <1>4 DEF SmbAuthenticate, SmbShapes, Idle, Own
  <2>5. Sessions(t)'
    <3>1. smbDid[t] \in Seq(SmbOutcomes) /\ smbDid'[t] = Append(smbDid[t], o)
      BY <1>0, <2>1 DEF SmbShapes
    <3>2. /\ Count(smbDid[t], "success") \in Nat
          /\ Count(smbDid'[t], "success") =
               Count(smbDid[t], "success") + (IF o = "success" THEN 1 ELSE 0)
      BY <2>2, <3>1, CountFacts
    <3>3. smbUser'[t] = "named" => Count(smbDid'[t], "success") >= 1
      BY <1>0, <2>1, <2>2, <3>2 DEF SmbShapes, Sessions
    <3> QED
      BY <1>0, <1>4, <2>1, <2>2, <3>3
         DEF SmbAuthenticate, SmbShapes, Sessions, Granted, Registered
  <2>6. Told(t)'
    <3>1. /\ smbDid[t] \in Seq(SmbOutcomes) /\ smbDid'[t] = Append(smbDid[t], o)
          /\ smbTold' = smbTold /\ smbOutcome'[t] = o /\ smbOutcome[t] = "none"
          /\ smbHandler' = smbHandler /\ t \in smbOpen' /\ t \in smbOpen
          /\ smbTold[t] \in Seq({"success", "failure"})
          /\ smbHandler =>
               smbPending'[t] = IF kind = "anonymous" THEN "anonymous" ELSE "ntlm"
      BY <1>0, <1>4, <2>1 DEF SmbAuthenticate, SmbShapes
    <3>2. \A x : /\ Count(smbDid'[t], x) = Count(smbDid[t], x) + (IF o = x THEN 1 ELSE 0)
                 /\ Count(smbDid[t], x) \in Nat /\ Count(smbTold[t], x) \in Nat
      BY <2>2, <3>1, CountFacts
    <3>3. Failed(smbDid'[t]) <=> o = "failure"
      BY <2>2, <3>1 DEF Failed
    <3>4. \A x \in {"success", "failure"} : Count(smbTold'[t], x) <= Count(smbDid'[t], x)
      BY <1>0, <3>1, <3>2 DEF Told
    <3>5. smbHandler' => Heard(t)'
      <4> SUFFICES ASSUME smbHandler PROVE Heard(t)'
        BY <3>1
      <4>1. Heard(t)
        BY <1>0 DEF Told
      <4>2. Count(smbTold'[t], "success") + (IF smbOutcome'[t] = "success" THEN 1 ELSE 0)
              = Count(smbDid'[t], "success")
        BY <3>1, <3>2, <4>1 DEF Heard
      <4>3. Count(smbTold'[t], "failure") = 0
        BY <3>1, <4>1 DEF Heard
      <4>4. /\ o = "success" => smbPending'[t] # "none" /\ ~Failed(smbDid'[t])
            /\ o # "success" => (Failed(smbDid'[t]) <=> smbPending'[t] = "ntlm")
        BY <1>4, <2>2, <3>1, <3>3
      <4> QED
        BY <3>1, <4>2, <4>3, <4>4 DEF Heard
    <3> QED
      BY <3>4, <3>5 DEF Told
  <2> QED
    BY <1>a, <2>3, <2>4, <2>5, <2>6
<1>5. CASE SmbAnswer(t)
  <2>0. /\ smbTold' \in [SmbThreads -> Seq({"success", "failure"})]
        /\ \A p \in SmbThreads \ {t} : smbTold'[p] = smbTold[p]
    <3>1. smbTold \in [SmbThreads -> Seq({"success", "failure"})]
      BY <1>0 DEF SmbShapes
    <3>2. Append(smbTold[t], "success") \in Seq({"success", "failure"})
      BY <3>1
    <3>3. \/ smbTold' = smbTold
          \/ smbTold' = [smbTold EXCEPT ![t] = smbTold[t]]
          \/ smbTold' = [smbTold EXCEPT ![t] = Append(smbTold[t], "success")]
      BY <1>5 DEF SmbAnswer, Flush
    <3> QED
      BY <3>1, <3>2, <3>3
  <2>1. SmbShapes' /\ SmbApart(t)
    <3>1. SmbShapes'
      BY <1>0, <1>5, <2>0 DEF SmbAnswer, SmbShapes
    <3>2. SmbApart(t)
      BY <1>0, <1>5, <2>0 DEF SmbAnswer, SmbShapes, SmbApart
    <3> QED
      BY <3>1, <3>2
  <2>2. Idle(t)' /\ Own(t)'
    BY <1>0, <1>5 DEF SmbAnswer, SmbShapes, Idle, Own
  <2>3. t \in smbOpen /\ t \in smbOpen' /\ smbDid' = smbDid /\ smbOutcome'[t] = "none"
        /\ smbHandler' = smbHandler /\ smbTold[t] \in Seq({"success", "failure"})
        /\ smbDid[t] \in Seq(SmbOutcomes)
    BY <1>0, <1>5 DEF SmbAnswer, SmbShapes, Idle
  <2>4. Sessions(t)'
    <3>1. \/ smbTold'[t] = smbTold[t]
          \/ smbTold'[t] = Append(smbTold[t], "success")
      BY <1>0, <1>5 DEF SmbAnswer, Flush, SmbShapes
    <3>2. /\ Count(smbTold[t], "success") \in Nat
          /\ \/ Count(smbTold'[t], "success") = Count(smbTold[t], "success")
             \/ Count(smbTold'[t], "success") = Count(smbTold[t], "success") + 1
      <4>1. CASE smbTold'[t] = smbTold[t]
        BY <2>3, <4>1, CountFacts
      <4>2. CASE smbTold'[t] = Append(smbTold[t], "success")
        BY <2>3, <4>2, CountFacts
      <4> QED
        BY <3>1, <4>1, <4>2
    <3>3. Count(smbTold[t], "success") >= 1 => Count(smbTold'[t], "success") >= 1
      BY <3>2
    <3>4. /\ smbDialect' = smbDialect /\ smbUser' = smbUser /\ smbTrees' = smbTrees
          /\ smbConnects' = smbConnects
          /\ Count(smbDid'[t], "success") = Count(smbDid[t], "success")
      BY <1>5, <2>3 DEF SmbAnswer
    <3>5. ASSUME Smb1Enabled => Registered, NEW tree \in smbTrees'[t],
                 tree.share \in SmbRestricted
          PROVE  Granted(t, tree)'
      BY <1>0, <2>3, <3>3, <3>4, <3>5 DEF Sessions, Granted
    <3> QED
      BY <1>0, <3>4, <3>5 DEF Sessions, Registered
  <2>5. Told(t)'
    <3>1. CASE smbHandler /\ smbOutcome[t] = "success"
      <4>1. Heard(t)
        BY <1>0, <3>1 DEF Told
      <4>2. smbTold'[t] = Append(smbTold[t], "success") /\ smbPending'[t] = "none"
        BY <1>0, <1>5, <3>1, <4>1 DEF SmbAnswer, Flush, SmbShapes, Heard
      <4>3. /\ Count(smbTold'[t], "success") = Count(smbTold[t], "success") + 1
            /\ Count(smbTold'[t], "failure") = Count(smbTold[t], "failure")
            /\ \A x : Count(smbTold[t], x) \in Nat /\ Count(smbDid[t], x) \in Nat
        <5>1. \A x : Count(smbTold[t], x) \in Nat /\ Count(smbDid[t], x) \in Nat
          BY <2>3, CountFacts
        <5>2. \A x : Count(smbTold'[t], x) =
                       Count(smbTold[t], x) + (IF "success" = x THEN 1 ELSE 0)
          BY <2>3, <4>2, CountFacts
        <5> QED
          BY <5>1, <5>2
      <4>4. Heard(t)'
        BY <2>3, <3>1, <4>1, <4>2, <4>3 DEF Heard
      <4>5. \A o \in {"success", "failure"} : Count(smbTold'[t], o) <= Count(smbDid'[t], o)
        BY <1>0, <2>3, <3>1, <4>1, <4>3 DEF Told, Heard
      <4> QED
        BY <4>4, <4>5 DEF Told
    <3>2. CASE ~(smbHandler /\ smbOutcome[t] = "success")
      <4>1. smbTold' = smbTold /\ smbPending' = smbPending
        BY <1>5, <3>2 DEF SmbAnswer
      <4> QED
        BY <1>0, <2>3, <3>2, <4>1 DEF Told, Heard
    <3> QED
      BY <3>1, <3>2
  <2> QED
    BY <1>a, <2>1, <2>2, <2>4, <2>5
<1>6. ASSUME NEW share \in SmbShares, SmbTreeConnect(t, share)
      PROVE  SmbInv'
  <2>1. SmbShapes' /\ SmbApart(t)
    <3>1. ~Revoked(t, share) => Tree(share, smbUser[t]) \in Trees
      BY <1>0, <1>6 DEF SmbTreeConnect, SmbShapes, Tree, Trees
    <3> QED
      BY <1>0, <1>6, <3>1 DEF SmbTreeConnect, SmbShapes, SmbApart
  <2>2. Idle(t)' /\ Own(t)'
    BY <1>0, <1>6 DEF SmbTreeConnect, SmbShapes, Idle, Own
  <2>3. Sessions(t)'
    <3>1. ASSUME Smb1Enabled => Registered, NEW tree \in smbTrees'[t],
                 tree.share \in SmbRestricted
          PROVE  Granted(t, tree)'
      <4>1. CASE tree \in smbTrees[t]
        BY <1>0, <1>6, <3>1, <4>1 DEF Sessions, Granted, SmbTreeConnect, SmbShapes
      <4>2. CASE tree \notin smbTrees[t]
        <5>1. ~Revoked(t, share) /\ tree = Tree(share, smbUser[t])
          BY <1>0, <1>6, <4>2 DEF SmbTreeConnect, SmbShapes
        <5>2. tree.share = share /\ tree.by = smbUser[t]
          BY <5>1 DEF Tree
        <5>3. smbUser[t] = "named"
          BY <1>0, <1>6, <3>1, <5>1, <5>2 DEF Revoked, SmbTreeConnect, SmbShapes, Sessions
        <5>4. smbHandler => Count(smbTold[t], "success") >= 1
          <6>1. smbTold[t] \in Seq({"success", "failure"}) /\ smbOutcome[t] = "none"
            BY <1>0, <1>6 DEF SmbTreeConnect, SmbShapes
          <6>2. Count(smbTold[t], "success") \in Nat
            BY <6>1, CountFacts
          <6> QED
            BY <1>0, <5>3, <6>1, <6>2 DEF Told, Heard, Sessions
        <5>5. smbHandler => share \in smbConnects'[t]
          BY <1>0, <1>6 DEF SmbTreeConnect, SmbShapes
        <5> QED
          BY <1>6, <5>2, <5>3, <5>4, <5>5 DEF SmbTreeConnect, Granted
      <4> QED
        BY <4>1, <4>2
    <3> QED
      BY <1>0, <1>6, <3>1 DEF SmbTreeConnect, Sessions, Registered
  <2>4. Told(t)'
    BY <1>0, <1>6 DEF SmbTreeConnect, Told, Heard
  <2> QED
    BY <1>a, <2>1, <2>2, <2>3, <2>4
<1>7. CASE SmbClose(t)
  <2>0. /\ smbTold' \in [SmbThreads -> Seq({"success", "failure"})]
        /\ \A p \in SmbThreads \ {t} : smbTold'[p] = smbTold[p]
    <3>1. smbTold \in [SmbThreads -> Seq({"success", "failure"})]
      BY <1>0 DEF SmbShapes
    <3>2. Append(smbTold[t], "failure") \in Seq({"success", "failure"})
      BY <3>1
    <3>3. \/ smbTold' = smbTold
          \/ smbTold' = [smbTold EXCEPT ![t] = smbTold[t]]
          \/ smbTold' = [smbTold EXCEPT ![t] = Append(smbTold[t], "failure")]
      BY <1>7 DEF SmbClose, Flush
    <3> QED
      BY <3>1, <3>2, <3>3
  <2>1. SmbShapes' /\ SmbApart(t)
    <3>1. SmbShapes'
      <4>1. /\ smbEntry' \in [SmbThreads -> Nat]
            /\ smbPending' \in [SmbThreads -> {"none", "anonymous", "ntlm"}]
        <5>1. \/ UNCHANGED <<smbEntry, smbPending>>
              \/ /\ smbEntry' = [smbEntry EXCEPT ![t] = 0]
                 /\ smbPending' = [smbPending EXCEPT ![t] = "none"]
          BY <1>7 DEF SmbClose
        <5>2. smbEntry \in [SmbThreads -> Nat]
              /\ smbPending \in [SmbThreads -> {"none", "anonymous", "ntlm"}]
          BY <1>0 DEF SmbShapes
        <5> QED
          BY <5>1, <5>2
      <4>2. /\ smbDialect' \in [SmbThreads -> Int]
            /\ smbUser' \in [SmbThreads -> {"none", "null", "named"}]
            /\ smbTrees' \in [SmbThreads -> SUBSET Trees]
        BY <1>0, <1>7 DEF SmbClose, Release, SmbShapes
      <4>3. /\ smbOpen' \subseteq SmbThreads
            /\ UNCHANGED <<smbConn, smbNext, smbOutcome, smbHandler, smbDid, smbConnects>>
        BY <1>0, <1>7 DEF SmbClose, SmbShapes
      <4> QED
        BY <1>0, <2>0, <4>1, <4>2, <4>3 DEF SmbShapes
    <3>2. SmbApart(t)
      BY <1>0, <1>7, <2>0 DEF SmbClose, Release, SmbShapes, SmbApart
    <3> QED
      BY <3>1, <3>2
  <2>2. Idle(t)' /\ Own(t)'
    BY <1>0, <1>7 DEF SmbClose, Release, SmbShapes, Idle, Own
  <2>3. Sessions(t)'
    BY <1>0, <1>7 DEF SmbClose, Release, SmbShapes, Sessions, Smb1
  <2>4. t \in smbOpen /\ t \notin smbOpen' /\ smbDid' = smbDid
        /\ smbOutcome' = smbOutcome /\ smbOutcome[t] = "none"
        /\ smbHandler' = smbHandler /\ smbTold[t] \in Seq({"success", "failure"})
        /\ smbDid[t] \in Seq(SmbOutcomes)
    BY <1>0, <1>7 DEF SmbClose, SmbShapes
  <2>5. Told(t)'
    <3>1. CASE smbHandler /\ smbPending[t] = "ntlm"
      <4>1. Heard(t) /\ Failed(smbDid[t])
        BY <1>0, <2>4, <3>1 DEF Told, Heard
      <4>2. smbTold'[t] = Append(smbTold[t], "failure")
        BY <1>0, <1>7, <3>1 DEF SmbClose, Flush, SmbShapes
      <4>3. /\ Count(smbTold'[t], "success") = Count(smbTold[t], "success")
            /\ Count(smbTold'[t], "failure") = Count(smbTold[t], "failure") + 1
            /\ Count(smbDid[t], "failure") >= 1
        <5>1. \A x : Count(smbTold[t], x) \in Nat
          BY <2>4, CountFacts
        <5>2. \A x : Count(smbTold'[t], x) =
                       Count(smbTold[t], x) + (IF "failure" = x THEN 1 ELSE 0)
          BY <2>4, <4>2, CountFacts
        <5>3. Count(smbDid[t], "failure") >= 1
          BY <2>4, <4>1, FailedCounts
        <5> QED
          BY <5>1, <5>2, <5>3
      <4>4. Failed(smbTold'[t])
        BY <2>4, <4>2 DEF Failed
      <4>5. Heard(t)'
        BY <2>4, <4>1, <4>3, <4>4 DEF Heard
      <4>6. \A o \in {"success", "failure"} : Count(smbTold'[t], o) <= Count(smbDid'[t], o)
        BY <1>0, <2>4, <4>1, <4>3 DEF Told, Heard
      <4> QED
        BY <4>5, <4>6 DEF Told
    <3>2. CASE ~(smbHandler /\ smbPending[t] = "ntlm")
      <4>1. smbTold'[t] = smbTold[t]
        BY <1>0, <1>7, <3>2 DEF SmbClose, Flush, SmbShapes
      <4>2. smbHandler => ~Failed(smbDid[t])
        BY <1>0, <2>4, <3>2 DEF Told, Heard
      <4> QED
        BY <1>0, <2>4, <4>1, <4>2 DEF Told, Heard
    <3> QED
      BY <3>1, <3>2
  <2> QED
    BY <1>a, <2>1, <2>2, <2>3, <2>5
<1> QED
  BY <1>1, <1>2, <1>3, <1>4, <1>5, <1>6, <1>7 DEF SmbThread

LEMMA SmbInvariant == SmbSpec => []SmbInv
<1>1. SmbInv /\ [SmbNext]_smbVars => SmbInv'
  <2> SUFFICES ASSUME SmbInv, [SmbNext]_smbVars PROVE SmbInv'
    OBVIOUS
  <2>1. CASE \E t \in SmbThreads : SmbThread(t)
    BY <2>1, SmbStep
  <2>2. CASE SmbStop
    <3>1. /\ UNCHANGED <<smbOpen, smbConn, smbNext, smbDialect, smbUser, smbTrees>>
          /\ UNCHANGED <<smbOutcome, smbEntry, smbPending, smbDid, smbTold, smbConnects>>
          /\ smbHandler' = FALSE
      BY <2>2 DEF SmbStop, libVars
    <3>2. SmbShapes'
      BY <3>1 DEF SmbInv, SmbShapes
    <3>3. ASSUME NEW t \in SmbThreads
          PROVE  SmbThreadInv(t)'
      <4>1. SmbThreadInv(t)
        BY DEF SmbInv
      <4>2. Idle(t)' /\ Own(t)'
        BY <3>1, <4>1 DEF SmbThreadInv, Idle, Own
      <4>3. Sessions(t)'
        BY <3>1, <4>1 DEF SmbThreadInv, Sessions, Granted, Registered
      <4>4. Told(t)'
        BY <3>1, <4>1 DEF SmbThreadInv, Told
      <4> QED
        BY <4>2, <4>3, <4>4 DEF SmbThreadInv
    <3> QED
      BY <3>2, <3>3 DEF SmbInv
  <2>3. CASE UNCHANGED smbVars
    BY <2>3 DEF smbVars, libVars, SmbInv, SmbShapes, SmbThreadInv, Idle,
                Sessions, Granted, Own, Told, Heard, Registered
  <2> QED
    BY <2>1, <2>2, <2>3 DEF SmbNext
<1> QED
  BY <1>1, SmbInitInv, PTL DEF SmbSpec

(* The events of a thread name the connection it serves and none that is   *)
(* over, for any number of connections on any number of thread ids.        *)
THEOREM OwnConnection == SmbSpec => []SmbOwnConnection
<1>1. SmbInv => SmbOwnConnection
  BY DEF SmbInv, SmbThreadInv, Own, SmbOwnConnection
<1> QED
  BY <1>1, SmbInvariant, PTL

(* The log never says more logons than there were, and of a connection it  *)
(* heard to the end it tells every success and a failure it ended with.    *)
THEOREM LogonsTold == SmbSpec => []SmbLogonsTold
<1>1. ASSUME SmbInv, NEW t \in SmbThreads
      PROVE  /\ \A o \in {"success", "failure"} : Count(smbTold[t], o) <= Count(smbDid[t], o)
             /\ smbHandler /\ t \notin smbOpen /\ smbDid[t] # <<>> =>
                  /\ Count(smbTold[t], "success") = Count(smbDid[t], "success")
                  /\ Last(smbDid[t]) = "failure" =>
                       smbTold[t] # <<>> /\ Last(smbTold[t]) = "failure"
  <2>1. SmbShapes /\ Idle(t) /\ Told(t)
    BY <1>1 DEF SmbInv, SmbThreadInv
  <2>2. ASSUME smbHandler, t \notin smbOpen, smbDid[t] # <<>>
        PROVE  /\ Count(smbTold[t], "success") = Count(smbDid[t], "success")
               /\ Last(smbDid[t]) = "failure" =>
                    smbTold[t] # <<>> /\ Last(smbTold[t]) = "failure"
    <3>1. Heard(t) /\ smbOutcome[t] = "none"
      BY <2>1, <2>2 DEF Told, Idle
    <3>2. Count(smbTold[t], "success") \in Nat
      <4>1. smbTold[t] \in Seq({"success", "failure"})
        BY <2>1 DEF SmbShapes
      <4> QED
        BY <4>1, CountFacts
    <3>3. Count(smbTold[t], "success") = Count(smbDid[t], "success")
      BY <3>1, <3>2 DEF Heard
    <3>4. Failed(smbDid[t]) => Failed(smbTold[t])
      BY <2>2, <3>1 DEF Heard
    <3> QED
      BY <2>2, <3>3, <3>4 DEF Failed, Last
  <2> QED
    BY <2>1, <2>2 DEF Told
<1>2. SmbInv => SmbLogonsTold
  BY <1>1 DEF SmbLogonsTold
<1> QED
  BY <1>2, SmbInvariant, PTL

(* Every tree of a share closed to null sessions was granted to a session  *)
(* that had a name then and whose logon the log had told, whatever the     *)
(* order of logons and tree connects.                                      *)
THEOREM RestrictedClosed == SmbSpec => []SmbRestrictedClosed
<1>1. SmbInv => SmbRestrictedClosed
  BY DEF SmbInv, SmbThreadInv, Sessions, Granted, SmbRestrictedClosed
<1> QED
  BY <1>1, SmbInvariant, PTL
-----------------------------------------------------------------------------
(* SSH.                                                                    *)

(* An object and its shells.  While the connection lasts the table has it; *)
(* a shell that has not had its first turn finds either that entry or, the *)
(* connection being lost early, none; and once it has looked, what it      *)
(* holds is right for as long as the object is not freed.                  *)
SshShapes ==
  /\ sshPhase \in [SshObjects -> {"free", "made", "authed", "lost"}]
  /\ sshConn \in [SshObjects -> Nat] /\ sshNext \in Nat
  /\ sshMap \in [SshObjects -> Nat]
  /\ sshShell \in [SshObjects -> [SshSessions -> {"none", "started", "running", "done"}]]
  /\ sshInfo \in [SshObjects -> [SshSessions -> Nat]]
  /\ sshCommand \in [SshObjects -> [SshSessions -> Nat \cup {NoCommand}]]

Seen(o, s) == IF <<o, s>> \in sshEarly THEN 0 ELSE sshConn[o]

ShellRight(o, s) ==
  /\ sshShell[o][s] # "none" =>
       sshPhase[o] \in {"authed", "lost"} /\ o \in sshLogged /\ Planted
  /\ sshShell[o][s] = "none" => <<o, s>> \notin sshEarly
  /\ sshShell[o][s] = "started" => (sshPhase[o] = "lost" <=> <<o, s>> \in sshEarly)
  /\ sshShell[o][s] \in {"none", "started"} => sshCommand[o][s] = NoCommand
  /\ sshShell[o][s] = "running" => sshInfo[o][s] = Seen(o, s)
  /\ sshCommand[o][s] \in {NoCommand, Seen(o, s)}

SshObject(o) ==
  /\ sshMap[o] = IF sshPhase[o] \in {"made", "authed"} THEN sshConn[o] ELSE 0
  /\ sshPhase[o] = "authed" => o \in sshLogged /\ Planted
  /\ \A s \in SshSessions : ShellRight(o, s)

SshInv == SshShapes /\ \A o \in SshObjects : SshObject(o)

LEMMA SshInitInv == SshInit => SshInv
BY SshAssumption DEF SshInit, Each, SshInv, SshShapes, SshObject, ShellRight, Seen

(* What one callback or turn changes is the state of one object, and what  *)
(* one turn of a shell changes is the state of that shell.                 *)
SshApart(o) ==
  \A p \in SshObjects \ {o} :
    /\ sshPhase'[p] = sshPhase[p] /\ sshConn'[p] = sshConn[p] /\ sshMap'[p] = sshMap[p]
    /\ sshShell'[p] = sshShell[p] /\ sshInfo'[p] = sshInfo[p]
    /\ sshCommand'[p] = sshCommand[p]
    /\ (p \in sshLogged' <=> p \in sshLogged)
    /\ \A s \in SshSessions : <<p, s>> \in sshEarly' <=> <<p, s>> \in sshEarly

ShellApart(o, s) ==
  /\ UNCHANGED <<sshPhase, sshConn, sshNext, sshMap, sshLogged, sshEarly>>
  /\ \A r \in SshSessions \ {s} :
       /\ sshShell'[o][r] = sshShell[o][r] /\ sshInfo'[o][r] = sshInfo[o][r]
       /\ sshCommand'[o][r] = sshCommand[o][r]

LEMMA SshApartKeeps ==
  ASSUME NEW o, NEW p \in SshObjects \ {o}, SshApart(o), SshObject(p)
  PROVE  SshObject(p)'
BY DEF SshApart, SshObject, ShellRight, Seen

LEMMA ShellApartKeeps ==
  ASSUME NEW o, NEW s \in SshSessions, ShellApart(o, s), SshObject(o),
         ShellRight(o, s)'
  PROVE  SshObject(o)'
<1>1. ASSUME NEW r \in SshSessions, r # s
      PROVE  ShellRight(o, r)'
  BY <1>1 DEF ShellApart, SshObject, ShellRight, Seen
<1>2. \A r \in SshSessions : ShellRight(o, r)'
  BY <1>1
<1> QED
  BY <1>2 DEF ShellApart, SshObject

LEMMA ShellStep ==
  ASSUME SshInv, NEW o \in SshObjects, NEW s \in SshSessions, SshShell(o, s)
  PROVE  SshInv'
<1> USE DEF SshInv, SshShapes, NoCommand
<1>0. SshObject(o) /\ ShellRight(o, s)
  BY DEF SshInv, SshObject
<1>1. SshShapes' /\ SshApart(o) /\ ShellApart(o, s)
  <2>1. CASE SshStart(o, s)
    BY <2>1 DEF SshStart, SshApart, ShellApart
  <2>2. CASE \E hasCommand \in BOOLEAN : SshShellRuns(o, s, hasCommand)
    BY <2>2 DEF SshShellRuns, SshApart, ShellApart
  <2>3. CASE \E ends \in BOOLEAN : SshLine(o, s, ends)
    BY <2>3 DEF SshLine, SshApart, ShellApart
  <2>4. CASE SshShellEnds(o, s)
    BY <2>4 DEF SshShellEnds, SshApart, ShellApart
  <2> QED
    BY <2>1, <2>2, <2>3, <2>4 DEF SshShell
<1>2. ShellRight(o, s)'
  <2>1. CASE SshStart(o, s)
    BY <1>0, <2>1 DEF SshStart, SshObject, ShellRight, Seen
  <2>2. CASE \E hasCommand \in BOOLEAN : SshShellRuns(o, s, hasCommand)
    BY <1>0, <2>2 DEF SshShellRuns, SshObject, ShellRight, Seen
  <2>3. CASE \E ends \in BOOLEAN : SshLine(o, s, ends)
    BY <1>0, <2>3 DEF SshLine, ShellRight, Seen
  <2>4. CASE SshShellEnds(o, s)
    BY <1>0, <2>4 DEF SshShellEnds, ShellRight, Seen
  <2> QED
    BY <2>1, <2>2, <2>3, <2>4 DEF SshShell
<1>3. SshObject(o)'
  BY <1>0, <1>1, <1>2, ShellApartKeeps
<1> QED
  BY <1>1, <1>3, SshApartKeeps

LEMMA SshStep ==
  ASSUME SshInv, NEW o \in SshObjects, SshConnection(o)
  PROVE  SshInv'
<1> USE DEF SshInv, SshShapes, NoCommand
<1>0. SshObject(o)
  BY DEF SshInv
<1>1. CASE SshMade(o)
  <2>1. SshShapes' /\ SshApart(o)
    BY <1>1 DEF SshMade, Each, SshApart
  <2>2. SshObject(o)'
    BY <1>1, <1>0 DEF SshMade, Each, Freed, SshObject, ShellRight, Seen
  <2> QED
    BY <2>1, <2>2, SshApartKeeps
<1>2. CASE \E right \in BOOLEAN : SshPassword(o, right)
  <2>1. SshShapes' /\ SshApart(o)
    BY <1>2 DEF SshPassword, SshApart
  <2>2. SshObject(o)'
    BY <1>2, <1>0 DEF SshPassword, SshObject, ShellRight, Seen
  <2> QED
    BY <2>1, <2>2, SshApartKeeps
<1>3. CASE SshKey(o)
  BY <1>3 DEF SshKey, sshVars, SshObject, ShellRight, Seen
<1>4. CASE SshLost(o)
  <2>1. SshShapes' /\ SshApart(o)
    BY <1>4 DEF SshLost, SshApart
  <2>2. SshObject(o)'
    BY <1>4, <1>0 DEF SshLost, SshObject, ShellRight, Seen
  <2> QED
    BY <2>1, <2>2, SshApartKeeps
<1>5. CASE \E s \in SshSessions : SshShell(o, s)
  BY <1>5, ShellStep
<1> QED
  BY <1>1, <1>2, <1>3, <1>4, <1>5 DEF SshConnection

LEMMA SshInvariant == SshSpec => []SshInv
<1>1. SshInv /\ [SshNext]_sshVars => SshInv'
  <2> SUFFICES ASSUME SshInv, [SshNext]_sshVars PROVE SshInv'
    OBVIOUS
  <2>1. CASE SshNext
    BY <2>1, SshStep DEF SshNext
  <2>2. CASE UNCHANGED sshVars
    BY <2>2 DEF sshVars, SshInv, SshShapes, SshObject, ShellRight, Seen
  <2> QED
    BY <2>1, <2>2
<1> QED
  BY <1>1, SshInitInv, PTL DEF SshSpec

(* Commands carry their connection, whatever objects and ids are used      *)
(* again, but for a connection lost before its shell's first turn.         *)
THEOREM OwnCommands == SshSpec => []SshOwnCommands
<1>1. SshInv => SshOwnCommands
  BY DEF SshInv, SshObject, ShellRight, SshShapes, SshOwnCommands, Seen
<1> QED
  BY <1>1, SshInvariant, PTL
-----------------------------------------------------------------------------
(* The tickets of the KDC are of accounts it has a key for, and the last   *)
(* request, its answer and its events are told as one.                     *)
KrbInv ==
  /\ \A t \in krbTgts : t.client \in KrbKeyed
  /\ KrbTicketForTgt /\ KrbLogTruth

(* The type chosen is missing from the library only when it is all there   *)
(* is on offer.                                                            *)
LEMMA ChosenUnsupported ==
  ASSUME NEW offered \in Offers
  PROVE  Chosen(offered) = Unsupported <=> offered = {Unsupported}
<1>1. offered \subseteq {RC4, AES256, AES128, Unsupported} /\ offered # {}
  BY KrbAssumption
<1> QED
  BY <1>1 DEF Chosen, RC4, AES256, AES128, Unsupported

LEMMA KrbOtherKeeps == KrbInv /\ KrbOther => KrbInv'
BY DEF KrbInv, KrbOther, Handle, Other, KrbTicketForTgt, KrbLogTruth

LEMMA KrbAsKeeps ==
  ASSUME KrbInv, NEW r \in AsRequest, KrbAsRefused(r) \/ KrbAsServed(r)
  PROVE  KrbInv'
<1>1. r.op = "as" /\ r.offered \in Offers
  BY DEF AsRequest
<1>2. Chosen(r.offered) = Unsupported <=> r.offered = {Unsupported}
  BY <1>1, ChosenUnsupported
<1>3. CASE KrbAsRefused(r)
  BY <1>1, <1>3, KrbAssumption
     DEF KrbInv, KrbAsRefused, Handle, Withheld, KrbTicketForTgt, KrbLogTruth
<1>4. CASE KrbAsServed(r)
  BY <1>1, <1>2, <1>4, KrbAssumption
     DEF KrbInv, KrbAsServed, Handle, Withheld, Roastable, KrbTicketForTgt, KrbLogTruth
<1> QED
  BY <1>3, <1>4

LEMMA KrbTgsKeeps ==
  ASSUME KrbInv, NEW r \in TgsRequest, r.tgt \in krbTgts \cup {Forged},
         KrbTgsUnread(r) \/ KrbTgs(r)
  PROVE  KrbInv'
<1>1. r.op = "tgs"
  BY DEF TgsRequest
<1>2. CASE KrbTgsUnread(r)
  BY <1>1, <1>2 DEF KrbInv, KrbTgsUnread, Handle, KrbTicketForTgt, KrbLogTruth
<1>3. CASE KrbTgs(r)
  <2>1. r.tgt \in krbTgts /\ r.tgt.client \in KrbKeyed
    BY <1>3 DEF KrbTgs, Opens, KrbInv
  <2> QED
    BY <1>1, <1>3, <2>1
       DEF KrbInv, KrbTgs, Handle, KrbTicketForTgt, KrbLogTruth
<1> QED
  BY <1>2, <1>3

LEMMA KrbInvariant == KrbSpec => []KrbInv
<1>1. KrbInit => KrbInv
  BY DEF KrbInit, KrbInv, Other, KrbTicketForTgt, KrbLogTruth
<1>2. KrbInv /\ [KrbNext]_krbVars => KrbInv'
  <2> SUFFICES ASSUME KrbInv, [KrbNext]_krbVars PROVE KrbInv'
    OBVIOUS
  <2>1. CASE KrbNext
    BY <2>1, KrbOtherKeeps, KrbAsKeeps, KrbTgsKeeps DEF KrbNext
  <2>2. CASE UNCHANGED krbVars
    BY <2>2 DEF krbVars, KrbInv, KrbTicketForTgt, KrbLogTruth
  <2> QED
    BY <2>1, <2>2
<1> QED
  BY <1>1, <1>2, PTL DEF KrbSpec

(* Whoever gets a service ticket has presented a ticket that this KDC made *)
(* for an account with a password, whatever it was asked before.           *)
THEOREM TicketForTgt == KrbSpec => []KrbTicketForTgt
BY KrbInvariant, PTL DEF KrbInv

(* What is handed out is in the log as what it is, and crackable material  *)
(* goes out only with its alert.                                           *)
THEOREM KdcLogTruth == KrbSpec => []KrbLogTruth
BY KrbInvariant, PTL DEF KrbInv
-----------------------------------------------------------------------------
RdpShapes ==
  /\ rdpNla \in BOOLEAN
  /\ rdpStage \in [RdpConns -> {"closed", "hello", "tls", "credssp", "challenged"}]
  /\ rdpSelected \in [RdpConns -> Protocols \cup {"none", "FAILURE"}]
  /\ rdpOwn \in [RdpConns -> Nat] /\ rdpCount \in Nat
  /\ rdpAuth \in [RdpConns -> {"none", "success", "failure"}]

(* A connection negotiates once and before it logs on, so the protocol it  *)
(* chose is still the one its logon was made under when it is over.        *)
RdpConnection(c) ==
  /\ rdpStage[c] # "closed" => rdpAuth[c] = "none"
  /\ rdpStage[c] = "tls" =>
       rdpSelected[c] \in Protocols /\ (rdpNla => rdpSelected[c] = "HYBRID")
  /\ rdpStage[c] \in {"credssp", "challenged"} => rdpSelected[c] = "HYBRID"
  /\ rdpAuth[c] # "none" => rdpSelected[c] = "HYBRID"
  /\ rdpAuth[c] = "success" => c \in rdpProved

RdpInv == RdpShapes /\ \A c \in RdpConns : RdpConnection(c)

RdpApart(c) ==
  \A d \in RdpConns \ {c} :
    /\ rdpStage'[d] = rdpStage[d] /\ rdpSelected'[d] = rdpSelected[d]
    /\ rdpAuth'[d] = rdpAuth[d] /\ (d \in rdpProved' <=> d \in rdpProved)

LEMMA RdpApartKeeps ==
  ASSUME NEW c, NEW d \in RdpConns \ {c}, RdpApart(c), RdpConnection(d), rdpNla' = rdpNla
  PROVE  RdpConnection(d)'
BY DEF RdpApart, RdpConnection

LEMMA RdpStep ==
  ASSUME RdpInv, NEW c \in RdpConns,
         \/ RdpConnect(c) \/ RdpGone(c)
         \/ \E requested \in SUBSET Protocols : RdpNegotiate(c, requested)
         \/ RdpTls(c) \/ RdpType1(c)
         \/ \E right \in BOOLEAN, n \in 1 .. (rdpCount - 1) : RdpType3(c, right, n)
  PROVE  RdpInv'
<1>0. RdpShapes /\ RdpConnection(c)
  BY DEF RdpInv
<1>a. ASSUME RdpShapes', RdpApart(c), RdpConnection(c)', rdpNla' = rdpNla
      PROVE  RdpInv'
  BY <1>a, RdpApartKeeps DEF RdpInv
<1>1. CASE RdpConnect(c)
  BY <1>0, <1>a, <1>1 DEF RdpConnect, RdpShapes, RdpConnection, RdpApart
<1>2. CASE RdpGone(c)
  BY <1>0, <1>a, <1>2 DEF RdpGone, RdpShapes, RdpConnection, RdpApart
<1>3. CASE \E requested \in SUBSET Protocols : RdpNegotiate(c, requested)
  <2>1. PICK requested \in SUBSET Protocols : RdpNegotiate(c, requested)
    BY <1>3
  <2>2. PICK s : s = Select(requested)
    OBVIOUS
  <2>3. /\ s \in {"SSL", "HYBRID", "FAILURE"}
        /\ s # "FAILURE" /\ rdpNla => s = "HYBRID"
    BY <2>2 DEF Select
  <2> QED
    BY <1>0, <1>a, <2>1, <2>2, <2>3
       DEF RdpNegotiate, RdpShapes, RdpConnection, RdpApart, Protocols
<1>4. CASE RdpTls(c)
  BY <1>0, <1>a, <1>4 DEF RdpTls, RdpShapes, RdpConnection, RdpApart, Protocols
<1>5. CASE RdpType1(c)
  BY <1>0, <1>a, <1>5 DEF RdpType1, RdpShapes, RdpConnection, RdpApart
<1>6. CASE \E right \in BOOLEAN, n \in 1 .. (rdpCount - 1) : RdpType3(c, right, n)
  <2>1. PICK right \in BOOLEAN, n \in 1 .. (rdpCount - 1) : RdpType3(c, right, n)
    BY <1>6
  <2>2. RdpShapes'
    BY <1>0, <2>1 DEF RdpType3, RdpShapes
  <2>3. RdpApart(c)
    BY <1>0, <2>1 DEF RdpType3, RdpShapes, RdpApart
  <2>4. RdpConnection(c)' /\ rdpNla' = rdpNla
    BY <1>0, <2>1 DEF RdpType3, RdpShapes, RdpConnection, Accepts
  <2> QED
    BY <1>a, <2>2, <2>3, <2>4
<1> QED
  BY <1>1, <1>2, <1>3, <1>4, <1>5, <1>6

LEMMA RdpInvariant == RdpSpec => []RdpInv
<1>1. RdpInit => RdpInv
  BY DEF RdpInit, RdpInv, RdpShapes, RdpConnection
<1>2. RdpInv /\ [RdpNext]_rdpVars => RdpInv'
  <2> SUFFICES ASSUME RdpInv, [RdpNext]_rdpVars PROVE RdpInv'
    OBVIOUS
  <2>1. CASE RdpNext
    BY <2>1, RdpStep DEF RdpNext
  <2>2. CASE UNCHANGED rdpVars
    BY <2>2 DEF rdpVars, RdpInv, RdpShapes, RdpConnection
  <2> QED
    BY <2>1, <2>2
<1> QED
  BY <1>1, <1>2, PTL DEF RdpSpec

(* A logon that the RDP log calls a success was one, under HYBRID, over    *)
(* the connection's own challenge; and nla_required lets nobody else in.   *)
THEOREM RdpTruth == RdpSpec => []RdpLogTruth
<1>1. RdpInv => RdpLogTruth
  BY DEF RdpInv, RdpShapes, RdpConnection, RdpLogTruth
<1> QED
  BY <1>1, RdpInvariant, PTL
-----------------------------------------------------------------------------
(* Banner.  What a connection has read and logged, and how many of the     *)
(* lines it has logged have an answer.                                     *)
Halves == Probes \X {1, 2}
BannerShapes ==
  /\ bannerCfg \in [binary : BOOLEAN, once : BOOLEAN]
  /\ bannerStage \in {"closed", "greeting", "serving"}
  /\ bannerStream \in Seq(Halves) /\ bannerTaken \in 0 .. Len(bannerStream)
  /\ bannerLog \in Seq(Rules \cup {0}) /\ bannerAnswers \in Seq(Rules)

Line(i) == FirstMatch(SubSeq(bannerStream, 2 * i - 1, 2 * i))
Due(i) == {j \in 1 .. i : Answers(bannerLog[j])}

(* While a text session is open each entry of the log is a whole line.     *)
BannerLines ==
  ~bannerCfg.binary =>
    /\ bannerStage # "closed" => bannerTaken = 2 * Len(bannerLog)
    /\ \A i \in DOMAIN bannerLog :
         bannerLog[i] = IF 2 * i <= Len(bannerStream) THEN Line(i) ELSE 0

BannerAnswered ==
  /\ Cardinality(Due(Len(bannerLog))) = Len(bannerAnswers)
     \/ (bannerStage = "closed" /\ Cardinality(Due(Len(bannerLog))) = Len(bannerAnswers) + 1)
  /\ \A i \in Due(Len(bannerLog)) :
       Cardinality(Due(i)) \in DOMAIN bannerAnswers =>
         bannerAnswers[Cardinality(Due(i))] = bannerLog[i]

BannerOpen ==
  /\ bannerStage = "greeting" => bannerLog = <<>>
  /\ bannerStage = "serving" =>
       \A i \in DOMAIN bannerLog :
         bannerLog[i] \notin Closing /\ (bannerCfg.binary => bannerLog[i] # 0)

BannerInv == BannerShapes /\ BannerLines /\ BannerAnswered /\ BannerOpen

LEMMA FirstMatchIsRule == ASSUME NEW data PROVE FirstMatch(data) \in Rules \cup {0}
<1> DEFINE matching == UNION {Fits[p] : p \in Whole(data)}
<1>1. matching \in SUBSET Rules /\ Rules \subseteq Nat
  BY BannerAssumption DEF Whole
<1>2. CASE matching = {}
  BY <1>2 DEF FirstMatch
<1>3. CASE matching # {}
  <2>1. matching \in SUBSET Nat
    BY <1>1
  <2>2. \E m \in matching : \A n \in matching : m <= n
    <3> HIDE DEF matching
    <3> QED
      BY <1>3, <2>1, LeastExists
  <2>3. Min(matching) \in matching
    <3> HIDE DEF matching
    <3> QED
      BY <2>2 DEF Min
  <2>4. FirstMatch(data) = Min(matching)
    BY <1>3 DEF FirstMatch
  <2> QED
    BY <1>1, <2>3, <2>4
<1> QED
  BY <1>2, <1>3

(* The lines with an answer, counted up to a line.                         *)
LEMMA DueCounts ==
  ASSUME BannerShapes, NEW i \in 0 .. Len(bannerLog)
  PROVE  IsFiniteSet(Due(i)) /\ Cardinality(Due(i)) \in 0 .. i
<1>1. IsFiniteSet(1 .. i) /\ Cardinality(1 .. i) = i
  <2>1. 1 \in Int /\ i \in Int /\ i >= 0
    BY DEF BannerShapes
  <2> QED
    BY <2>1, FS_Interval
<1>2. Due(i) \in SUBSET (1 .. i)
  BY DEF Due
<1> QED
  BY <1>1, <1>2, FS_Subset, FS_CardinalityType

(* One more entry in the log.                                              *)
LEMMA DueGrows ==
  ASSUME BannerShapes, UNCHANGED bannerCfg, NEW rule \in Rules \cup {0},
         bannerLog' = Append(bannerLog, rule), NEW n, n = Len(bannerLog)
  PROVE  /\ \A i \in 0 .. n : Due(i)' = Due(i)
         /\ Due(n + 1)' = Due(n) \cup (IF Answers(rule) THEN {n + 1} ELSE {})
         /\ Cardinality(Due(n + 1)') = Cardinality(Due(n)) + (IF Answers(rule) THEN 1 ELSE 0)
<1>0. n \in Nat /\ \A j \in 1 .. n : bannerLog'[j] = bannerLog[j]
  BY DEF BannerShapes
<1>1. bannerLog'[n + 1] = rule /\ n + 1 \notin 1 .. n
  BY DEF BannerShapes
<1>2. \A j \in 1 .. n : Answers(bannerLog[j])' <=> Answers(bannerLog[j])
  BY <1>0 DEF Answers
<1>3. Answers(bannerLog[n + 1])' <=> Answers(rule)
  BY <1>1 DEF Answers
<1>4. \A i \in 0 .. n : Due(i)' = Due(i)
  BY <1>0, <1>2 DEF Due
<1>5. Due(n + 1)' = Due(n) \cup (IF Answers(rule) THEN {n + 1} ELSE {})
  <2>1. 1 .. (n + 1) = (1 .. n) \cup {n + 1}
    BY <1>0
  <2> QED
    BY <1>2, <1>3, <2>1 DEF Due
<1>6. IsFiniteSet(Due(n)) /\ n + 1 \notin Due(n)
  <2>1. n \in 0 .. Len(bannerLog)
    BY <1>0
  <2> QED
    BY <1>1, <2>1, DueCounts DEF Due
<1>7. Cardinality(Due(n + 1)') = Cardinality(Due(n)) + (IF Answers(rule) THEN 1 ELSE 0)
  <2>1. CASE Answers(rule)
    <3>1. Due(n + 1)' = Due(n) \cup {n + 1}
      BY <1>5, <2>1
    <3> QED
      BY <1>6, <2>1, <3>1, FS_AddElement
  <2>2. CASE ~Answers(rule)
    <3>1. Due(n + 1)' = Due(n)
      BY <1>5, <2>2
    <3>2. Cardinality(Due(n)) \in Nat
      BY <1>6, FS_CardinalityType
    <3> QED
      BY <2>2, <3>1, <3>2
  <2> QED
    BY <2>1, <2>2
<1> QED
  BY <1>4, <1>5, <1>7

(* What is logged for a read, with or without its answer.                  *)
LEMMA LogsAndAnswers ==
  ASSUME BannerShapes, BannerAnswered, UNCHANGED bannerCfg, bannerStage # "closed",
         NEW rule \in Rules \cup {0}, bannerLog' = Append(bannerLog, rule),
         bannerStage' \in {"closed", "greeting", "serving"},
         \/ bannerAnswers' = IF Answers(rule) THEN Append(bannerAnswers, rule)
                              ELSE bannerAnswers
         \/ bannerStage' = "closed" /\ bannerAnswers' = bannerAnswers
  PROVE  BannerAnswered' /\ bannerAnswers' \in Seq(Rules)
<1>a. PICK n : n = Len(bannerLog)
  OBVIOUS
<1>0. n = Len(bannerLog) /\ n \in Nat /\ n \in 0 .. n /\ Len(bannerLog') = n + 1
  BY <1>a DEF BannerShapes
<1>1. /\ \A i \in 0 .. n : Due(i)' = Due(i)
      /\ Due(n + 1)' = Due(n) \cup (IF Answers(rule) THEN {n + 1} ELSE {})
      /\ Cardinality(Due(n + 1)') = Cardinality(Due(n)) + (IF Answers(rule) THEN 1 ELSE 0)
  BY <1>0, DueGrows
<1>2. PICK k : k = Cardinality(Due(n)) /\ k \in Nat /\ k = Len(bannerAnswers)
  BY <1>0, DueCounts DEF BannerAnswered
<1>3. /\ bannerAnswers \in Seq(Rules) /\ bannerLog'[n + 1] = rule
      /\ \A j \in 1 .. n : bannerLog'[j] = bannerLog[j]
      /\ Answers(rule) => rule \in Rules
  BY <1>0 DEF BannerShapes, Answers
<1>4. ASSUME NEW i \in Due(n)
      PROVE  /\ Cardinality(Due(i)') = Cardinality(Due(i)) /\ bannerLog'[i] = bannerLog[i]
             /\ Cardinality(Due(i)) \in 1 .. k => bannerAnswers[Cardinality(Due(i))] = bannerLog[i]
  <2>1. i \in 1 .. n
    BY DEF Due
  <2>2. Due(i)' = Due(i)
    BY <1>0, <1>1, <2>1
  <2>3. Cardinality(Due(i)) \in 1 .. k => Cardinality(Due(i)) \in DOMAIN bannerAnswers
    BY <1>2, <1>3
  <2> QED
    BY <1>0, <1>3, <2>1, <2>2, <2>3 DEF BannerAnswered
<1>5. CASE Answers(rule) /\ bannerAnswers' = Append(bannerAnswers, rule)
  <2>1. /\ Len(bannerAnswers)' = k + 1 /\ bannerAnswers'[k + 1] = rule
        /\ \A j \in 1 .. k : bannerAnswers'[j] = bannerAnswers[j]
        /\ bannerAnswers' \in Seq(Rules) /\ DOMAIN bannerAnswers' = 1 .. (k + 1)
    BY <1>2, <1>3, <1>5
  <2>2. Cardinality(Due(n + 1)') = k + 1
    BY <1>1, <1>2, <1>5
  <2>3. ASSUME NEW i \in Due(n + 1)', Cardinality(Due(i)') \in 1 .. (k + 1)
        PROVE  bannerAnswers'[Cardinality(Due(i)')] = bannerLog'[i]
    <3>1. CASE i = n + 1
      BY <1>3, <2>1, <2>2, <3>1
    <3>2. CASE i \in Due(n)
      <4>1. i \in 0 .. n /\ i \in 1 .. n
        BY <1>0, <3>2 DEF Due
      <4>2. Due(i) \subseteq Due(n) /\ IsFiniteSet(Due(n))
        <5>1. n \in 0 .. Len(bannerLog)
          BY <1>0
        <5>2. 1 .. i \subseteq 1 .. n
          BY <1>0, <4>1
        <5> QED
          BY <5>1, <5>2, DueCounts DEF Due
      <4>3. Cardinality(Due(i)) <= k /\ Cardinality(Due(i)) \in Nat
        BY <1>2, <4>2, FS_Subset, FS_CardinalityType
      <4>4. Cardinality(Due(i)) \in 1 .. k
        BY <1>2, <1>4, <2>3, <3>2, <4>3
      <4> QED
        BY <1>4, <2>1, <3>2, <4>4
    <3> QED
      BY <1>1, <1>5, <2>3, <3>1, <3>2
  <2> QED
    BY <1>0, <2>1, <2>2, <2>3 DEF BannerAnswered
<1>6. CASE bannerAnswers' = bannerAnswers
            /\ (Answers(rule) => bannerStage' = "closed")
  <2>1. Cardinality(Due(n + 1)') = k + (IF Answers(rule) THEN 1 ELSE 0)
    BY <1>1, <1>2
  <2>2. ASSUME NEW i \in Due(n + 1)', Cardinality(Due(i)') \in 1 .. k
        PROVE  bannerAnswers'[Cardinality(Due(i)')] = bannerLog'[i]
    <3>1. CASE i = n + 1
      <4>1. Cardinality(Due(n + 1)') = k
        BY <1>2, <2>1, <2>2, <3>1
      <4>2. ~Answers(rule)
        BY <1>2, <2>1, <4>1
      <4>3. n + 1 \in Due(n)
        BY <1>1, <2>2, <3>1, <4>2
      <4> QED
        BY <1>0, <4>3 DEF Due
    <3>2. CASE i \in Due(n)
      BY <1>4, <1>6, <2>2, <3>2
    <3> QED
      BY <1>1, <2>2, <3>1, <3>2
  <2>3. DOMAIN bannerAnswers' = 1 .. k /\ Len(bannerAnswers)' = k
    BY <1>2, <1>3, <1>6
  <2>4. Due(Len(bannerLog))' = Due(n + 1)'
    BY <1>0 DEF Due
  <2>5. \/ Cardinality(Due(Len(bannerLog))') = Len(bannerAnswers')
        \/ /\ bannerStage' = "closed"
           /\ Cardinality(Due(Len(bannerLog))') = Len(bannerAnswers') + 1
    BY <1>2, <1>6, <2>1, <2>3, <2>4
  <2>6. \A i \in Due(Len(bannerLog))' :
          Cardinality(Due(i)') \in DOMAIN bannerAnswers' =>
            bannerAnswers'[Cardinality(Due(i)')] = bannerLog'[i]
    BY <2>2, <2>3, <2>4
  <2> QED
    BY <1>3, <1>6, <2>5, <2>6 DEF BannerAnswered
<1> QED
  BY <1>5, <1>6

LEMMA PartOfLonger ==
  ASSUME NEW S, NEW s \in Seq(S), NEW x \in S, NEW a \in Nat, NEW b \in Nat,
         1 <= a, b <= Len(s)
  PROVE  SubSeq(Append(s, x), a, b) = SubSeq(s, a, b)
OBVIOUS

(* Lines of text, as the stream grows and as it is read.                   *)
LEMMA BannerStep ==
  ASSUME BannerInv, BannerNext
  PROVE  BannerInv'
<1> USE DEF BannerInv, BannerShapes
<1>a. bannerCfg' = bannerCfg
  BY DEF BannerNext, BannerConnect, BannerArrives, BannerGreet, BannerRead, BannerLastLine,
         BannerGone
<1>1. CASE BannerConnect
  <2>1. BannerShapes' /\ bannerLog' = <<>> /\ bannerAnswers' = <<>>
    BY <1>1 DEF BannerConnect
  <2>2. Due(Len(bannerLog))' = {}
    BY <2>1 DEF Due
  <2>3. BannerAnswered'
    <3>1. Cardinality(Due(Len(bannerLog))') = 0
      BY <2>2, FS_EmptySet
    <3> QED
      BY <2>1, <2>2, <3>1 DEF BannerAnswered
  <2>4. BannerLines' /\ BannerOpen'
    BY <1>1, <2>1 DEF BannerConnect, BannerLines, BannerOpen
  <2> QED
    BY <2>1, <2>3, <2>4
<1>2. CASE BannerArrives
  <2>1. PICK h \in Halves : bannerStream' = Append(bannerStream, h)
    <3>1. CASE Len(bannerStream) % 2 = 0
      <4>1. PICK p \in Probes : bannerStream' = Append(bannerStream, <<p, 1>>)
        BY <1>2, <3>1 DEF BannerArrives
      <4>2. <<p, 1>> \in Halves
        BY DEF Halves
      <4> QED
        BY <4>1, <4>2
    <3>2. CASE Len(bannerStream) % 2 = 1
      <4>1. Len(bannerStream) \in Nat \ {0}
        BY <3>2
      <4>2. Last(bannerStream) \in Halves
        BY <4>1 DEF Last
      <4>3. <<Last(bannerStream)[1], 2>> \in Halves
        BY <4>2 DEF Halves
      <4>4. bannerStream' = Append(bannerStream, <<Last(bannerStream)[1], 2>>)
        BY <1>2, <3>2 DEF BannerArrives
      <4> QED
        BY <4>3, <4>4
    <3> QED
      BY <1>2, <3>1, <3>2 DEF BannerArrives
  <2>2. BannerShapes' /\ bannerTaken' = bannerTaken
    BY <1>2, <2>1 DEF BannerArrives
  <2>0. Len(bannerStream') = Len(bannerStream) + 1
    BY <2>1
  <2>3. ASSUME ~bannerCfg.binary, NEW i \in DOMAIN bannerLog
        PROVE  2 * i <= Len(bannerStream) /\ Line(i)' = Line(i)
    <3>1. i \in Nat /\ i >= 1 /\ 2 * i <= 2 * Len(bannerLog)
      OBVIOUS
    <3>2. 2 * Len(bannerLog) = bannerTaken
      BY <1>2, <2>3 DEF BannerLines, BannerArrives
    <3>3. 2 * i <= Len(bannerStream)
      BY <3>1, <3>2
    <3>4. SubSeq(bannerStream', 2 * i - 1, 2 * i) = SubSeq(bannerStream, 2 * i - 1, 2 * i)
      <4>1. 2 * i - 1 \in Nat /\ 2 * i \in Nat /\ 1 <= 2 * i - 1
        BY <3>1
      <4>2. bannerStream \in Seq(Halves) /\ h \in Halves
        OBVIOUS
      <4> QED
        BY ONLY <2>1, <3>3, <4>1, <4>2, PartOfLonger
    <3> QED
      BY <3>3, <3>4 DEF Line, FirstMatch, Whole
  <2>4. BannerLines'
    BY <1>2, <1>a, <2>0, <2>3 DEF BannerLines, BannerArrives
  <2>5. BannerAnswered' /\ BannerOpen'
    BY <1>2, <1>a DEF BannerArrives, BannerAnswered, BannerOpen, Due, Answers
  <2> QED
    BY <2>2, <2>4, <2>5
<1>3. CASE BannerGreet
  <2>1. BannerShapes' /\ BannerAnswered'
    <3>1. BannerShapes'
      BY <1>3 DEF BannerGreet
    <3>2. Len(bannerLog) = 0 /\ Due(Len(bannerLog)) = {} /\ Due(Len(bannerLog))' = {}
      BY <1>3 DEF BannerGreet, BannerOpen, Due
    <3>3. Len(bannerAnswers) = 0
      <4>1. Cardinality(Due(Len(bannerLog))) = 0
        BY <3>2, FS_EmptySet
      <4> QED
        BY <1>3, <4>1 DEF BannerAnswered, BannerGreet
    <3> QED
      BY <1>3, <3>1, <3>2, <3>3, FS_EmptySet DEF BannerAnswered, BannerGreet
  <2>2. BannerLines'
    BY <1>3 DEF BannerGreet, BannerLines, BannerOpen, Line, FirstMatch, Whole
  <2>3. BannerOpen'
    BY <1>3 DEF BannerGreet, BannerOpen
  <2> QED
    BY <2>1, <2>2, <2>3
<1>4. CASE BannerRead
  <2> DEFINE unread == SubSeq(bannerStream, bannerTaken + 1, Len(bannerStream))
  <2>1. PICK n \in 1 .. Len(unread), rule \in Rules \cup {0} :
          /\ rule = FirstMatch(SubSeq(unread, 1, n))
          /\ Reads(unread, n) /\ bannerTaken' = bannerTaken + n
          /\ bannerLog' = Append(bannerLog, rule)
          /\ \/ /\ bannerAnswers' = IF Answers(rule) THEN Append(bannerAnswers, rule)
                                    ELSE bannerAnswers
                /\ bannerStage' = IF Ends(rule) THEN "closed" ELSE "serving"
             \/ /\ Answers(rule) /\ bannerAnswers' = bannerAnswers
                /\ bannerStage' = "closed"
    BY <1>4, FirstMatchIsRule DEF BannerRead
  <2>2. Len(unread) = Len(bannerStream) - bannerTaken
    OBVIOUS
  <2>3. bannerStage = "serving" /\ bannerStream' = bannerStream
    BY <1>4 DEF BannerRead
  <2>4. BannerAnswered' /\ bannerAnswers' \in Seq(Rules)
    <3> HIDE DEF unread
    <3>1. bannerStage' \in {"closed", "greeting", "serving"}
      BY <2>1
    <3>2. \/ bannerAnswers' = IF Answers(rule) THEN Append(bannerAnswers, rule)
                              ELSE bannerAnswers
          \/ bannerStage' = "closed" /\ bannerAnswers' = bannerAnswers
      BY <2>1
    <3> QED
      BY <1>a, <2>1, <2>3, <3>1, <3>2, LogsAndAnswers
  <2>5. BannerShapes'
    <3>1. bannerTaken' \in 0 .. Len(bannerStream')
      BY <2>1, <2>2, <2>3
    <3> HIDE DEF unread
    <3> QED
      BY <1>a, <2>1, <2>3, <2>4, <3>1
  <2>6. BannerOpen'
    <3> HIDE DEF unread
    <3>1. ASSUME bannerStage' = "serving" PROVE rule \notin Closing /\ (bannerCfg.binary => rule # 0)
      BY <2>1, <3>1 DEF Ends
    <3>2. \A i \in DOMAIN bannerLog' : bannerLog'[i] = IF i = Len(bannerLog) + 1 THEN rule ELSE bannerLog[i]
      BY <2>1
    <3>3. DOMAIN bannerLog' = 1 .. (Len(bannerLog) + 1)
      BY <2>1
    <3> QED
      BY <1>a, <2>1, <2>3, <3>1, <3>2, <3>3 DEF BannerOpen
  <2>7. BannerLines'
    <3> SUFFICES ASSUME ~bannerCfg.binary
                 PROVE  /\ bannerTaken' = 2 * Len(bannerLog')
                        /\ \A i \in DOMAIN bannerLog' :
                             bannerLog'[i] = IF 2 * i <= Len(bannerStream') THEN Line(i)'
                                             ELSE 0
      BY <1>a DEF BannerLines
    <3>1. n = 2 /\ bannerTaken = 2 * Len(bannerLog)
      BY <2>1, <2>3 DEF Reads, BannerLines
    <3>2. PICK m : m = Len(bannerLog)
      OBVIOUS
    <3>3. /\ m \in Nat /\ Len(bannerLog') = m + 1 /\ bannerLog'[m + 1] = rule
          /\ \A i \in 1 .. m : bannerLog'[i] = bannerLog[i]
      <4> HIDE DEF unread
      <4> QED
        BY <2>1, <3>2
    <3>4. bannerTaken' = 2 * (m + 1) /\ 2 * (m + 1) <= Len(bannerStream)
      BY <2>1, <2>2, <3>1, <3>2, <3>3
    <3>5. SubSeq(unread, 1, 2) = SubSeq(bannerStream, 2 * (m + 1) - 1, 2 * (m + 1))
      BY <3>1, <3>2, <3>3, <3>4
    <3>6. rule = Line(m + 1)
      BY <2>1, <3>1, <3>5 DEF Line
    <3>7. ASSUME NEW i \in 1 .. (m + 1) PROVE Line(i)' = Line(i)
      BY <2>3 DEF Line, FirstMatch, Whole
    <3>8. ASSUME NEW i \in 1 .. m
          PROVE  bannerLog[i] = IF 2 * i <= Len(bannerStream) THEN Line(i) ELSE 0
      BY <3>2, <3>8 DEF BannerLines
    <3>9. ASSUME NEW i \in 1 .. (m + 1)
          PROVE  bannerLog'[i] = IF 2 * i <= Len(bannerStream) THEN Line(i)' ELSE 0
      <4>1. CASE i = m + 1
        BY <3>3, <3>4, <3>6, <3>7, <4>1
      <4>2. CASE i \in 1 .. m
        BY <3>3, <3>7, <3>8, <4>2
      <4> QED
        BY <3>3, <4>1, <4>2
    <3>10. DOMAIN bannerLog' = 1 .. (m + 1)
      BY <2>5, <3>3
    <3> HIDE DEF unread
    <3> QED
      BY <2>3, <3>3, <3>4, <3>9, <3>10
  <2> HIDE DEF unread
  <2> QED
    BY <2>4, <2>5, <2>6, <2>7
<1>5. CASE BannerLastLine
  <2>1. /\ bannerLog' = Append(bannerLog, 0) /\ bannerAnswers' = bannerAnswers
        /\ bannerStage = "serving" /\ bannerStage' = "closed" /\ ~Answers(0)
    BY <1>5 DEF BannerLastLine, Answers
  <2>2. BannerAnswered'
    BY <1>a, <2>1, LogsAndAnswers
  <2>3. BannerShapes' /\ BannerOpen'
    BY <1>5 DEF BannerLastLine, BannerOpen
  <2>4. BannerLines'
    <3>1. ~bannerCfg.binary /\ Len(bannerStream) = 2 * Len(bannerLog) + 1
          /\ bannerStream' = bannerStream
      BY <1>5 DEF BannerLastLine, BannerLines
    <3>2. PICK m : m = Len(bannerLog)
      OBVIOUS
    <3>3. /\ m \in Nat /\ DOMAIN bannerLog' = 1 .. (m + 1) /\ bannerLog'[m + 1] = 0
          /\ \A i \in 1 .. m : bannerLog'[i] = bannerLog[i] /\ i \in DOMAIN bannerLog
      BY <2>1, <3>2
    <3>4. \A i \in 1 .. m : Line(i)' = Line(i)
      BY <3>1 DEF Line, FirstMatch, Whole
    <3>5. \A i \in 1 .. m :
            bannerLog'[i] = IF 2 * i <= Len(bannerStream) THEN Line(i)' ELSE 0
      BY <3>1, <3>3, <3>4 DEF BannerLines
    <3>6. ~(2 * (m + 1) <= Len(bannerStream))
      BY <3>1, <3>2, <3>3
    <3>7. \A i \in 1 .. (m + 1) : i \in 1 .. m \/ i = m + 1
      BY <3>3
    <3> QED
      BY <2>1, <3>1, <3>3, <3>5, <3>6, <3>7 DEF BannerLines
  <2> QED
    BY <2>2, <2>3, <2>4
<1>6. CASE BannerGone
  <2>1. BannerShapes' /\ BannerOpen'
    BY <1>6 DEF BannerGone, BannerOpen
  <2>2. BannerLines'
    BY <1>6, ZenonT(20) DEF BannerGone, BannerLines, Line, FirstMatch, Whole
  <2>3. BannerAnswered'
    BY <1>6 DEF BannerGone, BannerAnswered, Due, Answers
  <2> QED
    BY <2>1, <2>2, <2>3
<1> QED
  BY <1>1, <1>2, <1>3, <1>4, <1>5, <1>6 DEF BannerNext

LEMMA BannerInvariant == BannerSpec => []BannerInv
<1>1. BannerInit => BannerInv
  <2> SUFFICES ASSUME BannerInit PROVE BannerInv
    OBVIOUS
  <2>1. BannerShapes /\ BannerLines /\ BannerOpen
    BY DEF BannerInit, BannerShapes, BannerLines, BannerOpen
  <2>2. Due(Len(bannerLog)) = {} /\ Len(bannerAnswers) = 0
    BY DEF BannerInit, Due
  <2> QED
    BY <2>1, <2>2, FS_EmptySet DEF BannerInv, BannerAnswered
<1>2. BannerInv /\ UNCHANGED bannerVars => BannerInv'
  <2> SUFFICES ASSUME BannerInv, UNCHANGED bannerVars PROVE BannerInv'
    OBVIOUS
  <2>1. BannerShapes' /\ BannerOpen'
    BY DEF bannerVars, BannerInv, BannerShapes, BannerOpen
  <2>2. BannerLines'
    BY DEF bannerVars, BannerInv, BannerLines, Line, FirstMatch, Whole
  <2>3. BannerAnswered'
    BY DEF bannerVars, BannerInv, BannerAnswered, Due, Answers
  <2> QED
    BY <2>1, <2>2, <2>3 DEF BannerInv
<1>3. BannerInv /\ [BannerNext]_bannerVars => BannerInv'
  BY <1>2, BannerStep
<1> QED
  BY <1>1, <1>3, PTL DEF BannerSpec

(* Text is logged line by line however it arrives, answers are those of    *)
(* the log, and what should close a session has closed it.                 *)
THEOREM LinesLogged == BannerSpec => []BannerLogged
<1>1. BannerInv => BannerLogged
  <2> SUFFICES ASSUME BannerInv PROVE BannerLogged
    OBVIOUS
  <2>1. Cardinality(Due(Len(bannerLog))) \in Nat /\ Len(bannerAnswers) \in Nat
    <3>1. Len(bannerLog) \in 0 .. Len(bannerLog)
      BY DEF BannerInv, BannerShapes
    <3> QED
      BY <3>1, DueCounts DEF BannerInv, BannerShapes
  <2>2. PICK d : d = Cardinality(Due(Len(bannerLog)))
    OBVIOUS
  <2>3. d - Len(bannerAnswers) = 0 \/ (bannerStage = "closed" /\ d - Len(bannerAnswers) = 1)
    BY <2>1, <2>2 DEF BannerInv, BannerAnswered
  <2> QED
    BY <2>2, <2>3 DEF BannerInv, BannerLogged, BannerLines, BannerAnswered, BannerOpen, Line, Due
<1> QED
  BY <1>1, BannerInvariant, PTL
-----------------------------------------------------------------------------
(* DNS.  What the recursive functions of a transfer are.                   *)
LEMMA ListedUnfolds ==
  ASSUME dnsZone \in Seq(Record)
  PROVE  \E listed :
           /\ listed \in [0 .. Len(dnsZone) -> Seq({MadeUpNs} \cup DOMAIN dnsZone)]
           /\ listed[0] = IF HasApexNs THEN <<>> ELSE <<MadeUpNs>>
           /\ \A n \in 1 .. Len(dnsZone) :
                listed[n] = IF Leaving(n) THEN Append(listed[n - 1], n) ELSE listed[n - 1]
           /\ Transferred = listed[Len(dnsZone)]
<1>a. PICK N : N = Len(dnsZone)
  OBVIOUS
<1>b. PICK Lists : Lists = Seq({MadeUpNs} \cup DOMAIN dnsZone)
  OBVIOUS
<1>c. PICK base : base = IF HasApexNs THEN <<>> ELSE <<MadeUpNs>>
  OBVIOUS
<1>d. PICK step : step = [n \in 1 .. N |-> [s \in Lists |-> IF Leaving(n) THEN Append(s, n) ELSE s]]
  OBVIOUS
<1>0. N \in Nat /\ DOMAIN dnsZone = 1 .. N
  BY <1>a
<1>1. base \in Lists /\ step \in [1 .. N -> [Lists -> Lists]]
  <2>1. ASSUME NEW n \in 1 .. N, NEW s \in Lists
        PROVE  (IF Leaving(n) THEN Append(s, n) ELSE s) \in Lists
    BY <1>0, <1>b
  <2>2. base \in Lists
    <3>1. <<MadeUpNs>> \in Lists /\ <<>> \in Lists
      BY <1>b
    <3> QED
      BY <1>c, <3>1
  <2> QED
    BY <1>d, <2>1, <2>2
<1>2. PICK f : /\ f \in [0 .. N -> Lists] /\ f[0] = base
               /\ \A n \in 1 .. N : f[n] = step[n][f[n - 1]]
  BY ONLY <1>0, <1>1, FiniteRecursion
<1>3. ASSUME NEW n \in 1 .. N
      PROVE  f[n] = IF Leaving(n) THEN Append(f[n - 1], n) ELSE f[n - 1]
  <2>1. n - 1 \in 0 .. N
    BY <1>0
  <2>2. f[n - 1] \in Lists
    BY <1>2, <2>1
  <2>3. step[n][f[n - 1]] = IF Leaving(n) THEN Append(f[n - 1], n) ELSE f[n - 1]
    BY <1>d, <2>2
  <2> QED
    BY <1>2, <2>3
<1> DEFINE Body(g, n) == IF n = 0 THEN IF HasApexNs THEN <<>> ELSE <<MadeUpNs>>
                         ELSE IF Leaving(n) THEN Append(g[n - 1], n) ELSE g[n - 1]
<1>4. f = [n \in 0 .. N |-> Body(f, n)]
  <2>1. Body(f, 0) = f[0]
    BY <1>2, <1>c
  <2>2. ASSUME NEW n \in 1 .. N PROVE f[n] = Body(f, n)
    <3>1. n # 0
      OBVIOUS
    <3> QED
      BY <1>3, <3>1
  <2>3. \A n \in 0 .. N : f[n] = Body(f, n)
    <3>1. \A n \in 0 .. N : n = 0 \/ n \in 1 .. N
      BY <1>0
    <3> HIDE DEF Body
    <3> QED
      BY <2>1, <2>2, <3>1
  <2> HIDE DEF Body
  <2> QED
    BY <1>2, <2>3
<1>5. PICK listed : /\ listed = CHOOSE g : g = [n \in 0 .. N |-> Body(g, n)]
                    /\ Transferred = listed[N]
  BY <1>a DEF Transferred
<1>6. listed = [n \in 0 .. N |-> Body(listed, n)]
  <2> HIDE DEF Body
  <2> QED
    BY <1>4, <1>5
<1>7. \A n \in 0 .. N : listed[n] = f[n]
  <2>1. 0 \in 0 .. N /\ Body(listed, 0) = Body(f, 0)
    BY <1>0
  <2>2. listed[0] = f[0]
    <3> HIDE DEF Body
    <3> QED
      BY <1>4, <1>6, <2>1
  <2>3. ASSUME NEW n \in 1 .. N, listed[n - 1] = f[n - 1] PROVE listed[n] = f[n]
    <3>1. n \in 0 .. N /\ Body(listed, n) = Body(f, n)
      BY <1>0, <2>3
    <3> HIDE DEF Body
    <3> QED
      BY <1>4, <1>6, <3>1
  <2>4. \A n \in 1 .. N : listed[n - 1] = f[n - 1] => listed[n] = f[n]
    BY <2>3
  <2>5. N \in Nat
    BY <1>0
  <2> QED
    BY ONLY <2>2, <2>4, <2>5, SameRecursion
<1>8. Transferred = f[N]
  <2>1. Transferred = listed[N]
    BY <1>5
  <2>2. N \in 0 .. N
    BY <1>0
  <2> QED
    BY ONLY <1>7, <2>1, <2>2
<1> QED
  BY <1>2, <1>3, <1>8, <1>a, <1>b, <1>c

(* The records of the zone in their order, after the NS made up for it.    *)
LEMMA TransferredFacts ==
  ASSUME dnsZone \in Seq(Record)
  PROVE  /\ Transferred \in Seq({MadeUpNs} \cup DOMAIN dnsZone)
         /\ {Transferred[j] : j \in DOMAIN Transferred}
              = {i \in DOMAIN dnsZone : Leaving(i)} \cup (IF HasApexNs THEN {} ELSE {MadeUpNs})
         /\ \A i, j \in DOMAIN Transferred :
              i < j /\ Transferred[i] > 0 /\ Transferred[j] > 0 => Transferred[i] < Transferred[j]
<1>1. PICK f : /\ f \in [0 .. Len(dnsZone) -> Seq({MadeUpNs} \cup DOMAIN dnsZone)]
               /\ f[0] = IF HasApexNs THEN <<>> ELSE <<MadeUpNs>>
               /\ \A n \in 1 .. Len(dnsZone) :
                    f[n] = IF Leaving(n) THEN Append(f[n - 1], n) ELSE f[n - 1]
               /\ Transferred = f[Len(dnsZone)]
  BY ListedUnfolds
<1>0. PICK N : N = Len(dnsZone)
  OBVIOUS
<1>a. N \in Nat /\ DOMAIN dnsZone = 1 .. N
  BY <1>0
<1>b. PICK apex : apex = IF HasApexNs THEN {} ELSE {MadeUpNs}
  OBVIOUS
<1>c. apex \subseteq {MadeUpNs}
  BY <1>b
<1> DEFINE Lists == Seq({MadeUpNs} \cup DOMAIN dnsZone)
           Set(t) == {t[j] : j \in DOMAIN t}
           Ordered(t) == \A i, j \in DOMAIN t : i < j /\ t[i] > 0 /\ t[j] > 0 => t[i] < t[j]
           Good(n) == /\ f[n] \in Lists
                      /\ Set(f[n]) = {i \in 1 .. n : Leaving(i)} \cup apex
                      /\ Ordered(f[n])
           good == {n \in Nat : n <= N => Good(n)}
<1>2. 0 \in good
  <2>1. f[0] \in Lists
    BY <1>0, <1>1, <1>a
  <2>2. {i \in 1 .. 0 : Leaving(i)} = {}
    OBVIOUS
  <2>3. CASE HasApexNs
    <3>1. f[0] = <<>> /\ apex = {}
      BY <1>1, <1>b, <2>3
    <3>2. Set(f[0]) = {} /\ Ordered(f[0])
      BY <3>1
    <3>3. Good(0)
      <4> HIDE DEF Lists
      <4> QED
        BY <2>1, <2>2, <3>1, <3>2
    <3> QED
      BY <3>3
  <2>4. CASE ~HasApexNs
    <3>1. f[0] = <<MadeUpNs>> /\ apex = {MadeUpNs}
      BY <1>1, <1>b, <2>4
    <3>2. DOMAIN f[0] = {1} /\ f[0][1] = MadeUpNs
      BY <3>1
    <3>3. Set(f[0]) = {MadeUpNs}
      BY <3>2
    <3>4. Ordered(f[0])
      BY <3>2
    <3>5. Good(0)
      <4> HIDE DEF Lists, Set, Ordered
      <4> QED
        BY <2>1, <2>2, <3>1, <3>3, <3>4
    <3> QED
      BY <3>5
  <2> QED
    BY <2>3, <2>4
<1>3. ASSUME NEW n \in good PROVE n + 1 \in good
  <2> SUFFICES ASSUME n + 1 <= N PROVE Good(n + 1)
    OBVIOUS
  <2>1. n \in Nat /\ n + 1 \in 1 .. N /\ (n + 1) - 1 = n
    BY <1>a
  <2>2. Good(n)
    BY <1>a
  <2>3. f[n + 1] = IF Leaving(n + 1) THEN Append(f[n], n + 1) ELSE f[n]
    BY <1>0, <1>1, <2>1
  <2>4. CASE ~Leaving(n + 1)
    <3>1. {i \in 1 .. (n + 1) : Leaving(i)} = {i \in 1 .. n : Leaving(i)}
      BY <2>1, <2>4
    <3> QED
      BY <2>2, <2>3, <2>4, <3>1
  <2>5. CASE Leaving(n + 1)
    <3>1. PICK t : t = f[n]
      OBVIOUS
    <3>2. t \in Lists /\ f[n + 1] = Append(t, n + 1) /\ Len(t) \in Nat
      BY <2>2, <2>3, <2>5, <3>1
    <3>3. n + 1 \in {MadeUpNs} \cup DOMAIN dnsZone
      BY <1>a, <2>1
    <3>4. /\ Append(t, n + 1) \in Lists
          /\ DOMAIN Append(t, n + 1) = 1 .. (Len(t) + 1) /\ DOMAIN t = 1 .. Len(t)
          /\ Append(t, n + 1)[Len(t) + 1] = n + 1
          /\ \A j \in DOMAIN t : Append(t, n + 1)[j] = t[j]
      BY <3>2, <3>3
    <3>5. Set(Append(t, n + 1)) = Set(t) \cup {n + 1}
      <4>1. 1 .. (Len(t) + 1) = (1 .. Len(t)) \cup {Len(t) + 1}
        BY <3>2
      <4> HIDE DEF Lists
      <4> QED
        BY <3>4, <4>1
    <3>6. {i \in 1 .. (n + 1) : Leaving(i)} = {i \in 1 .. n : Leaving(i)} \cup {n + 1}
      BY <2>1, <2>5
    <3>7. Set(f[n + 1]) = {i \in 1 .. (n + 1) : Leaving(i)} \cup apex
      <4>1. Set(t) = {i \in 1 .. n : Leaving(i)} \cup apex
        BY <2>2, <3>1
      <4> HIDE DEF Lists, Set
      <4> QED
        BY <3>2, <3>5, <3>6, <4>1
    <3>8. \A j \in DOMAIN t : t[j] \in Int /\ t[j] < n + 1
      <4>1. ASSUME NEW j \in DOMAIN t PROVE t[j] \in Int /\ t[j] < n + 1
        <5>1. t[j] \in Set(t)
          OBVIOUS
        <5>2. t[j] \in 1 .. n \/ t[j] = MadeUpNs
          BY <1>c, <2>2, <3>1, <5>1
        <5> QED
          BY <2>1, <5>2 DEF MadeUpNs
      <4> QED
        BY <4>1
    <3>9. Ordered(Append(t, n + 1))
      <4> HIDE DEF Lists
      <4> SUFFICES ASSUME NEW i \in 1 .. (Len(t) + 1), NEW j \in 1 .. (Len(t) + 1), i < j,
                          Append(t, n + 1)[i] > 0, Append(t, n + 1)[j] > 0
                   PROVE  Append(t, n + 1)[i] < Append(t, n + 1)[j]
        BY <3>4
      <4>1. i \in DOMAIN t /\ (j \in DOMAIN t \/ j = Len(t) + 1)
        BY <3>2, <3>4
      <4>2. CASE j \in DOMAIN t
        BY <2>2, <3>1, <3>4, <4>1, <4>2
      <4>3. CASE j = Len(t) + 1
        BY <3>4, <3>8, <4>1, <4>3
      <4> QED
        BY <4>1, <4>2, <4>3
    <3> QED
      BY <3>2, <3>4, <3>7, <3>9
  <2> QED
    BY <2>4, <2>5
<1>4. N \in good
  <2>1. good \in SUBSET Nat
    OBVIOUS
  <2>2. good = Nat
    <3> HIDE DEF good
    <3> QED
      BY <1>2, <1>3, <2>1, EveryNumber
  <2> QED
    BY <1>a, <2>2
<1> QED
  BY <1>0, <1>1, <1>4, <1>a, <1>b

(* The size of some records is the sum of theirs.                          *)
LEMMA SizesUnfold ==
  ASSUME NEW S, \A x \in S : SizeOf(x) \in Nat, NEW s \in Seq(S)
  PROVE  \E size : /\ size \in [0 .. Len(s) -> Nat] /\ size[0] = 0
                   /\ \A n \in 1 .. Len(s) : size[n] = size[n - 1] + SizeOf(s[n])
                   /\ SizeOfAll(s) = size[Len(s)]
<1>a. PICK N : N = Len(s)
  OBVIOUS
<1>0. N \in Nat /\ \A n \in 1 .. N : SizeOf(s[n]) \in Nat
  BY <1>a
<1>c. PICK Sums, none : Sums = Nat /\ none = 0
  OBVIOUS
<1>b. PICK step : step = [n \in 1 .. N |-> [x \in Sums |-> x + SizeOf(s[n])]]
  OBVIOUS
<1>d. N \in Nat /\ none \in Sums /\ step \in [1 .. N -> [Sums -> Sums]]
  BY <1>0, <1>b, <1>c
<1>1. PICK f : /\ f \in [0 .. N -> Sums] /\ f[0] = none
               /\ \A n \in 1 .. N : f[n] = step[n][f[n - 1]]
  BY ONLY <1>d, FiniteRecursion
<1>2. /\ f \in [0 .. N -> Nat] /\ f[0] = 0
      /\ \A n \in 1 .. N : f[n] = step[n][f[n - 1]]
  BY <1>1, <1>c
<1>3. ASSUME NEW n \in 1 .. N PROVE f[n] = f[n - 1] + SizeOf(s[n])
  <2>1. n - 1 \in 0 .. N
    BY <1>0
  <2>2. f[n - 1] \in Nat
    BY <1>2, <2>1
  <2>3. step[n][f[n - 1]] = f[n - 1] + SizeOf(s[n])
    BY <1>b, <1>c, <2>2
  <2> QED
    BY <1>2, <2>3
<1> DEFINE Body(g, n) == IF n = 0 THEN 0 ELSE g[n - 1] + SizeOf(s[n])
<1>4. f = [n \in 0 .. N |-> Body(f, n)]
  <2>1. ASSUME NEW n \in 1 .. N PROVE f[n] = Body(f, n)
    <3>1. n # 0
      OBVIOUS
    <3> QED
      BY <1>3, <3>1
  <2>2. f[0] = Body(f, 0)
    BY <1>2
  <2>3. \A n \in 0 .. N : n = 0 \/ n \in 1 .. N
    BY <1>0
  <2> HIDE DEF Body
  <2> QED
    BY <1>2, <2>1, <2>2, <2>3
<1>5. PICK size : /\ size = CHOOSE g : g = [n \in 0 .. N |-> Body(g, n)]
                  /\ SizeOfAll(s) = size[N]
  BY <1>a DEF SizeOfAll
<1>6. size = [n \in 0 .. N |-> Body(size, n)]
  <2> HIDE DEF Body
  <2> QED
    BY <1>4, <1>5
<1>7. \A n \in 0 .. N : size[n] = f[n]
  <2>1. 0 \in 0 .. N /\ Body(size, 0) = Body(f, 0)
    BY <1>0
  <2>2. size[0] = f[0]
    <3> HIDE DEF Body
    <3> QED
      BY <1>4, <1>6, <2>1
  <2>3. ASSUME NEW n \in 1 .. N, size[n - 1] = f[n - 1] PROVE size[n] = f[n]
    <3>1. n \in 0 .. N /\ Body(size, n) = Body(f, n)
      BY <1>0, <2>3
    <3> HIDE DEF Body
    <3> QED
      BY <1>4, <1>6, <3>1
  <2>4. \A n \in 1 .. N : size[n - 1] = f[n - 1] => size[n] = f[n]
    BY <2>3
  <2>5. N \in Nat
    BY <1>0
  <2> QED
    BY ONLY <2>2, <2>4, <2>5, SameRecursion, SMTT(20)
<1>8. SizeOfAll(s) = f[N]
  <2>1. SizeOfAll(s) = size[N]
    BY <1>5
  <2>2. N \in 0 .. N
    BY <1>0
  <2> QED
    BY ONLY <1>7, <2>1, <2>2
<1> QED
  BY <1>2, <1>3, <1>8, <1>a

LEMMA Sizes ==
  ASSUME NEW S, \A x \in S : SizeOf(x) \in Nat, NEW s \in Seq(S)
  PROVE  /\ SizeOfAll(s) \in Nat /\ SizeOfAll(<<>>) = 0
         /\ \A x \in S : SizeOfAll(Append(s, x)) = SizeOfAll(s) + SizeOf(x)
<1>1. PICK f : /\ f \in [0 .. Len(s) -> Nat] /\ f[0] = 0
               /\ \A n \in 1 .. Len(s) : f[n] = f[n - 1] + SizeOf(s[n])
               /\ SizeOfAll(s) = f[Len(s)]
  BY SizesUnfold
<1>2. SizeOfAll(s) \in Nat
  BY <1>1
<1>3. SizeOfAll(<<>>) = 0
  <2>1. <<>> \in Seq(S) /\ Len(<<>>) = 0
    OBVIOUS
  <2>2. PICK g : g[0] = 0 /\ SizeOfAll(<<>>) = g[Len(<<>>)]
    BY ONLY \A x \in S : SizeOf(x) \in Nat, <2>1, SizesUnfold
  <2> QED
    BY <2>1, <2>2
<1>4. ASSUME NEW x \in S PROVE SizeOfAll(Append(s, x)) = SizeOfAll(s) + SizeOf(x)
  <2>0. PICK N : N = Len(s)
    OBVIOUS
  <2>1. PICK t : t = Append(s, x)
    OBVIOUS
  <2>2. /\ t \in Seq(S) /\ Len(t) = N + 1 /\ t[N + 1] = x /\ N \in Nat
        /\ \A n \in 1 .. N : t[n] = s[n]
    BY <2>0, <2>1
  <2>3. PICK g : /\ g \in [0 .. Len(t) -> Nat] /\ g[0] = 0
                 /\ \A n \in 1 .. Len(t) : g[n] = g[n - 1] + SizeOf(t[n])
                 /\ SizeOfAll(t) = g[Len(t)]
    BY ONLY \A z \in S : SizeOf(z) \in Nat, <2>2, SizesUnfold
  <2>4. \A n \in 1 .. N : g[n - 1] = f[n - 1] => g[n] = f[n]
    BY <1>1, <2>0, <2>2, <2>3
  <2>5. g[0] = f[0] /\ N \in Nat
    BY <1>1, <2>2, <2>3
  <2>6. \A n \in 0 .. N : g[n] = f[n]
    BY ONLY <2>4, <2>5, SameRecursion, SMTT(20)
  <2>7. g[N + 1] = g[N] + SizeOf(x)
    <3>1. N + 1 \in 1 .. Len(t) /\ (N + 1) - 1 = N
      BY <2>2
    <3> QED
      BY <2>2, <2>3, <3>1
  <2>8. g[N] = f[N]
    BY <2>2, <2>6
  <2> QED
    BY <1>1, <2>0, <2>1, <2>2, <2>3, <2>7, <2>8
<1> QED
  BY <1>2, <1>3, <1>4

(* A message that is being put together, and the finished ones.            *)
Packing(S) == [done : Seq(Seq(S)), cur : Seq(S), size : Nat]
Packed(acc, rr) ==
  IF Overfull(acc, rr) THEN Filled([Nothing EXCEPT !.done = Append(acc.done, acc.cur)], rr)
  ELSE Filled(acc, rr)

LEMMA PackedIsPacking ==
  ASSUME NEW S, NEW acc \in Packing(S), NEW rr \in S, SizeOf(rr) \in Nat
  PROVE  Packed(acc, rr) \in Packing(S)
<1>1. /\ acc.done \in Seq(Seq(S)) /\ acc.cur \in Seq(S) /\ acc.size \in Nat
      /\ acc = [done |-> acc.done, cur |-> acc.cur, size |-> acc.size]
  BY DEF Packing
<1>2. ASSUME NEW a \in Packing(S) PROVE Filled(a, rr) \in Packing(S)
  <2>1. Append(a.cur, rr) \in Seq(S) /\ a.size + SizeOf(rr) \in Nat
    BY DEF Packing
  <2> QED
    BY <2>1 DEF Packing, Filled
<1>3. [Nothing EXCEPT !.done = Append(acc.done, acc.cur)] \in Packing(S)
  <2>1. Append(acc.done, acc.cur) \in Seq(Seq(S)) /\ <<>> \in Seq(S)
    BY <1>1
  <2> QED
    BY <2>1 DEF Nothing, Packing
<1> QED
  BY <1>2, <1>3 DEF Packed

LEMMA ChunksUnfold ==
  ASSUME NEW S, \A x \in S : SizeOf(x) \in Nat, NEW rrs \in Seq(S)
  PROVE  \E chunked :
           /\ chunked \in [0 .. Len(rrs) -> Packing(S)] /\ chunked[0] = Nothing
           /\ \A n \in 1 .. Len(rrs) : chunked[n] = Packed(chunked[n - 1], rrs[n])
           /\ Chunks(rrs) = Append(chunked[Len(rrs)].done, chunked[Len(rrs)].cur)
<1>a. PICK N : N = Len(rrs)
  OBVIOUS
<1>c. PICK P : P = Packing(S)
  OBVIOUS
<1>0. N \in Nat /\ \A n \in 1 .. N : rrs[n] \in S /\ SizeOf(rrs[n]) \in Nat
  BY <1>a
<1>b. PICK step : step = [n \in 1 .. N |-> [acc \in P |-> Packed(acc, rrs[n])]]
  OBVIOUS
<1>d. PICK base : base = Nothing
  OBVIOUS
<1>1. N \in Nat /\ base \in P /\ step \in [1 .. N -> [P -> P]]
  <2>1. Nothing \in P
    BY <1>c DEF Nothing, Packing
  <2>2. \A n \in 1 .. N : \A acc \in P : Packed(acc, rrs[n]) \in P
    BY <1>0, <1>c, PackedIsPacking
  <2> QED
    BY <1>0, <1>b, <1>d, <2>1, <2>2
<1>e. PICK f : /\ f \in [0 .. N -> P] /\ f[0] = base
               /\ \A n \in 1 .. N : f[n] = step[n][f[n - 1]]
  BY ONLY <1>1, FiniteRecursion
<1>2. /\ f \in [0 .. N -> P] /\ f[0] = Nothing
      /\ \A n \in 1 .. N : f[n] = step[n][f[n - 1]]
  BY <1>d, <1>e
<1>3. ASSUME NEW n \in 1 .. N PROVE f[n] = Packed(f[n - 1], rrs[n])
  <2>1. n - 1 \in 0 .. N
    BY <1>0
  <2>2. f[n - 1] \in P
    BY <1>2, <2>1
  <2> QED
    BY <1>2, <1>b, <2>2
<1> DEFINE Body(g, n) == IF n = 0 THEN Nothing ELSE Packed(g[n - 1], rrs[n])
<1>4. f = [n \in 0 .. N |-> Body(f, n)]
  <2>1. ASSUME NEW n \in 1 .. N PROVE f[n] = Body(f, n)
    <3>1. n # 0
      OBVIOUS
    <3> QED
      BY <1>3, <3>1
  <2>2. f[0] = Body(f, 0)
    BY <1>2
  <2>3. \A n \in 0 .. N : n = 0 \/ n \in 1 .. N
    BY <1>0
  <2> HIDE DEF Body
  <2> QED
    BY <1>2, <2>1, <2>2, <2>3
<1>5. PICK chunked : /\ chunked = CHOOSE g : g = [n \in 0 .. N |-> Body(g, n)]
                     /\ Chunks(rrs) = Append(chunked[N].done, chunked[N].cur)
  BY <1>a DEF Chunks, Packed
<1>6. chunked = [n \in 0 .. N |-> Body(chunked, n)]
  <2> HIDE DEF Body
  <2> QED
    BY <1>4, <1>5
<1>7. \A n \in 0 .. N : chunked[n] = f[n]
  <2>1. 0 \in 0 .. N /\ Body(chunked, 0) = Body(f, 0)
    BY <1>0
  <2>2. chunked[0] = f[0]
    <3> HIDE DEF Body
    <3> QED
      BY <1>4, <1>6, <2>1
  <2>3. ASSUME NEW n \in 1 .. N, chunked[n - 1] = f[n - 1] PROVE chunked[n] = f[n]
    <3>1. n \in 0 .. N /\ Body(chunked, n) = Body(f, n)
      BY <1>0, <2>3
    <3> HIDE DEF Body
    <3> QED
      BY <1>4, <1>6, <3>1
  <2>4. \A n \in 1 .. N : chunked[n - 1] = f[n - 1] => chunked[n] = f[n]
    BY <2>3
  <2>5. N \in Nat
    BY <1>0
  <2> QED
    BY ONLY <2>2, <2>4, <2>5, SameRecursion, SMTT(20)
<1>8. Chunks(rrs) = Append(f[N].done, f[N].cur)
  <2>1. Chunks(rrs) = Append(chunked[N].done, chunked[N].cur)
    BY <1>5
  <2>2. N \in 0 .. N
    BY <1>0
  <2>3. chunked[N] = f[N]
    BY ONLY <1>7, <2>2
  <2> QED
    BY ONLY <2>1, <2>3
<1> QED
  BY <1>2, <1>3, <1>8, <1>a, <1>c

(* The messages that are finished are consecutive slices of the records    *)
(* before `upto`; `cut` says where each begins and the last one ends.      *)
Cut(cut, rrs, messages, upto) ==
  /\ cut \in [1 .. Len(messages) + 1 -> Nat \ {0}]
  /\ cut[1] = 1 /\ cut[Len(messages) + 1] = upto
  /\ \A j, k \in 1 .. Len(messages) + 1 : j < k => cut[j] < cut[k]
  /\ \A k \in 1 .. Len(messages) :
       /\ messages[k] = SubSeq(rrs, cut[k], cut[k + 1] - 1)
       /\ Len(messages[k]) > 1 => SizeOfAll(messages[k]) <= MessageLimit

LEMMA CutGrows ==
  ASSUME NEW S, NEW rrs \in Seq(S), NEW messages \in Seq(Seq(S)), NEW cut,
         NEW a \in Nat \ {0}, NEW b \in Nat, Cut(cut, rrs, messages, a), a <= b,
         NEW m \in Seq(S), m = SubSeq(rrs, a, b),
         Len(m) > 1 => SizeOfAll(m) <= MessageLimit
  PROVE  \E longer : Cut(longer, rrs, Append(messages, m), b + 1)
<1>a. PICK d : d = Len(messages)
  OBVIOUS
<1>0. d \in Nat /\ cut \in [1 .. d + 1 -> Nat \ {0}] /\ cut[d + 1] = a /\ cut[1] = 1
      /\ \A j, k \in 1 .. d + 1 : j < k => cut[j] < cut[k]
  BY <1>a DEF Cut
<1>b. PICK more : more = Append(messages, m)
  OBVIOUS
<1>1. /\ Len(more) = d + 1 /\ more[d + 1] = m
      /\ \A k \in 1 .. d : more[k] = messages[k]
  BY <1>a, <1>b
<1>2. PICK longer : longer = [k \in 1 .. (d + 1) + 1 |-> IF k <= d + 1 THEN cut[k] ELSE b + 1]
  OBVIOUS
<1>3. /\ longer \in [1 .. (d + 1) + 1 -> Nat \ {0}]
      /\ \A k \in 1 .. d + 1 : longer[k] = cut[k]
      /\ longer[(d + 1) + 1] = b + 1
  <2>1. \A k \in 1 .. (d + 1) + 1 : (IF k <= d + 1 THEN cut[k] ELSE b + 1) \in Nat \ {0}
    BY <1>0
  <2> QED
    BY <1>0, <1>2, <2>1
<1>4. longer[1] = 1
  BY <1>0, <1>3
<1>5. ASSUME NEW j \in 1 .. (d + 1) + 1, NEW k \in 1 .. (d + 1) + 1, j < k
      PROVE  longer[j] < longer[k]
  <2>1. j \in 1 .. d + 1 /\ longer[j] = cut[j] /\ cut[j] \in Nat
    BY <1>0, <1>3, <1>5
  <2>2. CASE k \in 1 .. d + 1
    BY <1>0, <1>3, <1>5, <2>1, <2>2
  <2>3. CASE k = (d + 1) + 1
    <3>1. cut[j] <= a
      <4>1. j = d + 1 \/ j < d + 1
        BY <1>0, <2>1
      <4>2. d + 1 \in 1 .. d + 1
        BY <1>0
      <4> QED
        BY <1>0, <2>1, <4>1, <4>2
    <3> QED
      BY <1>3, <2>1, <2>3, <3>1
  <2> QED
    BY <1>0, <2>2, <2>3
<1>6. ASSUME NEW k \in 1 .. d + 1
      PROVE  /\ more[k] = SubSeq(rrs, longer[k], longer[k + 1] - 1)
             /\ Len(more[k]) > 1 => SizeOfAll(more[k]) <= MessageLimit
  <2>1. CASE k \in 1 .. d
    <3>1. k \in 1 .. d + 1 /\ k + 1 \in 1 .. d + 1
      BY <1>0, <2>1
    <3>2. longer[k] = cut[k] /\ longer[k + 1] = cut[k + 1] /\ more[k] = messages[k]
      BY <1>1, <1>3, <2>1, <3>1
    <3> QED
      BY <1>a, <2>1, <3>2 DEF Cut
  <2>2. CASE k = d + 1
    <3>1. longer[k] = a /\ longer[k + 1] = b + 1 /\ (b + 1) - 1 = b /\ more[k] = m
      BY <1>0, <1>1, <1>3, <2>2
    <3> QED
      BY <3>1
  <2> QED
    BY <1>0, <2>1, <2>2
<1>7. Cut(longer, rrs, more, b + 1)
  BY <1>1, <1>3, <1>4, <1>5, <1>6 DEF Cut
<1> QED
  BY <1>b, <1>7

(* Slices of a sequence.                                                   *)
LEMMA SliceElements ==
  ASSUME NEW S, NEW s \in Seq(S), NEW a \in Nat \ {0}, NEW b \in Nat, b <= Len(s), a <= b + 1
  PROVE  /\ SubSeq(s, a, b) \in Seq(S) /\ Len(SubSeq(s, a, b)) = b - a + 1
         /\ \A i \in 1 .. b - a + 1 : SubSeq(s, a, b)[i] = s[a + i - 1]
<1>1. SubSeq(s, a, b) \in Seq(S) /\ Len(SubSeq(s, a, b)) = b - a + 1
  OBVIOUS
<1>2. ASSUME NEW i \in 1 .. b - a + 1 PROVE SubSeq(s, a, b)[i] = s[a + i - 1]
  <2>1. i \in Nat /\ 1 <= i /\ i <= b - a + 1
    OBVIOUS
  <2> QED
    BY <1>1, <2>1
<1> QED
  BY <1>1, <1>2

LEMMA OneElement ==
  ASSUME NEW S, NEW t \in Seq(S), Len(t) = 1
  PROVE  t = <<t[1]>>
OBVIOUS

(* While records are packed: the message at hand holds the records since   *)
(* the last one that is finished.                                          *)
Pack(rrs, acc, m) ==
  \E a \in Nat \ {0} : \E cut :
    /\ Cut(cut, rrs, acc.done, a) /\ acc.cur = SubSeq(rrs, a, m)
    /\ a <= m + 1 /\ (m > 0 => a <= m)
    /\ acc.size = SizeOfAll(acc.cur) /\ (Len(acc.cur) > 1 => acc.size <= MessageLimit)

LEMMA PackStarts == ASSUME NEW rrs PROVE Pack(rrs, Nothing, 0)
<1>1. PICK cut : cut = [k \in {1} |-> 1]
  OBVIOUS
<1>2. SizeOfAll(<<>>) = 0
  <2>1. \A x \in {} : SizeOf(x) \in Nat
    OBVIOUS
  <2>2. <<>> \in Seq({})
    OBVIOUS
  <2> QED
    BY ONLY <2>1, <2>2, Sizes
<1>3. /\ Nothing.done = <<>> /\ Nothing.cur = <<>> /\ Nothing.size = 0 /\ Len(<<>>) = 0
      /\ SubSeq(rrs, 1, 0) = <<>>
  BY DEF Nothing
<1>4. Cut(cut, rrs, <<>>, 1)
  <2>1. 1 .. 0 + 1 = {1} /\ 1 .. 0 = {}
    OBVIOUS
  <2> QED
    BY <1>1, <1>3, <2>1 DEF Cut
<1> QED
  BY <1>2, <1>3, <1>4 DEF Pack

LEMMA PackContinues ==
  ASSUME NEW S, \A x \in S : SizeOf(x) \in Nat, NEW rrs \in Seq(S),
         NEW m \in Nat, m + 1 <= Len(rrs), NEW acc \in Packing(S), Pack(rrs, acc, m)
  PROVE  Pack(rrs, Packed(acc, rrs[m + 1]), m + 1)
<1>1. PICK a, cut :
        /\ a \in Nat \ {0} /\ Cut(cut, rrs, acc.done, a) /\ acc.cur = SubSeq(rrs, a, m)
        /\ a <= m + 1 /\ (m > 0 => a <= m)
        /\ acc.size = SizeOfAll(acc.cur) /\ (Len(acc.cur) > 1 => acc.size <= MessageLimit)
  BY DEF Pack
<1>a. PICK r : r = rrs[m + 1]
  OBVIOUS
<1>2. r \in S /\ SizeOf(r) \in Nat
  BY <1>a
<1>3. acc.done \in Seq(Seq(S)) /\ acc.cur \in Seq(S) /\ acc.size \in Nat
  BY DEF Packing
<1>4. CASE Overfull(acc, r)
  <2>1. m > 0 /\ a <= m
    <3>1. acc.cur # <<>>
      BY <1>4 DEF Overfull
    <3> QED
      BY <1>1, <3>1
  <2>2. PICK longer : Cut(longer, rrs, Append(acc.done, acc.cur), m + 1)
    <3>1. Len(acc.cur) > 1 => SizeOfAll(acc.cur) <= MessageLimit
      BY <1>1
    <3>2. PICK cur, done : cur = acc.cur /\ done = acc.done
      OBVIOUS
    <3>3. /\ cur \in Seq(S) /\ done \in Seq(Seq(S)) /\ cur = SubSeq(rrs, a, m) /\ a <= m
          /\ Cut(cut, rrs, done, a) /\ (Len(cur) > 1 => SizeOfAll(cur) <= MessageLimit)
      BY <1>1, <1>3, <2>1, <3>1, <3>2
    <3>4. a \in Nat \ {0} /\ m \in Nat /\ rrs \in Seq(S)
      BY <1>1
    <3>5. \E longer : Cut(longer, rrs, Append(done, cur), m + 1)
      BY ONLY <3>3, <3>4, CutGrows
    <3> QED
      BY <3>2, <3>5
  <2>3. PICK new : new = Packed(acc, r)
    OBVIOUS
  <2>4. /\ new.done = Append(acc.done, acc.cur) /\ new.cur = <<r>>
        /\ new.size = SizeOf(r)
    BY <1>2, <1>4, <2>3 DEF Packed, Filled, Nothing
  <2>5. SubSeq(rrs, m + 1, m + 1) = <<r>>
    <3>1. PICK t : t = SubSeq(rrs, m + 1, m + 1)
      OBVIOUS
    <3>2. t \in Seq(S) /\ Len(t) = 1
      BY <3>1
    <3>3. t[1] = rrs[m + 1]
      <4>1. m + 1 \in Nat \ {0} /\ 1 \in 1 .. (m + 1) - (m + 1) + 1 /\ (m + 1) + 1 - 1 = m + 1
        OBVIOUS
      <4>2. SubSeq(rrs, m + 1, m + 1)[1] = rrs[(m + 1) + 1 - 1]
        BY <4>1, SliceElements
      <4> QED
        BY <3>1, <4>1, <4>2
    <3> QED
      BY <1>a, <3>1, <3>2, <3>3, OneElement
  <2>6. SizeOfAll(<<r>>) = SizeOf(r)
    <3>1. <<>> \in Seq(S) /\ Append(<<>>, r) = <<r>>
      OBVIOUS
    <3>2. SizeOfAll(<<>>) = 0 /\ SizeOfAll(Append(<<>>, r)) = SizeOfAll(<<>>) + SizeOf(r)
      BY <1>2, <3>1, Sizes
    <3> QED
      BY <1>2, <3>1, <3>2
  <2>7. m + 1 \in Nat \ {0} /\ m + 1 <= (m + 1) + 1 /\ m + 1 <= m + 1 /\ ~(Len(<<r>>) > 1)
    OBVIOUS
  <2>8. Pack(rrs, new, m + 1)
    BY <2>2, <2>4, <2>5, <2>6, <2>7 DEF Pack
  <2> QED
    BY <1>a, <2>3, <2>8
<1>5. CASE ~Overfull(acc, r)
  <2>1. PICK new : new = Packed(acc, r)
    OBVIOUS
  <2>2. /\ new.done = acc.done /\ new.cur = Append(acc.cur, r)
        /\ new.size = acc.size + SizeOf(r)
    BY <1>3, <1>5, <2>1 DEF Packed, Filled, Packing
  <2>3. SubSeq(rrs, a, m + 1) = Append(acc.cur, r)
    <3>1. a \in Nat \ {0} /\ a <= m + 1 /\ m + 1 <= Len(rrs) /\ acc.cur = SubSeq(rrs, a, m)
      BY <1>1
    <3> QED
      BY <1>a, <1>2, <3>1
  <2>4. SizeOfAll(Append(acc.cur, r)) = acc.size + SizeOf(r)
    BY <1>1, <1>2, <1>3, Sizes
  <2>5. Len(Append(acc.cur, r)) > 1 => acc.size + SizeOf(r) <= MessageLimit
    <3>1. Len(Append(acc.cur, r)) > 1 => acc.cur # <<>>
      BY <1>2, <1>3
    <3>2. acc.cur # <<>> => ~(acc.size + SizeOf(r) > MessageLimit)
      BY <1>5 DEF Overfull
    <3> QED
      BY <1>2, <1>3, <3>1, <3>2, DnsAssumption
  <2>6. a <= (m + 1) + 1 /\ a <= m + 1
    BY <1>1
  <2>7. Pack(rrs, new, m + 1)
    BY <1>1, <2>2, <2>3, <2>4, <2>5, <2>6 DEF Pack
  <2> QED
    BY <1>a, <2>1, <2>7
<1> QED
  BY <1>4, <1>5

LEMMA ChunksCut ==
  ASSUME NEW S, \A x \in S : SizeOf(x) \in Nat, NEW rrs \in Seq(S), rrs # <<>>
  PROVE  /\ Chunks(rrs) \in Seq(Seq(S))
         /\ \E cut : Cut(cut, rrs, Chunks(rrs), Len(rrs) + 1)
<1>1. PICK chunked :
        /\ chunked \in [0 .. Len(rrs) -> Packing(S)] /\ chunked[0] = Nothing
        /\ \A n \in 1 .. Len(rrs) : chunked[n] = Packed(chunked[n - 1], rrs[n])
        /\ Chunks(rrs) = Append(chunked[Len(rrs)].done, chunked[Len(rrs)].cur)
  BY ChunksUnfold
<1>a. PICK N : N = Len(rrs)
  OBVIOUS
<1>0. N \in Nat /\ N > 0
  BY <1>a
<1> DEFINE packed == {m \in Nat : m <= N => Pack(rrs, chunked[m], m)}
<1>2. 0 \in packed
  BY <1>1, PackStarts
<1>3. ASSUME NEW m \in packed PROVE m + 1 \in packed
  <2> SUFFICES ASSUME m + 1 <= N PROVE Pack(rrs, chunked[m + 1], m + 1)
    OBVIOUS
  <2>1. m \in Nat /\ m + 1 \in 1 .. Len(rrs) /\ (m + 1) - 1 = m /\ m \in 0 .. Len(rrs)
        /\ m + 1 <= Len(rrs)
    BY <1>0, <1>a
  <2>2. Pack(rrs, chunked[m], m)
    BY <1>0
  <2>3. PICK acc : acc = chunked[m]
    OBVIOUS
  <2>4. acc \in Packing(S) /\ chunked[m + 1] = Packed(acc, rrs[m + 1])
    BY <1>1, <2>1, <2>3
  <2>5. Pack(rrs, Packed(acc, rrs[m + 1]), m + 1)
    <3> HIDE DEF packed
    <3> QED
      BY <2>1, <2>2, <2>3, <2>4, PackContinues
  <2> QED
    BY <2>4, <2>5
<1>4. Pack(rrs, chunked[N], N)
  <2>1. packed \in SUBSET Nat
    OBVIOUS
  <2>2. packed = Nat
    <3> HIDE DEF packed
    <3> QED
      BY <1>2, <1>3, <2>1, EveryNumber
  <2> QED
    BY <1>0, <2>2
<1>5. PICK done, cur : done = chunked[N].done /\ cur = chunked[N].cur
  OBVIOUS
<1>6. done \in Seq(Seq(S)) /\ cur \in Seq(S) /\ Chunks(rrs) = Append(done, cur)
  <2>1. chunked[N] \in Packing(S)
    BY <1>0, <1>1, <1>a
  <2> QED
    BY <1>1, <1>5, <1>a, <2>1 DEF Packing
<1>7. PICK a, cut :
        /\ a \in Nat \ {0} /\ Cut(cut, rrs, done, a) /\ cur = SubSeq(rrs, a, N) /\ a <= N
        /\ Len(cur) > 1 => SizeOfAll(cur) <= MessageLimit
  BY <1>0, <1>4, <1>5 DEF Pack
<1>8. \E longer : Cut(longer, rrs, Append(done, cur), N + 1)
  <2>1. N \in Nat /\ rrs \in Seq(S)
    BY <1>0
  <2> QED
    BY ONLY <1>6, <1>7, <2>1, CutGrows
<1>9. Append(done, cur) \in Seq(Seq(S))
  BY <1>6
<1> QED
  BY <1>6, <1>8, <1>9, <1>a

(* The places of the messages, one after another, are those of the records.*)
MessagePlaces(sent) == UNION {{k} \X DOMAIN sent[k] : k \in DOMAIN sent}
PlacedBefore(p, q) == p[1] < q[1] \/ (p[1] = q[1] /\ p[2] < q[2])

LEMMA PlacesAreNumbers ==
  ASSUME NEW S, NEW rrs \in Seq(S), NEW sent \in Seq(Seq(S)), NEW cut,
         Cut(cut, rrs, sent, Len(rrs) + 1)
  PROVE  \E at : /\ at \in [MessagePlaces(sent) -> 1 .. Len(rrs)]
                 /\ \A p \in MessagePlaces(sent) : sent[p[1]][p[2]] = rrs[at[p]]
                 /\ \A p, q \in MessagePlaces(sent) : PlacedBefore(p, q) <=> at[p] < at[q]
                 /\ \A x \in 1 .. Len(rrs) : \E p \in MessagePlaces(sent) : at[p] = x
                 /\ \A k \in DOMAIN sent : sent[k] # <<>>
<1>a. PICK d, N : d = Len(sent) /\ N = Len(rrs)
  OBVIOUS
<1>0. /\ d \in Nat /\ N \in Nat /\ DOMAIN sent = 1 .. d
      /\ cut \in [1 .. d + 1 -> Nat \ {0}] /\ cut[1] = 1 /\ cut[d + 1] = N + 1
      /\ \A j, k \in 1 .. d + 1 : j < k => cut[j] < cut[k]
  BY <1>a DEF Cut
<1>1. ASSUME NEW k \in 1 .. d
      PROVE  /\ cut[k] \in Nat \ {0} /\ cut[k + 1] \in Nat /\ cut[k] < cut[k + 1]
             /\ cut[k + 1] <= N + 1
             /\ DOMAIN sent[k] = 1 .. cut[k + 1] - cut[k]
             /\ \A i \in DOMAIN sent[k] : sent[k][i] = rrs[cut[k] + i - 1]
             /\ sent[k] # <<>>
  <2>1. k \in 1 .. d + 1 /\ k + 1 \in 1 .. d + 1 /\ k < k + 1
    BY <1>0
  <2>2. cut[k] \in Nat \ {0} /\ cut[k + 1] \in Nat \ {0} /\ cut[k] < cut[k + 1]
    BY <1>0, <2>1
  <2>3. cut[k + 1] <= N + 1
    <3>1. k + 1 = d + 1 \/ k + 1 < d + 1
      BY <1>0
    <3>2. d + 1 \in 1 .. d + 1
      BY <1>0
    <3> QED
      BY <1>0, <2>1, <2>2, <3>1, <3>2
  <2>4. sent[k] = SubSeq(rrs, cut[k], cut[k + 1] - 1)
    BY <1>a DEF Cut
  <2>5. PICK a, b : a = cut[k] /\ b = cut[k + 1] - 1
    OBVIOUS
  <2>6. /\ a \in Nat \ {0} /\ b \in Nat /\ b <= Len(rrs) /\ a <= b + 1 /\ a <= b
        /\ b - a + 1 = cut[k + 1] - cut[k]
    <3>1. PICK c : c = cut[k + 1]
      OBVIOUS
    <3>2. /\ a \in Nat \ {0} /\ c \in Nat /\ a < c /\ c <= N + 1 /\ b = c - 1
          /\ N \in Nat /\ N = Len(rrs)
      BY <1>0, <1>a, <2>2, <2>3, <2>5, <3>1
    <3>3. b \in Nat /\ b <= N /\ a <= b + 1 /\ a <= b /\ b - a + 1 = c - a
      BY ONLY <3>2
    <3> QED
      BY <2>5, <3>1, <3>2, <3>3
  <2>7. PICK m : m = SubSeq(rrs, a, b)
    OBVIOUS
  <2>8. m \in Seq(S) /\ Len(m) = b - a + 1 /\ \A i \in 1 .. b - a + 1 : m[i] = rrs[a + i - 1]
    <3>1. rrs \in Seq(S)
      OBVIOUS
    <3> QED
      BY ONLY <2>6, <2>7, <3>1, SliceElements
  <2>9. DOMAIN m = 1 .. b - a + 1 /\ m # <<>>
    BY <2>6, <2>8
  <2> QED
    BY <2>2, <2>3, <2>4, <2>5, <2>6, <2>7, <2>8, <2>9
<1>2. ASSUME NEW p \in MessagePlaces(sent)
      PROVE  /\ p[1] \in 1 .. d /\ p[2] \in DOMAIN sent[p[1]]
             /\ p[2] \in Nat /\ p[2] >= 1 /\ p[2] <= cut[p[1] + 1] - cut[p[1]]
  <2>1. PICK k \in 1 .. d : p \in {k} \X DOMAIN sent[k]
    BY <1>0 DEF MessagePlaces
  <2>2. p[1] = k /\ p[2] \in DOMAIN sent[k]
    BY <2>1
  <2>3. PICK i : i = p[2]
    OBVIOUS
  <2>4. cut[k] \in Nat /\ cut[k + 1] \in Nat /\ i \in 1 .. cut[k + 1] - cut[k]
    BY <1>1, <2>2, <2>3
  <2>5. i \in Nat /\ i >= 1 /\ i <= cut[k + 1] - cut[k]
    BY <2>4
  <2> QED
    BY <2>2, <2>3, <2>5
<1>3. PICK at : at = [p \in MessagePlaces(sent) |-> cut[p[1]] + p[2] - 1]
  OBVIOUS
<1>4. ASSUME NEW p \in MessagePlaces(sent)
      PROVE  /\ at[p] = cut[p[1]] + p[2] - 1 /\ at[p] \in 1 .. N
             /\ cut[p[1]] <= at[p] /\ at[p] < cut[p[1] + 1]
             /\ sent[p[1]][p[2]] = rrs[at[p]]
  <2>1. at[p] = cut[p[1]] + p[2] - 1
    BY <1>3
  <2>2. PICK k, i : k = p[1] /\ i = p[2]
    OBVIOUS
  <2>3. /\ k \in 1 .. d /\ i \in DOMAIN sent[k] /\ i \in Nat /\ i >= 1
        /\ i <= cut[k + 1] - cut[k]
    BY <1>2, <2>2
  <2>4. /\ cut[k] \in Nat \ {0} /\ cut[k + 1] \in Nat /\ cut[k] < cut[k + 1]
        /\ cut[k + 1] <= N + 1 /\ sent[k][i] = rrs[cut[k] + i - 1]
    BY <1>1, <2>3
  <2>5. at[p] = cut[k] + i - 1
    BY <2>1, <2>2
  <2>6. at[p] \in 1 .. N /\ cut[k] <= at[p] /\ at[p] < cut[k + 1]
    <3>1. PICK a, b, x : a = cut[k] /\ b = cut[k + 1] /\ x = at[p]
      OBVIOUS
    <3>2. /\ a \in Nat \ {0} /\ b \in Nat /\ b <= N + 1 /\ x = a + i - 1
          /\ i \in Nat /\ i >= 1 /\ i <= b - a /\ N \in Nat
      BY <1>0, <2>3, <2>4, <2>5, <3>1
    <3>3. x \in 1 .. N /\ a <= x /\ x < b
      BY ONLY <3>2
    <3> QED
      BY <3>1, <3>3
  <2> QED
    BY <2>1, <2>2, <2>4, <2>5, <2>6
<1>5. at \in [MessagePlaces(sent) -> 1 .. N]
  BY <1>3, <1>4
<1>6. ASSUME NEW p \in MessagePlaces(sent), NEW q \in MessagePlaces(sent), PlacedBefore(p, q)
      PROVE  at[p] < at[q]
  <2>0. PICK j, i, k, l : j = p[1] /\ i = p[2] /\ k = q[1] /\ l = q[2]
    OBVIOUS
  <2>1. j \in 1 .. d /\ k \in 1 .. d /\ i \in Nat /\ l \in Nat
    BY <1>2, <2>0
  <2>2. /\ at[p] = cut[j] + i - 1 /\ at[p] \in Nat /\ at[p] < cut[j + 1]
        /\ at[q] = cut[k] + l - 1 /\ at[q] \in Nat /\ cut[k] <= at[q]
        /\ cut[j] \in Nat /\ cut[k] \in Nat /\ cut[j + 1] \in Nat
    <3>1. /\ at[p] = cut[j] + i - 1 /\ at[p] \in 1 .. N /\ at[p] < cut[j + 1]
          /\ at[q] = cut[k] + l - 1 /\ at[q] \in 1 .. N /\ cut[k] <= at[q]
      BY <1>4, <2>0
    <3>2. cut[j] \in Nat /\ cut[k] \in Nat /\ cut[j + 1] \in Nat
      BY <1>1, <2>1
    <3>3. \A x \in 1 .. N : x \in Nat
      BY <1>0
    <3> QED
      BY <3>1, <3>2, <3>3
  <2>3. CASE j < k
    <3>1. j + 1 \in 1 .. d + 1 /\ k \in 1 .. d + 1 /\ (j + 1 = k \/ j + 1 < k)
      BY <1>0, <2>1, <2>3
    <3>2. cut[j + 1] <= cut[k]
      BY <1>0, <2>2, <3>1
    <3> QED
      BY <2>2, <3>2
  <2>4. CASE j = k /\ i < l
    BY <2>1, <2>2, <2>4
  <2> QED
    BY <1>6, <2>0, <2>3, <2>4 DEF PlacedBefore
<1>7. ASSUME NEW p \in MessagePlaces(sent), NEW q \in MessagePlaces(sent), at[p] < at[q]
      PROVE  PlacedBefore(p, q)
  <2>0. PICK j, i, k, l : j = p[1] /\ i = p[2] /\ k = q[1] /\ l = q[2]
    OBVIOUS
  <2>1. j \in 1 .. d /\ k \in 1 .. d /\ i \in Nat /\ l \in Nat
    BY <1>2, <2>0
  <2>2. at[p] = cut[j] + i - 1 /\ at[q] = cut[k] + l - 1 /\ at[p] \in Nat /\ at[q] \in Nat
    BY <1>4, <2>0
  <2>3. ~(j = k /\ i = l)
    BY <1>7, <2>2
  <2>4. ~PlacedBefore(q, p)
    BY <1>6, <1>7, <2>2
  <2>5. ~(k < j) /\ ~(k = j /\ l < i)
    BY <2>0, <2>4 DEF PlacedBefore
  <2>6. j \in Nat /\ k \in Nat
    BY <1>0, <2>1
  <2>7. j < k \/ (j = k /\ i < l)
    BY ONLY <2>1, <2>3, <2>5, <2>6
  <2> QED
    BY <2>0, <2>7 DEF PlacedBefore
<1>8. ASSUME NEW x \in 1 .. N PROVE \E p \in MessagePlaces(sent) : at[p] = x
  <2> DEFINE begun == {k \in Nat : k \in 1 .. d + 1 /\ cut[k] <= x}
  <2>1. 1 \in begun /\ begun \in SUBSET Nat /\ \A k \in begun : k <= d + 1
    BY <1>0
  <2>2. PICK k \in begun : \A j \in begun : j <= k
    <3>1. d + 1 \in Nat
      BY <1>0
    <3> HIDE DEF begun
    <3> QED
      BY <2>1, <3>1, GreatestExists
  <2>3. k # d + 1
    <3>1. cut[k] <= x /\ x <= N
      BY <1>0, <2>2
    <3>2. ~(N + 1 <= x)
      BY <1>0
    <3> QED
      BY <1>0, <3>1, <3>2
  <2>4. k \in 1 .. d /\ k + 1 \in 1 .. d + 1
    BY <1>0, <2>3
  <2>5. cut[k] <= x /\ x < cut[k + 1]
    <3>1. ~(k + 1 <= k) /\ k + 1 \in Nat
      BY <2>4
    <3>2. k + 1 \notin begun
      BY <2>2, <3>1
    <3>3. cut[k + 1] \in Nat
      BY <1>1, <2>4
    <3> QED
      BY <1>0, <2>4, <3>2, <3>3
  <2>6. PICK i : i = x - cut[k] + 1
    OBVIOUS
  <2>b. PICK a, b : a = cut[k] /\ b = cut[k + 1]
    OBVIOUS
  <2>7. i \in 1 .. b - a /\ a + i - 1 = x
    <3>1. a \in Nat /\ b \in Nat
      BY <1>1, <2>4, <2>b
    <3>2. x \in Nat /\ a <= x /\ x < b /\ i = x - a + 1
      BY <1>0, <2>5, <2>6, <2>b
    <3> QED
      BY ONLY <3>1, <3>2
  <2>8. PICK p : p = <<k, i>>
    OBVIOUS
  <2>9. p \in MessagePlaces(sent) /\ p[1] = k /\ p[2] = i
    <3>1. k \in DOMAIN sent
      BY <1>0, <2>4
    <3>2. i \in DOMAIN sent[k]
      BY <1>1, <2>4, <2>7, <2>b
    <3>3. p \in {k} \X DOMAIN sent[k]
      BY <2>8, <3>2
    <3> QED
      BY <2>8, <3>1, <3>3 DEF MessagePlaces
  <2> QED
    BY <1>4, <2>7, <2>9, <2>b
<1> QED
  BY <1>0, <1>1, <1>4, <1>5, <1>6, <1>7, <1>8, <1>a

(* A transfer that goes out, as a property of its messages.                *)
WholeTransfer(sent) ==
  LET places == MessagePlaces(sent)
      Rr(p) == sent[p[1]][p[2]]
  IN  /\ \A p \in places : Rr(p) = Soa <=>
           (\A q \in places : ~PlacedBefore(q, p)) \/ (\A q \in places : ~PlacedBefore(p, q))
      /\ {Rr(p) : p \in places} = {Soa} \cup {i \in DOMAIN dnsZone : Leaving(i)}
                                      \cup (IF HasApexNs THEN {} ELSE {MadeUpNs})
      /\ \A p, q \in places : PlacedBefore(p, q) /\ Rr(p) > 0 /\ Rr(q) > 0 => Rr(p) < Rr(q)
      /\ \A k \in DOMAIN sent :
           sent[k] # <<>> /\ (Len(sent[k]) > 1 => SizeOfAll(sent[k]) <= MessageLimit)

Bracketed == <<Soa>> \o Transferred \o <<Soa>>

LEMMA Joined ==
  ASSUME NEW S, NEW s \in Seq(S), NEW t \in Seq(S)
  PROVE  /\ s \o t \in Seq(S) /\ Len(s \o t) = Len(s) + Len(t)
         /\ \A x \in 1 .. Len(s) : (s \o t)[x] = s[x]
         /\ \A x \in 1 .. Len(t) : (s \o t)[Len(s) + x] = t[x]
<1>1. s \o t \in Seq(S) /\ Len(s \o t) = Len(s) + Len(t)
  OBVIOUS
<1>2. ASSUME NEW x \in 1 .. Len(s) PROVE (s \o t)[x] = s[x]
  OBVIOUS
<1>3. ASSUME NEW x \in 1 .. Len(t) PROVE (s \o t)[Len(s) + x] = t[x]
  OBVIOUS
<1> QED
  BY <1>1, <1>2, <1>3

LEMMA BracketedFacts ==
  ASSUME dnsZone \in Seq(Record), NEW t, t = Transferred, NEW rrs, rrs = Bracketed,
         NEW S, S = {Soa, MadeUpNs} \cup DOMAIN dnsZone
  PROVE  /\ t \in Seq(S) /\ rrs \in Seq(S) /\ Len(rrs) = Len(t) + 2
         /\ rrs[1] = Soa /\ rrs[Len(rrs)] = Soa
         /\ \A x \in 1 .. Len(t) : rrs[x + 1] = t[x]
<1>1. t \in Seq(S)
  <2>1. t \in Seq({MadeUpNs} \cup DOMAIN dnsZone)
    BY TransferredFacts
  <2>2. {MadeUpNs} \cup DOMAIN dnsZone \subseteq S
    OBVIOUS
  <2> QED
    BY ONLY <2>1, <2>2
<1>2. PICK one : one = <<Soa>>
  OBVIOUS
<1>3. one \in Seq(S) /\ Len(one) = 1 /\ one[1] = Soa
  BY <1>2
<1>4. PICK u : u = one \o t
  OBVIOUS
<1>5. u \in Seq(S) /\ Len(u) = Len(t) + 1 /\ u[1] = Soa /\ \A x \in 1 .. Len(t) : u[x + 1] = t[x]
  <2>0. one \in Seq(S) /\ t \in Seq(S)
    BY <1>1, <1>3
  <2>a. /\ u \in Seq(S) /\ Len(u) = Len(one) + Len(t)
        /\ \A x \in 1 .. Len(one) : u[x] = one[x]
        /\ \A x \in 1 .. Len(t) : u[Len(one) + x] = t[x]
    <3>1. /\ one \o t \in Seq(S) /\ Len(one \o t) = Len(one) + Len(t)
          /\ \A x \in 1 .. Len(one) : (one \o t)[x] = one[x]
          /\ \A x \in 1 .. Len(t) : (one \o t)[Len(one) + x] = t[x]
      BY ONLY <2>0, Joined
    <3> QED
      BY ONLY <1>4, <3>1
  <2>1. u \in Seq(S) /\ Len(u) = Len(one) + Len(t)
    BY <2>a
  <2>2. \A x \in 1 .. Len(one) : u[x] = one[x]
    BY <2>a
  <2>3. \A x \in 1 .. Len(t) : u[Len(one) + x] = t[x]
    BY <2>a
  <2>4. ASSUME NEW x \in 1 .. Len(t) PROVE u[x + 1] = t[x]
    <3>1. Len(one) + x = x + 1
      BY <1>3
    <3> QED
      BY <2>3, <3>1
  <2>5. Len(t) \in Nat
    BY <1>1
  <2>6. Len(u) = Len(t) + 1 /\ u[1] = Soa
    BY <1>3, <2>1, <2>2, <2>5
  <2> QED
    BY <2>1, <2>4, <2>6
<1>6. rrs = u \o one
  BY <1>2, <1>4 DEF Bracketed
<1>7. /\ rrs \in Seq(S) /\ Len(rrs) = Len(u) + Len(one)
      /\ \A x \in 1 .. Len(u) : rrs[x] = u[x]
      /\ \A x \in 1 .. Len(one) : rrs[Len(u) + x] = one[x]
  <2>1. u \in Seq(S) /\ one \in Seq(S)
    BY <1>3, <1>5
  <2>2. /\ u \o one \in Seq(S) /\ Len(u \o one) = Len(u) + Len(one)
        /\ \A x \in 1 .. Len(u) : (u \o one)[x] = u[x]
        /\ \A x \in 1 .. Len(one) : (u \o one)[Len(u) + x] = one[x]
    BY ONLY <2>1, Joined
  <2> QED
    BY ONLY <1>6, <2>2
<1>8. \A x \in 1 .. Len(u) : rrs[x] = u[x]
  BY <1>7
<1>9. rrs[Len(u) + 1] = one[1]
  BY <1>3, <1>7
<1>10. ASSUME NEW x \in 1 .. Len(t) PROVE rrs[x + 1] = t[x]
  <2>1. x + 1 \in 1 .. Len(u)
    BY <1>1, <1>5
  <2> QED
    BY <1>5, <1>8, <2>1
<1>11. rrs[1] = Soa /\ Len(rrs) = Len(t) + 2 /\ rrs[Len(rrs)] = Soa
  <2>1. Len(t) \in Nat /\ Len(rrs) = Len(u) + 1 /\ 1 \in 1 .. Len(u)
    BY <1>1, <1>3, <1>5, <1>7
  <2> QED
    BY <1>3, <1>5, <1>8, <1>9, <2>1
<1> QED
  BY <1>1, <1>7, <1>10, <1>11

LEMMA SizesAreNumbers ==
  ASSUME dnsZone \in Seq(Record), NEW x \in {Soa, MadeUpNs} \cup DOMAIN dnsZone
  PROVE  SizeOf(x) \in Nat
<1>1. CASE x \in DOMAIN dnsZone
  <2>1. dnsZone[x] \in Record
    BY <1>1
  <2> QED
    BY <2>1 DEF SizeOf, Record
<1>2. CASE x \in {Soa, MadeUpNs}
  BY <1>2 DEF SizeOf, Soa, MadeUpNs
<1> QED
  BY <1>1, <1>2

LEMMA TransferIsWhole ==
  ASSUME dnsZone \in Seq(Record), NEW sent, sent = Chunks(Bracketed)
  PROVE  /\ WholeTransfer(sent)
         /\ \A k \in DOMAIN sent : SizeOfAll(sent[k]) > WireLimit =>
              \E i \in DOMAIN dnsZone : dnsZone[i].size > WireLimit
<1>1. PICK S, t, rrs : /\ S = {Soa, MadeUpNs} \cup DOMAIN dnsZone
                       /\ t = Transferred /\ rrs = Bracketed
  OBVIOUS
<1>2. /\ t \in Seq(S) /\ rrs \in Seq(S) /\ Len(rrs) = Len(t) + 2
      /\ rrs[1] = Soa /\ rrs[Len(rrs)] = Soa
      /\ \A x \in 1 .. Len(t) : rrs[x + 1] = t[x]
  BY <1>1, BracketedFacts
<1>3. \A x \in S : SizeOf(x) \in Nat
  BY <1>1, SizesAreNumbers
<1>a. rrs # <<>>
  BY <1>2
<1>4. PICK cut : sent \in Seq(Seq(S)) /\ Cut(cut, rrs, sent, Len(rrs) + 1)
  BY <1>1, <1>2, <1>3, <1>a, ChunksCut
<1>5. PICK at : /\ at \in [MessagePlaces(sent) -> 1 .. Len(rrs)]
                /\ \A p \in MessagePlaces(sent) : sent[p[1]][p[2]] = rrs[at[p]]
                /\ \A p, q \in MessagePlaces(sent) : PlacedBefore(p, q) <=> at[p] < at[q]
                /\ \A x \in 1 .. Len(rrs) : \E p \in MessagePlaces(sent) : at[p] = x
                /\ \A k \in DOMAIN sent : sent[k] # <<>>
  <2>1. rrs \in Seq(S)
    BY <1>2
  <2> QED
    BY ONLY <1>4, <2>1, PlacesAreNumbers, SMTT(20)
<1>b. PICK N, n : N = Len(rrs) /\ n = Len(t)
  OBVIOUS
<1>c. N \in Nat /\ n \in Nat /\ N = n + 2 /\ DOMAIN t = 1 .. n
  BY <1>2, <1>b
<1>d. PICK apex : apex = IF HasApexNs THEN {} ELSE {MadeUpNs}
  OBVIOUS
<1>6. /\ {t[j] : j \in DOMAIN t} = {i \in DOMAIN dnsZone : Leaving(i)} \cup apex
      /\ \A i, j \in DOMAIN t : i < j /\ t[i] > 0 /\ t[j] > 0 => t[i] < t[j]
      /\ \A j \in DOMAIN t : t[j] \in {MadeUpNs} \cup DOMAIN dnsZone
  BY <1>1, <1>d, TransferredFacts
<1>7. \A x \in 1 .. N : x = 1 \/ x = N \/ (x - 1 \in 1 .. n /\ rrs[x] = t[x - 1])
  <2>1. ASSUME NEW x \in 1 .. N, x # 1, x # N PROVE x - 1 \in 1 .. n /\ rrs[x] = t[x - 1]
    <3>1. x - 1 \in 1 .. n /\ (x - 1) + 1 = x
      BY <1>c, <2>1
    <3> QED
      BY <1>2, <1>b, <3>1
  <2> QED
    BY <2>1
<1>8. \A x \in 1 .. N : rrs[x] = Soa <=> x = 1 \/ x = N
  <2>1. \A j \in DOMAIN t : t[j] # Soa
    <3>1. Soa \notin {MadeUpNs} \cup DOMAIN dnsZone
      BY DEF Soa, MadeUpNs
    <3> QED
      BY <1>6, <3>1
  <2>2. ASSUME NEW x \in 1 .. N, x # 1, x # N PROVE rrs[x] # Soa
    BY <1>7, <1>c, <2>1, <2>2
  <2>3. rrs[1] = Soa /\ rrs[N] = Soa
    BY <1>2, <1>b
  <2> QED
    BY <2>2, <2>3
<1>9. ASSUME NEW p \in MessagePlaces(sent)
      PROVE  sent[p[1]][p[2]] = Soa <=>
               \/ \A q \in MessagePlaces(sent) : ~PlacedBefore(q, p)
               \/ \A q \in MessagePlaces(sent) : ~PlacedBefore(p, q)
  <2>1. at[p] \in 1 .. N /\ \A q \in MessagePlaces(sent) : at[q] \in 1 .. N
    BY <1>5, <1>b
  <2>2. at[p] = 1 <=> \A q \in MessagePlaces(sent) : ~PlacedBefore(q, p)
    <3>1. PICK q \in MessagePlaces(sent) : at[q] = 1
      BY <1>5, <1>b, <1>c
    <3> QED
      BY <1>5, <1>c, <2>1, <3>1
  <2>3. at[p] = N <=> \A q \in MessagePlaces(sent) : ~PlacedBefore(p, q)
    <3>1. PICK q \in MessagePlaces(sent) : at[q] = N
      BY <1>5, <1>b, <1>c
    <3> QED
      BY <1>5, <1>c, <2>1, <3>1
  <2> QED
    BY <1>5, <1>8, <2>1, <2>2, <2>3
<1>10. {sent[p[1]][p[2]] : p \in MessagePlaces(sent)}
         = {Soa} \cup {i \in DOMAIN dnsZone : Leaving(i)} \cup apex
  <2>1. {sent[p[1]][p[2]] : p \in MessagePlaces(sent)} = {rrs[x] : x \in 1 .. N}
    BY <1>5, <1>b
  <2>2. {rrs[x] : x \in 1 .. N} = {Soa} \cup {t[j] : j \in 1 .. n}
    <3>1. ASSUME NEW x \in 1 .. N PROVE rrs[x] \in {Soa} \cup {t[j] : j \in 1 .. n}
      BY <1>7, <1>8
    <3>2. ASSUME NEW j \in 1 .. n PROVE t[j] \in {rrs[x] : x \in 1 .. N}
      <4>1. j + 1 \in 1 .. N /\ rrs[j + 1] = t[j]
        BY <1>2, <1>b, <1>c
      <4> QED
        BY <4>1
    <3>3. Soa \in {rrs[x] : x \in 1 .. N}
      <4>1. 1 \in 1 .. N /\ rrs[1] = Soa
        BY <1>2, <1>c
      <4> QED
        BY <4>1
    <3> QED
      BY <3>1, <3>2, <3>3
  <2> QED
    BY <1>6, <1>c, <2>1, <2>2
<1>11. ASSUME NEW p \in MessagePlaces(sent), NEW q \in MessagePlaces(sent), PlacedBefore(p, q),
              sent[p[1]][p[2]] > 0, sent[q[1]][q[2]] > 0
       PROVE  sent[p[1]][p[2]] < sent[q[1]][q[2]]
  <2>1. PICK x, y : x = at[p] /\ y = at[q]
    OBVIOUS
  <2>2. x \in 1 .. N /\ y \in 1 .. N /\ x < y /\ rrs[x] > 0 /\ rrs[y] > 0
    BY <1>5, <1>11, <1>b, <2>1
  <2>3. ~(Soa > 0)
    BY DEF Soa
  <2>4. x - 1 \in 1 .. n /\ y - 1 \in 1 .. n /\ rrs[x] = t[x - 1] /\ rrs[y] = t[y - 1]
    BY <1>7, <1>8, <2>2, <2>3
  <2>5. x - 1 < y - 1
    BY <1>c, <2>2
  <2>6. t[x - 1] < t[y - 1]
    BY <1>6, <1>c, <2>2, <2>4, <2>5
  <2> QED
    BY <1>5, <2>1, <2>4, <2>6
<1>12. \A k \in DOMAIN sent :
         sent[k] # <<>> /\ (Len(sent[k]) > 1 => SizeOfAll(sent[k]) <= MessageLimit)
  <2>1. \A k \in 1 .. Len(sent) : Len(sent[k]) > 1 => SizeOfAll(sent[k]) <= MessageLimit
    BY <1>4 DEF Cut
  <2>2. DOMAIN sent = 1 .. Len(sent)
    BY <1>4
  <2> QED
    BY <1>5, <2>1, <2>2
<1>13. WholeTransfer(sent)
  BY <1>9, <1>10, <1>11, <1>12, <1>d DEF WholeTransfer
<1>14. ASSUME NEW k \in DOMAIN sent, SizeOfAll(sent[k]) > WireLimit
       PROVE  \E i \in DOMAIN dnsZone : dnsZone[i].size > WireLimit
  <2>1. PICK m : m = sent[k]
    OBVIOUS
  <2>2. m \in Seq(S) /\ m # <<>> /\ SizeOfAll(m) \in Nat
    <3>1. m \in Seq(S)
      BY <1>4, <2>1
    <3> QED
      BY <1>3, <1>5, <2>1, <3>1, Sizes
  <2>3. Len(m) = 1
    <3>1. PICK length, size : length = Len(m) /\ size = SizeOfAll(m)
      OBVIOUS
    <3>2. length > 1 => size <= MessageLimit
      BY <1>12, <2>1, <3>1
    <3>3. size \in Nat /\ size > WireLimit
      BY <1>14, <2>1, <2>2, <3>1
    <3>4. MessageLimit \in Nat /\ WireLimit \in Nat /\ MessageLimit < WireLimit
      BY DnsAssumption
    <3>5. length \in Nat /\ length # 0
      BY <2>2, <3>1
    <3>6. length = 1
      BY ONLY <3>2, <3>3, <3>4, <3>5
    <3> QED
      BY <3>1, <3>6
  <2>4. m = <<m[1]>> /\ m[1] \in S
    BY <2>2, <2>3, OneElement
  <2>5. SizeOfAll(m) = SizeOf(m[1])
    <3>1. <<>> \in Seq(S) /\ Append(<<>>, m[1]) = m
      BY <2>4
    <3>2. SizeOfAll(<<>>) = 0 /\ SizeOfAll(Append(<<>>, m[1])) = SizeOfAll(<<>>) + SizeOf(m[1])
      BY <1>3, <2>4, <3>1, Sizes
    <3>3. SizeOf(m[1]) \in Nat
      BY <1>3, <2>4
    <3> QED
      BY <3>1, <3>2, <3>3
  <2>6. SizeOf(m[1]) > WireLimit /\ WireLimit >= 1
    BY <1>14, <2>1, <2>5, DnsAssumption
  <2>7. m[1] \in DOMAIN dnsZone
    <3>1. SizeOf(Soa) = 1 /\ SizeOf(MadeUpNs) = 1
      BY DEF SizeOf, Soa, MadeUpNs
    <3>2. m[1] # Soa /\ m[1] # MadeUpNs
      BY <2>6, <3>1, DnsAssumption
    <3> QED
      BY <1>1, <2>4, <3>2
  <2>8. SizeOf(m[1]) = dnsZone[m[1]].size
    BY <2>7 DEF SizeOf
  <2> QED
    BY <2>6, <2>7, <2>8
<1> QED
  BY <1>13, <1>14

(* What has left the server is all there is to say of a reply.             *)
ReplyTrue(q, reply) ==
  /\ reply.messages # <<>> /\ q.type = "AXFR" =>
       AxfrAllowed /\ q.tcp /\ q.asks = "apex"
  /\ reply.kind = "transfer" => WholeTransfer(reply.messages)
  /\ reply.kind = "cut" /\ q.type = "AXFR" =>
       \E i \in DOMAIN dnsZone : dnsZone[i].size > WireLimit

LEMMA WholeIsTrue == DnsTransferWhole <=> ReplyTrue(dnsQuery, dnsReply)
  BY DEF DnsTransferWhole, ReplyTrue, WholeTransfer, MessagePlaces, PlacedBefore

DnsInv == dnsZone \in Seq(Record) /\ DnsTransferWhole

LEMMA DnsTransferTrue ==
  ASSUME DnsInv, DnsTransfer
  PROVE  ReplyTrue(dnsQuery, dnsReply')
<1>1. PICK sent : sent = Chunks(Bracketed)
  OBVIOUS
<1>2. /\ WholeTransfer(sent)
      /\ \A k \in DOMAIN sent : SizeOfAll(sent[k]) > WireLimit =>
           \E i \in DOMAIN dnsZone : dnsZone[i].size > WireLimit
  <2>1. dnsZone \in Seq(Record)
    BY DEF DnsInv
  <2> QED
    BY ONLY <1>1, <2>1, TransferIsWhole
<1>3. PICK tooLong : tooLong = {k \in DOMAIN sent : SizeOfAll(sent[k]) > WireLimit}
  OBVIOUS
<1>4. PICK first : first = SubSeq(sent, 1, Min(tooLong) - 1)
  OBVIOUS
<1>5. /\ Permitted(dnsQuery)
      /\ dnsReply' = IF tooLong = {} THEN Reply("transfer", sent) ELSE Reply("cut", first)
  BY <1>1, <1>3, <1>4 DEF DnsTransfer, Sent, Bracketed
<1>6. AxfrAllowed /\ dnsQuery.tcp /\ dnsQuery.asks = "apex"
  BY <1>5 DEF Permitted
<1>7. CASE tooLong = {}
  <2>1. dnsReply'.kind = "transfer" /\ dnsReply'.messages = sent
    BY <1>5, <1>7 DEF Reply
  <2> QED
    BY <1>2, <1>6, <2>1 DEF ReplyTrue
<1>8. CASE tooLong # {}
  <2>1. dnsReply'.kind = "cut"
    BY <1>5, <1>8 DEF Reply
  <2>2. \E i \in DOMAIN dnsZone : dnsZone[i].size > WireLimit
    BY <1>2, <1>3, <1>8
  <2> QED
    BY <1>6, <2>1, <2>2 DEF ReplyTrue
<1> QED
  BY <1>7, <1>8

LEMMA SentKind ==
  ASSUME NEW kind, NEW messages
  PROVE  Sent(kind, messages).kind \in {kind, "cut"}
BY DEF Sent, Reply

LEMMA DnsStep ==
  ASSUME DnsInv, [DnsNext]_dnsVars
  PROVE  DnsInv'
<1>1. ReplyTrue(dnsQuery, dnsReply) /\ dnsZone \in Seq(Record)
  BY WholeIsTrue DEF DnsInv
<1>2. dnsZone' = dnsZone
  BY DEF DnsNext, dnsVars, DnsReceive, DnsTruncated, DnsDecode, DnsServe, DnsResolve,
         DnsRefuse, DnsTransfer
<1>3. ReplyTrue(dnsQuery', dnsReply')
  <2>1. ASSUME dnsReply'.kind # "transfer",
               \/ dnsQuery'.type # "AXFR"
               \/ /\ dnsReply' = Reply(dnsReply'.kind, <<>>)
                  /\ dnsReply'.kind # "cut"
        PROVE  ReplyTrue(dnsQuery', dnsReply')
    BY <2>1 DEF ReplyTrue, Reply
  <2>2. ASSUME NEW q \in Query, DnsReceive(q) PROVE ReplyTrue(dnsQuery', dnsReply')
    BY <2>1, <2>2 DEF DnsReceive, Reply
  <2>3. CASE DnsTruncated
    BY <2>1, <2>3 DEF DnsTruncated, Reply
  <2>4. CASE DnsDecode
    BY <1>1, <2>4 DEF DnsDecode
  <2>5. CASE DnsResolve
    <3>1. dnsQuery'.type # "AXFR"
      BY <2>5 DEF DnsResolve, Asked
    <3>2. dnsReply'.kind \in {"answer", "cut"}
      BY <2>5, SentKind DEF DnsResolve
    <3> QED
      BY <2>1, <3>1, <3>2
  <2>6. CASE DnsRefuse
    BY <2>1, <2>6 DEF DnsRefuse, Reply
  <2>7. CASE DnsTransfer
    BY <2>7, DnsTransferTrue DEF DnsTransfer
  <2>8. CASE UNCHANGED dnsVars
    BY <1>1, <2>8 DEF dnsVars
  <2> QED
    BY <2>2, <2>3, <2>4, <2>5, <2>6, <2>7, <2>8 DEF DnsNext, DnsServe
<1>4. DnsTransferWhole'
  <2>1. PICK z, q, r : z = dnsZone /\ q = dnsQuery' /\ r = dnsReply'
    OBVIOUS
  <2>2. /\ r.messages # <<>> /\ q.type = "AXFR" =>
             AxfrAllowed /\ q.tcp /\ q.asks = "apex"
        /\ r.kind = "transfer" => WholeTransfer(r.messages)
        /\ r.kind = "cut" /\ q.type = "AXFR" =>
             \E i \in DOMAIN dnsZone : dnsZone[i].size > WireLimit
    BY <1>3, <2>1 DEF ReplyTrue
  <2>3. ASSUME NEW sent, WholeTransfer(sent) PROVE WholeTransfer(sent)'
    <3>1. \A m : SizeOfAll(m)' = SizeOfAll(m)
      BY <1>2 DEF SizeOfAll, SizeOf
    <3>2. /\ {i \in DOMAIN dnsZone : Leaving(i)}' = {i \in DOMAIN dnsZone : Leaving(i)}
          /\ HasApexNs' = HasApexNs
      BY <1>2 DEF InZone, Leaving, HasApexNs
    <3> QED
      BY <2>3, <3>1, <3>2 DEF WholeTransfer, MessagePlaces, PlacedBefore
  <2>4. r.kind = "transfer" => WholeTransfer(r.messages)'
    BY <2>2, <2>3
  <2> QED
    BY <1>2, <2>1, <2>2, <2>4
       DEF DnsTransferWhole, WholeTransfer, MessagePlaces, PlacedBefore
<1> QED
  BY <1>1, <1>2, <1>4 DEF DnsInv

(* A zone leaves the server only where its posture allows it, and then as  *)
(* a whole, however long it is and wherever the messages are cut.          *)
THEOREM TransferWhole == DnsSpec => []DnsTransferWhole
<1>1. DnsInit => DnsInv
  <2> SUFFICES ASSUME DnsInit PROVE DnsInv
    OBVIOUS
  <2>1. dnsReply.kind = "none" /\ dnsReply.messages = <<>>
    BY DEF DnsInit, Reply
  <2>2. ReplyTrue(dnsQuery, dnsReply)
    BY <2>1 DEF ReplyTrue
  <2> QED
    BY <2>2, WholeIsTrue, DnsAssumption DEF DnsInit, DnsInv
<1>2. DnsInv /\ [DnsNext]_dnsVars => DnsInv'
  BY DnsStep
<1>3. DnsInv => DnsTransferWhole
  BY DEF DnsInv
<1> QED
  BY <1>1, <1>2, <1>3, PTL DEF DnsSpec
=============================================================================
