--------------------------- MODULE BannerSession ---------------------------
(***************************************************************************)
(* A connection of the banner facade (facades/banner.py): a greeting, then *)
(* a loop that logs each line, or each block of a binary protocol, with    *)
(* the first rule it matches and answers what the rule says.               *)
(*                                                                         *)
(* The network delivers a stream: the two halves of what a client sends at *)
(* a time, a probe, may arrive apart, and probes may arrive together.  A   *)
(* rule matches a probe only where it sees all of it.                      *)
(***************************************************************************)
EXTENDS Integers, SequencesExt

CONSTANTS
  Rules,      \* the rules, numbered in their order
  Closing,    \* those with close_after
  Answering,  \* of a binary protocol, those with respond_hex
  Probes,     \* what clients send
  Fits,       \* the rules a probe matches
  MaxHalves   \* bound: halves of probes one client sends

ASSUME BannerAssumption ==
  /\ Rules \subseteq Nat \ {0} /\ Closing \subseteq Rules /\ Answering \subseteq Rules
  /\ Fits \in [Probes -> SUBSET Rules]
  /\ MaxHalves \in Nat

VARIABLES
  bannerCfg,     \* cfg.binary and cfg.close_after_banner
  bannerStage,   \* "closed", "greeting", "serving"
  bannerStream,  \* the halves that have arrived on this connection
  bannerTaken,   \* how many of them were read
  bannerLog,     \* the rules in its line_received events, 0 for none
  bannerAnswers  \* the rules whose responses the client was sent

bannerVars == <<bannerCfg, bannerStage, bannerStream, bannerTaken, bannerLog,
                bannerAnswers>>

BannerInit ==
  /\ bannerCfg \in [binary : BOOLEAN, once : BOOLEAN]
  /\ bannerStage = "closed"
  /\ bannerStream = <<>> /\ bannerTaken = 0
  /\ bannerLog = <<>> /\ bannerAnswers = <<>>

BannerConnect ==
  /\ bannerStage = "closed" /\ bannerStage' = "greeting"
  /\ bannerStream' = <<>> /\ bannerTaken' = 0
  /\ bannerLog' = <<>> /\ bannerAnswers' = <<>>
  /\ UNCHANGED bannerCfg

(* A probe begins, or its second half follows; the facade may not be ready *)
(* to read it yet.                                                         *)
BannerArrives ==
  /\ bannerStage # "closed" /\ Len(bannerStream) < MaxHalves
  /\ \/ /\ Len(bannerStream) % 2 = 0
        /\ \E p \in Probes : bannerStream' = Append(bannerStream, <<p, 1>>)
     \/ /\ Len(bannerStream) % 2 = 1
        /\ bannerStream' = Append(bannerStream, <<Last(bannerStream)[1], 2>>)
  /\ UNCHANGED <<bannerCfg, bannerStage, bannerTaken, bannerLog, bannerAnswers>>

BannerGreet ==
  /\ bannerStage = "greeting"
  /\ bannerStage' = IF bannerCfg.once THEN "closed" ELSE "serving"
  /\ UNCHANGED <<bannerCfg, bannerStream, bannerTaken, bannerLog, bannerAnswers>>
-----------------------------------------------------------------------------
Whole(data) ==
  {p \in Probes : \E i \in 1 .. Len(data) - 1 : data[i] = <<p, 1>> /\ data[i + 1] = <<p, 2>>}

(* The first of the rules that match what was read, 0 when none does.      *)
FirstMatch(data) ==
  LET matching == UNION {Fits[p] : p \in Whole(data)}
  IN  IF matching = {} THEN 0 ELSE Min(matching)

\* Mutation: text is read like a binary protocol, without waiting for its line.
ReadsWhatArrived(unread, n) == n = Len(unread)

(* read() takes what has arrived, readline() waits for the end of a line.  *)
Reads(unread, n) == n = IF bannerCfg.binary THEN Len(unread) ELSE 2

Answers(rule) == rule # 0 /\ (bannerCfg.binary => rule \in Answering)

\* Mutation: close_after is left to the client of a text protocol.
EndsUnmatched(rule) == bannerCfg.binary /\ (rule = 0 \/ rule \in Closing)

(* A binary session ends on anything but a rule that keeps it open.        *)
Ends(rule) == rule \in Closing \/ (bannerCfg.binary /\ rule = 0)

(* _serve_text and _serve_binary: what was read is logged, then answered;  *)
(* a client that is gone by then ends the session.                         *)
BannerRead ==
  LET unread == SubSeq(bannerStream, bannerTaken + 1, Len(bannerStream)) IN
  /\ bannerStage = "serving"
  /\ \E n \in 1 .. Len(unread) :
       LET rule == FirstMatch(SubSeq(unread, 1, n)) IN
       /\ Reads(unread, n)
       /\ bannerTaken' = bannerTaken + n
       /\ bannerLog' = Append(bannerLog, rule)
       /\ \/ /\ bannerAnswers' = IF Answers(rule) THEN Append(bannerAnswers, rule)
                                 ELSE bannerAnswers
             /\ bannerStage' = IF Ends(rule) THEN "closed" ELSE "serving"
          \/ /\ Answers(rule) /\ UNCHANGED bannerAnswers
             /\ bannerStage' = "closed"
  /\ UNCHANGED <<bannerCfg, bannerStream>>

(* The client closes in the middle of a line: readline() returns the rest. *)
BannerLastLine ==
  /\ bannerStage = "serving" /\ ~bannerCfg.binary
  /\ Len(bannerStream) = bannerTaken + 1
  /\ bannerTaken' = bannerTaken + 1
  /\ bannerLog' = Append(bannerLog, 0)
  /\ bannerStage' = "closed"
  /\ UNCHANGED <<bannerCfg, bannerStream, bannerAnswers>>

(* The client closes or is idle too long, or its line is too long.         *)
BannerGone ==
  /\ bannerStage # "closed" /\ bannerStage' = "closed"
  /\ UNCHANGED <<bannerCfg, bannerStream, bannerTaken, bannerLog, bannerAnswers>>

BannerNext ==
  \/ BannerConnect \/ BannerArrives \/ BannerGreet
  \/ BannerRead \/ BannerLastLine \/ BannerGone

BannerSpec == BannerInit /\ [][BannerNext]_bannerVars
-----------------------------------------------------------------------------
(* However the network cuts the stream, a text session logs the client's   *)
(* lines one by one, in order, each under the first rule it matches; the   *)
(* k-th answer is that of the k-th line logged that has one, and none but  *)
(* the last, to a client that has gone, is missing; and a session that     *)
(* goes on has met no rule that closes it nor, in a binary protocol, a     *)
(* block without a rule.                                                   *)
BannerLogged ==
  LET line(i) == FirstMatch(SubSeq(bannerStream, 2 * i - 1, 2 * i))
      due(i) == {j \in 1 .. i : Answers(bannerLog[j])}
      missing == Cardinality(due(Len(bannerLog))) - Len(bannerAnswers)
  IN /\ ~bannerCfg.binary =>
          \A i \in DOMAIN bannerLog :
            bannerLog[i] = IF 2 * i <= Len(bannerStream) THEN line(i) ELSE 0
     /\ missing = 0 \/ (bannerStage = "closed" /\ missing = 1)
     /\ \A i \in due(Len(bannerLog)) :
          Cardinality(due(i)) \in DOMAIN bannerAnswers =>
            bannerAnswers[Cardinality(due(i))] = bannerLog[i]
     /\ bannerStage = "serving" =>
          \A i \in DOMAIN bannerLog :
            bannerLog[i] \notin Closing /\ (bannerCfg.binary => bannerLog[i] # 0)
=============================================================================
