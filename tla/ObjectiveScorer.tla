--------------------------- MODULE ObjectiveScorer ---------------------------
(***************************************************************************)
(* The scorer of one objective (scoring.py): the scan of a telemetry log   *)
(* for the objective's single-event signals (_eval_detect) and for its     *)
(* kill chain (_eval_sequence).                                            *)
(*                                                                         *)
(* Both scans read the log from its first event to its last and keep       *)
(* little; a state of this module is what they keep after a prefix of the  *)
(* log, so that every state is the score of a complete log.  An event is   *)
(* what the conditions make of it: its source, its time, the steps of the  *)
(* kill chain it matches and whether a signal matches it.                  *)
(***************************************************************************)
EXTENDS Integers, Sequences, FiniteSets

CONSTANTS
  Sources,      \* values of source.ip
  NoSource,     \* no source.ip in the event
  Objectives,   \* the kill chains that may be scored
  Events,       \* the events a log may hold
  MaxEvents     \* bound: the length of a log

NoWindow == -1   \* no `within`, or one that _parse_duration cannot read
NoTime == -1     \* no @timestamp, or one that _epoch cannot read

Objective == [steps : Nat \ {0}, same_source : BOOLEAN,
              within : Nat \cup {NoWindow}]
Event == [source : Sources \cup {NoSource}, ts : Nat \cup {NoTime},
          steps : SUBSET Nat, signal : BOOLEAN]

ASSUME SourceAssumption == NoSource \notin Sources
ASSUME ObjectivesAssumption == Objectives \subseteq Objective
ASSUME EventsAssumption == Events \subseteq Event
ASSUME BoundAssumption == MaxEvents \in Nat

VARIABLES
  seq,       \* obj.sequence: the kill chain that is scored
  log,       \* the events read so far
  progress,  \* states: per source, the events matched so far and first_ts
  winner,    \* the chain of events that completed the sequence, << >> if none
  detected   \* _eval_detect: its first match, number of matches and sources

vars == <<seq, log, progress, winner, detected>>

Steps == 1 .. seq.steps

(* The keys of `states`: each source has a machine of its own, or all      *)
(* events share one.                                                       *)
Keys == Sources \cup {NoSource}
Key(e) == IF seq.same_source THEN e.source ELSE NoSource

Blank == [chain |-> <<>>, first |-> NoTime]
NothingDetected == [first |-> 0, count |-> 0, sources |-> {}]

(* parse_events sorts by the text of @timestamp: times never go back, and  *)
(* an event whose time cannot be read may be anywhere.                     *)
Sorted(e) == \A i \in DOMAIN log : e.ts # NoTime => log[i].ts <= e.ts
-----------------------------------------------------------------------------
Init ==
  /\ seq \in Objectives
  /\ log = <<>>
  /\ progress = [k \in Keys |-> Blank]
  /\ winner = <<>>
  /\ detected = NothingDetected

(* _eval_detect's turn at event e, the n-th.                               *)
Detect(e, n) ==
  detected' = IF ~e.signal THEN detected
              ELSE [first |-> IF detected.first = 0 THEN n ELSE detected.first,
                    count |-> detected.count + 1,
                    sources |-> detected.sources \cup ({e.source} \ {NoSource})]

(* Event e is read by both scans; _eval_sequence has not returned yet.     *)
Read(e) ==
  /\ Len(log) < MaxEvents
  /\ Sorted(e)
  /\ log' = Append(log, e)
  /\ Detect(e, Len(log) + 1)
  /\ UNCHANGED seq

Waiting(k) == Len(progress[k].chain) + 1   \* the step the machine waits for

(* The guards of the loop body, in its order.                              *)
Attributed(e) == seq.same_source => e.source # NoSource
Matches(e) == Attributed(e) /\ Waiting(Key(e)) \in e.steps

\* Mutation: the window is counted from the last step, not from the first.
TooSlowSinceLastStep(e) ==
  LET p == progress[Key(e)]
  IN /\ p.chain # <<>>
     /\ seq.within # NoWindow /\ p.first # NoTime /\ e.ts # NoTime
     /\ e.ts - log[p.chain[Len(p.chain)]].ts > seq.within

TooSlow(e) ==
  LET p == progress[Key(e)]
  IN /\ p.chain # <<>>
     /\ seq.within # NoWindow /\ p.first # NoTime /\ e.ts # NoTime
     /\ e.ts - p.first > seq.within

\* Mutation: any other event of the source breaks the chain.
SkipBreaksChain(e) ==
  /\ winner = <<>>
  /\ Read(e)
  /\ ~Matches(e)
  /\ progress' = [progress EXCEPT ![Key(e)] = Blank]
  /\ UNCHANGED winner

(* The event does not concern the machine of its source.                   *)
Skip(e) ==
  /\ winner = <<>>
  /\ Read(e)
  /\ ~Matches(e)
  /\ UNCHANGED <<progress, winner>>

\* Mutation: events are counted from 0.
ExtendedFromZero(e) == Append(progress[Key(e)].chain, Len(log))

Extended(e) == Append(progress[Key(e)].chain, Len(log) + 1)

(* The next step of the chain, which may be its first or its last one; the *)
(* last one ends the scan.                                                 *)
Advance(e) ==
  /\ winner = <<>>
  /\ Read(e)
  /\ Matches(e) /\ ~TooSlow(e)
  /\ progress' = [progress EXCEPT ![Key(e)] =
                    [chain |-> Extended(e),
                     first |-> IF @.chain = <<>> THEN e.ts ELSE @.first]]
  /\ winner' = IF Len(Extended(e)) = seq.steps THEN Extended(e) ELSE <<>>

(* Too late: progress is dropped, and the event may open a new chain.      *)
Expire(e) ==
  /\ winner = <<>>
  /\ Read(e)
  /\ Matches(e) /\ TooSlow(e)
  /\ progress' = [progress EXCEPT ![Key(e)] =
                    IF 1 \in e.steps
                    THEN [chain |-> <<Len(log) + 1>>, first |-> e.ts]
                    ELSE Blank]
  /\ UNCHANGED winner

\* Mutation: a completed machine starts again.
ReadOnAgain(e) ==
  /\ winner # <<>>
  /\ Read(e)
  /\ progress' = [k \in Keys |-> Blank]
  /\ winner' = <<>>

(* _eval_sequence has returned; _eval_detect reads on.                     *)
ReadOn(e) ==
  /\ winner # <<>>
  /\ Read(e)
  /\ UNCHANGED <<progress, winner>>

Next == \E e \in Events : Skip(e) \/ Advance(e) \/ Expire(e) \/ ReadOn(e)

Spec == Init /\ [][Next]_vars

(* score(): a signal goes before a kill chain.                             *)
Verdict ==
  IF detected.first # 0 THEN "signal"
  ELSE IF winner # <<>> THEN "sequence" ELSE "unmet"
-----------------------------------------------------------------------------
ScoreTypeOK ==
  /\ seq \in Objectives
  /\ log \in Seq(Events) /\ Len(log) <= MaxEvents
  /\ progress \in [Keys -> [chain : Seq(Nat \ {0}),
                            first : Nat \cup {NoTime}]]
  /\ winner \in Seq(Nat \ {0})
  /\ detected \in [first : Nat, count : Nat, sources : SUBSET Sources]

(* c is a chain of the log: one event per step so far, in order, all of    *)
(* the machine k.                                                          *)
Chain(c, k) ==
  /\ \A i \in DOMAIN c :
       /\ c[i] \in DOMAIN log
       /\ i \in log[c[i]].steps
       /\ Attributed(log[c[i]]) /\ Key(log[c[i]]) = k
  /\ \A i, j \in DOMAIN c : i < j => c[i] < c[j]

(* Every event of the chain c is inside the window its first one opens; an *)
(* event without a time, or a first one without, escapes the window.       *)
InWindow(c) ==
  \A i \in DOMAIN c :
    \/ seq.within = NoWindow \/ log[c[1]].ts = NoTime \/ log[c[i]].ts = NoTime
    \/ log[c[i]].ts - log[c[1]].ts <= seq.within

(* What is reported as a completed kill chain is one: every step, in order, *)
(* by one source when the objective says so, inside its window - across    *)
(* any number of expired and restarted attempts and interleaved sources.   *)
WinnerIsKillChain ==
  winner # <<>> =>
    /\ Len(winner) = seq.steps
    /\ \E k \in Keys : Chain(winner, k)
    /\ InWindow(winner)

(* Without a window the scan misses nothing: when some events of a log are *)
(* a kill chain, in whatever positions and however many other events are   *)
(* in between, the objective is met.                                       *)
IncreasingSeq == {c \in [Steps -> 1 .. MaxEvents] :
                    \A i, j \in Steps : i < j => c[i] < c[j]}
UnwindowedChainFound ==
  (seq.within = NoWindow /\ \E k \in Keys, c \in IncreasingSeq : Chain(c, k))
    => winner # <<>>

(* A later event never takes an objective back: what is met stays met, and *)
(* a completed chain stays the one that was reported.                      *)
MetStaysMet ==
  [][/\ Verdict # "unmet" => Verdict' # "unmet"
     /\ Verdict = "signal" => Verdict' = "signal" /\ detected'.first = detected.first
     /\ winner # <<>> => winner' = winner]_vars
-----------------------------------------------------------------------------
(* What the documentation says and the code does not do.                   *)

(* "ordered ... within a time window": a kill chain that is complete inside *)
(* its window makes the objective met.                                     *)
WindowedChainFound ==
  (\E k \in Keys, c \in IncreasingSeq : Chain(c, k) /\ InWindow(c))
    => winner # <<>>
=============================================================================
