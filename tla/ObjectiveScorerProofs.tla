----------------------- MODULE ObjectiveScorerProofs -----------------------
(* Proofs about the two judges of a log: about ObjectiveScorer, for every  *)
(* set of sources, events and kill chains and for logs of any bounded      *)
(* length, and about DetectionRules, for every objective and all logs.     *)
EXTENDS ObjectiveScorer, DetectionRules, SharedLemmas, FiniteSetTheorems, TLAPS

(* What a machine holds is a chain of the log inside the window, of which  *)
(* it remembers the first time; it is short of the last step.              *)
Machine(k) ==
  /\ Chain(progress[k].chain, k)
  /\ InWindow(progress[k].chain)
  /\ progress[k].chain # <<>> =>
       progress[k].first = log[progress[k].chain[1]].ts
  /\ winner = <<>> => Len(progress[k].chain) < seq.steps

(* The winner is the chain of a machine that reached the last step.        *)
Reported ==
  winner # <<>> =>
    /\ Len(winner) = seq.steps
    /\ \E k \in Keys : winner = progress[k].chain

(* Without a window the machine of k is ahead of every chain of k: taking  *)
(* the first event that fits is never worse than waiting for another.      *)
Greedy ==
  (winner = <<>> /\ seq.within = NoWindow) =>
    \A k \in Keys, n \in Nat : \A c \in [1 .. n -> DOMAIN log] :
      Chain(c, k) => n <= Len(progress[k].chain)

IInv == ScoreTypeOK /\ (\A k \in Keys : Machine(k)) /\ Reported /\ Greedy
-----------------------------------------------------------------------------
LEMMA TypeInit == Init => ScoreTypeOK
BY SourceAssumption, BoundAssumption
   DEF Init, ScoreTypeOK, Blank, NothingDetected, NoTime

(* What a turn of the scans adds.                                          *)
LEMMA ReadFacts ==
  ASSUME ScoreTypeOK, NEW e \in Events, Read(e)
  PROVE  /\ log' = Append(log, e) /\ log' \in Seq(Events)
         /\ Len(log') = Len(log) + 1 /\ Len(log') <= MaxEvents
         /\ Len(log) \in Nat
         /\ DOMAIN log = 1 .. Len(log) /\ DOMAIN log' = 1 .. (Len(log) + 1)
         /\ \A i \in DOMAIN log : log'[i] = log[i]
         /\ log'[Len(log) + 1] = e
         /\ seq' = seq
BY BoundAssumption DEF ScoreTypeOK, Read

LEMMA EventTypes ==
  ASSUME NEW e \in Events
  PROVE  /\ e.source \in Keys /\ e.ts \in Nat \cup {NoTime}
         /\ e.signal \in BOOLEAN
         /\ Key(e) \in Keys
BY EventsAssumption DEF Event, Keys, Key

LEMMA DetectType ==
  ASSUME ScoreTypeOK, NEW e \in Events, Read(e)
  PROVE  detected' \in [first : Nat, count : Nat, sources : SUBSET Sources]
<1>1. Len(log) + 1 \in Nat
  BY ReadFacts
<1>2. {e.source} \ {NoSource} \subseteq Sources
  BY EventTypes DEF Keys
<1> QED
  BY <1>1, <1>2 DEF ScoreTypeOK, Read, Detect

(* Every turn of the scans keeps the types.                                *)
LEMMA TypeStep ==
  ASSUME ScoreTypeOK, [Next]_vars
  PROVE  ScoreTypeOK'
<1>1. ASSUME NEW e \in Events, Read(e),
             progress' \in [Keys -> [chain : Seq(Nat \ {0}),
                                     first : Nat \cup {NoTime}]],
             winner' \in Seq(Nat \ {0})
      PROVE  ScoreTypeOK'
  BY <1>1, ReadFacts, DetectType DEF ScoreTypeOK
<1>2. ASSUME NEW e \in Events, Skip(e)
      PROVE  ScoreTypeOK'
  BY <1>1, <1>2 DEF Skip, ScoreTypeOK
<1>3. ASSUME NEW e \in Events, Advance(e)
      PROVE  ScoreTypeOK'
  <2>1. Key(e) \in Keys /\ e.ts \in Nat \cup {NoTime}
    BY EventTypes
  <2>2. Read(e)
    BY <1>3 DEF Advance
  <2>3. Extended(e) \in Seq(Nat \ {0})
    BY <2>1, <2>2, ReadFacts DEF Extended, ScoreTypeOK
  <2>4. winner' \in Seq(Nat \ {0})
    BY <1>3, <2>3 DEF Advance
  <2>5. progress' \in [Keys -> [chain : Seq(Nat \ {0}),
                                first : Nat \cup {NoTime}]]
    BY <1>3, <2>1, <2>3 DEF Advance, ScoreTypeOK
  <2> QED
    BY <1>1, <2>2, <2>4, <2>5
<1>4. ASSUME NEW e \in Events, Expire(e)
      PROVE  ScoreTypeOK'
  <2>1. Key(e) \in Keys /\ e.ts \in Nat \cup {NoTime}
    BY EventTypes
  <2>2. Read(e) /\ winner' = winner
    BY <1>4 DEF Expire
  <2>3. <<Len(log) + 1>> \in Seq(Nat \ {0}) /\ <<>> \in Seq(Nat \ {0})
    BY <2>2, ReadFacts
  <2>4. progress' \in [Keys -> [chain : Seq(Nat \ {0}),
                                first : Nat \cup {NoTime}]]
    BY <1>4, <2>1, <2>3 DEF Expire, ScoreTypeOK, Blank
  <2> QED
    BY <1>1, <2>2, <2>4 DEF ScoreTypeOK
<1>5. ASSUME NEW e \in Events, ReadOn(e)
      PROVE  ScoreTypeOK'
  BY <1>1, <1>5 DEF ReadOn, ScoreTypeOK
<1>6. CASE UNCHANGED vars
  BY <1>6 DEF vars, ScoreTypeOK
<1> QED
  BY <1>2, <1>3, <1>4, <1>5, <1>6 DEF Next
-----------------------------------------------------------------------------
(* What is known of a sequence objective.                                  *)
LEMMA ObjectiveTypes ==
  ASSUME ScoreTypeOK
  PROVE  /\ seq.steps \in Nat \ {0}
         /\ seq.within \in Int
         /\ seq.within # NoWindow => seq.within >= 0
BY ObjectivesAssumption DEF ScoreTypeOK, Objective, NoWindow

(* A chain of the log stays one when the log grows.                        *)
LEMMA ChainKept ==
  ASSUME ScoreTypeOK, NEW e \in Events, Read(e), NEW k \in Keys,
         Chain(progress[k].chain, k), InWindow(progress[k].chain),
         progress'[k] = progress[k]
  PROVE  Chain(progress[k].chain, k)' /\ InWindow(progress[k].chain)'
<1> DEFINE c == progress[k].chain
<1>1. c \in Seq(Nat \ {0}) /\ progress'[k].chain = c
  BY DEF ScoreTypeOK
<1>2. \A i \in DOMAIN c : c[i] \in DOMAIN log
  BY DEF Chain
<1>3. \A i \in DOMAIN c : c[i] \in DOMAIN log' /\ log'[c[i]] = log[c[i]]
  BY <1>2, ReadFacts
<1>4. DOMAIN c = 1 .. Len(c) /\ Len(c) \in Nat
  BY <1>1
<1>5. Chain(progress[k].chain, k)'
  <2>1. \A i \in DOMAIN c :
          /\ i \in log'[c[i]].steps
          /\ seq'.same_source => log'[c[i]].source # NoSource
          /\ k = IF seq'.same_source THEN log'[c[i]].source ELSE NoSource
    BY <1>3, ReadFacts DEF Chain, Attributed, Key
  <2>2. \A i, j \in DOMAIN c : i < j => c[i] < c[j]
    BY DEF Chain
  <2> QED
    BY <1>1, <1>3, <2>1, <2>2 DEF Chain, Attributed, Key
<1>6. InWindow(progress[k].chain)'
  <2>1. \A i \in DOMAIN c : log'[c[1]] = log[c[1]]
    BY <1>3, <1>4
  <2>2. SUFFICES ASSUME NEW i \in DOMAIN c
                 PROVE  \/ seq.within = NoWindow \/ log'[c[1]].ts = NoTime
                        \/ log'[c[i]].ts = NoTime
                        \/ log'[c[i]].ts - log'[c[1]].ts <= seq.within
    BY <1>1, ReadFacts DEF InWindow
  <2> QED
    BY <1>3, <2>1 DEF InWindow
<1> QED
  BY <1>5, <1>6

(* A machine that an event does not touch keeps what it holds.             *)
LEMMA MachineKept ==
  ASSUME ScoreTypeOK, NEW e \in Events, Read(e), NEW k \in Keys, Machine(k),
         progress'[k] = progress[k], winner' = <<>> => winner = <<>>
  PROVE  Machine(k)'
<1> DEFINE c == progress[k].chain
<1>1. c \in Seq(Nat \ {0})
  BY DEF ScoreTypeOK
<1>2. c # <<>> => 1 \in DOMAIN c
  BY <1>1
<1>3. c # <<>> => log'[c[1]] = log[c[1]]
  BY <1>2, ReadFacts DEF Machine, Chain
<1>4. c # <<>> => progress'[k].first = log'[c[1]].ts
  BY <1>3 DEF Machine
<1>5. winner' = <<>> => Len(c) < seq.steps
  BY DEF Machine
<1> QED
  BY <1>4, <1>5, ChainKept, ReadFacts DEF Machine

(* The machine of a matching event that comes in time takes it.            *)
LEMMA Advanced ==
  ASSUME ScoreTypeOK, NEW e \in Events, Advance(e), NEW k \in Keys, k = Key(e),
         Machine(k)
  PROVE  /\ Machine(k)'
         /\ Len(progress'[k].chain) = Len(progress[k].chain) + 1
         /\ winner' # <<>> => /\ winner' = progress'[k].chain
                              /\ Len(winner') = seq.steps
<1> DEFINE c == progress[k].chain
           n == Len(log) + 1
           d == Append(c, n)
<1>1. Read(e) /\ Matches(e) /\ ~TooSlow(e) /\ winner = <<>>
  BY DEF Advance
<1>3. c \in Seq(Nat \ {0}) /\ Len(c) \in Nat /\ DOMAIN c = 1 .. Len(c)
  BY DEF ScoreTypeOK
<1>4. n \in Nat \ {0} /\ n \in DOMAIN log' /\ log'[n] = e /\ seq' = seq
  BY <1>1, ReadFacts
<1>5. /\ d \in Seq(Nat \ {0}) /\ DOMAIN d = 1 .. (Len(c) + 1)
      /\ Len(d) = Len(c) + 1 /\ d # <<>>
      /\ \A i \in DOMAIN c : d[i] = c[i]
      /\ d[Len(c) + 1] = n
  BY <1>3, <1>4
<1>6. /\ progress'[k].chain = d
      /\ progress'[k].first = IF c = <<>> THEN e.ts ELSE progress[k].first
  BY DEF Advance, Extended, ScoreTypeOK
<1>7. \A i \in DOMAIN c : /\ c[i] \in DOMAIN log /\ c[i] < n
                         /\ log'[c[i]] = log[c[i]] /\ c[i] \in DOMAIN log'
  BY <1>1, ReadFacts DEF Machine, Chain
<1>8. Len(c) + 1 \in e.steps /\ Attributed(e)
  BY <1>1 DEF Matches, Waiting
<1>9. /\ \A i \in DOMAIN c : i \in log[c[i]].steps /\ Attributed(log[c[i]])
                            /\ Key(log[c[i]]) = k
      /\ \A i, j \in DOMAIN c : i < j => c[i] < c[j]
      /\ \A i \in DOMAIN c :
           \/ seq.within = NoWindow \/ log[c[1]].ts = NoTime
           \/ log[c[i]].ts = NoTime
           \/ log[c[i]].ts - log[c[1]].ts <= seq.within
      /\ c # <<>> => progress[k].first = log[c[1]].ts
      /\ Len(c) < seq.steps
  BY <1>1 DEF Machine, Chain, InWindow
<1>10. winner' = IF Len(d) = seq.steps THEN d ELSE <<>>
  BY DEF Advance, Extended
<1>11. e.ts \in Int /\ progress[k].first \in Int
  BY EventTypes DEF ScoreTypeOK, NoTime
<1>12. c # <<>> => \/ e.ts = NoTime \/ progress[k].first = NoTime
                    \/ seq.within = NoWindow
                    \/ ~(e.ts - progress[k].first > seq.within)
  BY <1>1 DEF TooSlow
<1>13. c = <<>> => Len(c) = 0
  OBVIOUS
<1>14. c # <<>> => 1 \in DOMAIN c
  BY <1>3
<1> HIDE DEF c, n, d
<1>15. \A i \in DOMAIN d : /\ d[i] \in DOMAIN log'
                          /\ i \in log'[d[i]].steps
                          /\ Attributed(log'[d[i]]) /\ Key(log'[d[i]]) = k
  <2>1. ASSUME NEW i \in DOMAIN d
        PROVE  (i \in DOMAIN c /\ d[i] = c[i]) \/ (i = Len(c) + 1 /\ d[i] = n)
    BY <1>3, <1>5
  <2> QED
    BY <2>1, <1>4, <1>7, <1>8, <1>9
<1>16. \A i, j \in DOMAIN d : i < j => d[i] < d[j]
  <2>1. SUFFICES ASSUME NEW i \in DOMAIN d, NEW j \in DOMAIN d, i < j
                 PROVE  d[i] < d[j]
    OBVIOUS
  <2>2. i \in DOMAIN c
    BY <2>1, <1>3, <1>5
  <2>3. CASE j \in DOMAIN c
    BY <2>1, <2>2, <2>3, <1>5, <1>9
  <2>4. CASE j = Len(c) + 1
    BY <2>2, <2>4, <1>5, <1>7
  <2> QED
    BY <2>3, <2>4, <1>3, <1>5
<1>17. progress'[k].first = log'[d[1]].ts
  <2>1. CASE c = <<>>
    BY <2>1, <1>4, <1>5, <1>6, <1>13
  <2>2. CASE c # <<>>
    BY <2>2, <1>14, <1>5, <1>6, <1>7, <1>9
  <2> QED
    BY <2>1, <2>2
<1>18. ASSUME NEW i \in DOMAIN d
       PROVE  \/ seq.within = NoWindow \/ log'[d[1]].ts = NoTime
              \/ log'[d[i]].ts = NoTime
              \/ log'[d[i]].ts - log'[d[1]].ts <= seq.within
  <2>1. CASE i \in DOMAIN c
    <3>1. 1 \in DOMAIN c
      BY <2>1, <1>3
    <3>2. d[i] = c[i] /\ d[1] = c[1]
      BY <2>1, <3>1, <1>5
    <3> QED
      BY <2>1, <3>1, <3>2, <1>7, <1>9
  <2>2. CASE i = Len(c) + 1
    <3>1. log'[d[i]].ts = e.ts
      BY <2>2, <1>4, <1>5
    <3>2. CASE c = <<>>
      <4>1. i = 1 /\ log'[d[1]].ts = e.ts
        BY <3>1, <3>2, <2>2, <1>13
      <4>2. e.ts - e.ts = 0
        BY <1>11
      <4> QED
        BY <3>1, <4>1, <4>2, ObjectiveTypes
    <3>3. CASE c # <<>>
      <4>1. log'[d[1]].ts = progress[k].first
        BY <3>3, <1>6, <1>17
      <4>2. \/ e.ts = NoTime \/ progress[k].first = NoTime
            \/ seq.within = NoWindow
            \/ e.ts - progress[k].first <= seq.within
        BY <3>3, <1>11, <1>12, ObjectiveTypes
      <4> QED
        BY <3>1, <4>1, <4>2
    <3> QED
      BY <3>2, <3>3
  <2> QED
    BY <2>1, <2>2, <1>3, <1>5
<1>19. Chain(progress[k].chain, k)'
  BY <1>4, <1>6, <1>15, <1>16 DEF Chain, Attributed, Key
<1>20. InWindow(progress[k].chain)'
  BY <1>4, <1>6, <1>18 DEF InWindow
<1>21. winner' = <<>> => Len(d) < seq.steps
  BY <1>3, <1>5, <1>9, <1>10, ObjectiveTypes
<1>22. Machine(k)'
  BY <1>4, <1>6, <1>17, <1>19, <1>20, <1>21 DEF Machine
<1>23. Len(progress'[k].chain) = Len(progress[k].chain) + 1
  BY <1>5, <1>6 DEF c
<1> QED
  BY <1>5, <1>6, <1>10, <1>22, <1>23

(* A machine whose event comes too late holds that event or nothing.       *)
LEMMA Expired ==
  ASSUME ScoreTypeOK, NEW e \in Events, Expire(e), NEW k \in Keys, k = Key(e),
         Machine(k)
  PROVE  Machine(k)'
<1> DEFINE n == Len(log) + 1
<1>1. Read(e) /\ Attributed(e) /\ winner = <<>> /\ progress[k].chain # <<>>
      /\ seq.within # NoWindow
  BY DEF Expire, Matches, TooSlow
<1>2. n \in Nat \ {0} /\ n \in DOMAIN log' /\ log'[n] = e /\ seq' = seq
  BY <1>1, ReadFacts
<1>3. e.ts \in Int
  BY EventTypes DEF NoTime
<1>4. seq.steps > 1
  <2>1. /\ Len(progress[k].chain) < seq.steps
        /\ progress[k].chain \in Seq(Nat \ {0})
    BY <1>1 DEF Machine, ScoreTypeOK
  <2> QED
    BY <1>1, <2>1, ObjectiveTypes
<1>5. CASE 1 \in e.steps
  <2>1. progress'[k] = [chain |-> <<n>>, first |-> e.ts]
    BY <1>5 DEF Expire, ScoreTypeOK
  <2>2. DOMAIN <<n>> = {1} /\ <<n>>[1] = n /\ Len(<<n>>) = 1
    OBVIOUS
  <2>3. e.ts - e.ts = 0
    BY <1>3
  <2> HIDE DEF n
  <2>4. Chain(progress[k].chain, k)'
    BY <1>1, <1>2, <1>5, <2>1, <2>2 DEF Chain, Attributed, Key
  <2>5. InWindow(progress[k].chain)'
    BY <1>1, <1>2, <2>1, <2>2, <2>3, ObjectiveTypes DEF InWindow
  <2> QED
    BY <1>2, <1>4, <2>1, <2>2, <2>4, <2>5, ObjectiveTypes DEF Machine
<1>6. CASE 1 \notin e.steps
  <2>1. progress'[k] = Blank
    BY <1>6 DEF Expire, ScoreTypeOK
  <2>2. DOMAIN <<>> = {} /\ Len(<<>>) = 0
    OBVIOUS
  <2>3. Chain(progress[k].chain, k)' /\ InWindow(progress[k].chain)'
    BY <2>1, <2>2 DEF Chain, InWindow, Blank
  <2> QED
    BY <1>2, <1>4, <2>1, <2>2, <2>3, ObjectiveTypes DEF Machine, Blank
<1> QED
  BY <1>5, <1>6

(* Every machine keeps its promise ...                                     *)
LEMMA MachineStep ==
  ASSUME ScoreTypeOK, [Next]_vars, NEW k \in Keys, Machine(k)
  PROVE  Machine(k)'
<1>1. ASSUME NEW e \in Events, Skip(e)
      PROVE  Machine(k)'
  BY <1>1, MachineKept DEF Skip
<1>2. ASSUME NEW e \in Events, Advance(e)
      PROVE  Machine(k)'
  <2>1. CASE k = Key(e)
    BY <1>2, <2>1, Advanced
  <2>2. CASE k # Key(e)
    <3>1. progress'[k] = progress[k] /\ Read(e) /\ winner = <<>>
      BY <1>2, <2>2 DEF Advance, ScoreTypeOK
    <3> QED
      BY <3>1, MachineKept
  <2> QED
    BY <2>1, <2>2
<1>3. ASSUME NEW e \in Events, Expire(e)
      PROVE  Machine(k)'
  <2>1. CASE k = Key(e)
    BY <1>3, <2>1, Expired
  <2>2. CASE k # Key(e)
    <3>1. progress'[k] = progress[k] /\ Read(e) /\ winner = <<>>
      BY <1>3, <2>2 DEF Expire, ScoreTypeOK
    <3> QED
      BY <3>1, MachineKept
  <2> QED
    BY <2>1, <2>2
<1>4. ASSUME NEW e \in Events, ReadOn(e)
      PROVE  Machine(k)'
  BY <1>4, MachineKept DEF ReadOn
<1>5. CASE UNCHANGED vars
  BY <1>5 DEF vars, Machine, Chain, InWindow, Attributed, Key
<1> QED
  BY <1>1, <1>2, <1>3, <1>4, <1>5 DEF Next

(* ... and a winner is the chain of one of them.                           *)
LEMMA ReportedStep ==
  ASSUME ScoreTypeOK, [Next]_vars, \A k \in Keys : Machine(k), Reported
  PROVE  Reported'
<1>1. ASSUME NEW e \in Events, Skip(e)
      PROVE  Reported'
  BY <1>1 DEF Skip, Read, Reported
<1>2. ASSUME NEW e \in Events, Advance(e)
      PROVE  Reported'
  <2>1. Key(e) \in Keys /\ seq' = seq
    BY <1>2, EventTypes DEF Advance, Read
  <2>2. PICK k \in Keys : k = Key(e)
    BY <2>1
  <2>3. winner' # <<>> =>
          winner' = progress'[k].chain /\ Len(winner') = seq.steps
    BY <1>2, <2>2, Advanced
  <2> QED
    BY <2>1, <2>3 DEF Reported
<1>3. ASSUME NEW e \in Events, Expire(e)
      PROVE  Reported'
  BY <1>3 DEF Expire, Read, Reported
<1>4. ASSUME NEW e \in Events, ReadOn(e)
      PROVE  Reported'
  BY <1>4 DEF ReadOn, Read, Reported
<1>5. CASE UNCHANGED vars
  BY <1>5 DEF vars, Reported
<1> QED
  BY <1>1, <1>2, <1>3, <1>4, <1>5 DEF Next
-----------------------------------------------------------------------------
(* One turn of the scan without a window: a chain of the longer log either *)
(* was one before, or ends at the event just read, which its machine then  *)
(* takes unless it is ahead already.                                       *)
LEMMA GreedyTurn ==
  ASSUME ScoreTypeOK, Greedy, NEW e \in Events, Read(e),
         winner = <<>>, seq.within = NoWindow,
         NEW k \in Keys, Machine(k),
         Len(progress'[k].chain) >= Len(progress[k].chain),
         Len(progress'[k].chain) \in Nat,
         Matches(e) /\ Key(e) = k =>
           Len(progress'[k].chain) = Len(progress[k].chain) + 1,
         NEW n \in Nat, NEW c \in [1 .. n -> DOMAIN log'], Chain(c, k)'
  PROVE  n <= Len(progress'[k].chain)
<1>1. /\ DOMAIN log = 1 .. Len(log) /\ DOMAIN log' = 1 .. (Len(log) + 1)
      /\ Len(log) \in Nat /\ seq' = seq /\ log'[Len(log) + 1] = e
      /\ \A i \in DOMAIN log : log'[i] = log[i]
  BY ReadFacts
<1>2. /\ \A i \in 1 .. n : /\ c[i] \in 1 .. (Len(log) + 1)
                          /\ i \in log'[c[i]].steps
                          /\ Attributed(log'[c[i]]) /\ Key(log'[c[i]]) = k
      /\ \A i, j \in 1 .. n : i < j => c[i] < c[j]
  BY <1>1 DEF Chain, Attributed, Key
<1>3. Len(progress[k].chain) \in Nat
  BY DEF ScoreTypeOK
<1>4. ASSUME NEW m \in Nat, m <= n, \A i \in 1 .. m : c[i] # Len(log) + 1
      PROVE  m <= Len(progress[k].chain)
  <2> DEFINE b == [i \in 1 .. m |-> c[i]]
  <2>1. \A i \in 1 .. m : /\ i \in 1 .. n /\ b[i] = c[i] /\ c[i] \in DOMAIN log
                        /\ log'[c[i]] = log[c[i]]
    BY <1>1, <1>2, <1>4
  <2>2. b \in [1 .. m -> DOMAIN log] /\ DOMAIN b = 1 .. m
    BY <2>1
  <2>3. \A i \in 1 .. m : /\ b[i] \in DOMAIN log /\ i \in log[b[i]].steps
                        /\ Attributed(log[b[i]]) /\ Key(log[b[i]]) = k
    BY <1>2, <2>1
  <2>4. \A i, j \in 1 .. m : i < j => b[i] < b[j]
    BY <1>2, <2>1
  <2> HIDE DEF b
  <2>5. Chain(b, k)
    BY <2>2, <2>3, <2>4 DEF Chain
  <2> QED
    BY <2>2, <2>5 DEF Greedy
<1>5. CASE n = 0
  BY <1>5
<1>6. CASE n # 0 /\ c[n] # Len(log) + 1
  <2>1. ASSUME NEW i \in 1 .. n PROVE c[i] # Len(log) + 1
    <3>1. n \in 1 .. n /\ (i = n \/ i < n)
      BY <1>6
    <3>2. c[i] \in Int /\ c[n] \in Int /\ c[n] <= Len(log) + 1
      BY <1>1, <1>2, <3>1
    <3>3. CASE i = n
      BY <3>3, <1>6
    <3>4. CASE i < n
      BY <3>1, <3>2, <3>4, <1>1, <1>2
    <3> QED
      BY <3>1, <3>3, <3>4
  <2> QED
    BY <1>3, <1>4, <2>1
<1>7. CASE n # 0 /\ c[n] = Len(log) + 1
  <2>1. n \in 1 .. n /\ n - 1 \in Nat
    BY <1>7
  <2>2. ASSUME NEW i \in 1 .. (n - 1) PROVE c[i] # Len(log) + 1
    <3>1. i \in 1 .. n /\ i < n
      OBVIOUS
    <3>2. c[i] < c[n] /\ c[i] \in Int
      BY <2>1, <3>1, <1>1, <1>2
    <3> QED
      BY <3>2, <1>7, <1>1
  <2>3. n - 1 <= Len(progress[k].chain)
    BY <2>1, <2>2, <1>4
  <2>4. n \in e.steps /\ Attributed(e) /\ Key(e) = k
    BY <2>1, <1>1, <1>2, <1>7
  <2>5. CASE n - 1 = Len(progress[k].chain)
    <3>1. Matches(e)
      BY <2>4, <2>5, <1>3 DEF Matches, Waiting
    <3> QED
      BY <2>4, <2>5, <3>1, <1>3
  <2>6. CASE n - 1 # Len(progress[k].chain)
    BY <2>3, <2>6, <1>3
  <2> QED
    BY <2>5, <2>6
<1> QED
  BY <1>5, <1>6, <1>7

LEMMA GreedyStep ==
  ASSUME ScoreTypeOK, [Next]_vars, \A k \in Keys : Machine(k), Greedy
  PROVE  Greedy'
<1>1. SUFFICES ASSUME winner' = <<>>, seq'.within = NoWindow,
                      NEW k \in Keys, NEW n \in Nat,
                      NEW c \in [1 .. n -> DOMAIN log'], Chain(c, k)'
               PROVE  n <= Len(progress'[k].chain)
  BY DEF Greedy, Keys
<1>2. Len(progress[k].chain) \in Nat
  BY DEF ScoreTypeOK
<1>3. ASSUME NEW e \in Events, Skip(e)
      PROVE  n <= Len(progress'[k].chain)
  <2>1. Read(e) /\ ~Matches(e) /\ progress' = progress /\ winner = <<>>
    BY <1>3 DEF Skip
  <2>2. seq.within = NoWindow
    BY <1>1, <2>1 DEF Read
  <2> QED
    BY <1>1, <1>2, <2>1, <2>2, GreedyTurn
<1>4. ASSUME NEW e \in Events, Advance(e)
      PROVE  n <= Len(progress'[k].chain)
  <2>1. Read(e) /\ winner = <<>>
    BY <1>4 DEF Advance
  <2>2. seq.within = NoWindow
    BY <1>1, <2>1 DEF Read
  <2>3. Key(e) = k => Len(progress'[k].chain) = Len(progress[k].chain) + 1
    BY <1>4, Advanced
  <2>4. Key(e) # k => progress'[k] = progress[k]
    BY <1>4 DEF Advance, ScoreTypeOK
  <2>5. /\ Len(progress'[k].chain) \in Nat
        /\ Len(progress'[k].chain) >= Len(progress[k].chain)
    BY <1>2, <2>3, <2>4
  <2> QED
    BY <1>1, <2>1, <2>2, <2>3, <2>5, GreedyTurn
<1>5. ASSUME NEW e \in Events, Expire(e)
      PROVE  FALSE
  BY <1>1, <1>5 DEF Expire, TooSlow, Read
<1>6. ASSUME NEW e \in Events, ReadOn(e)
      PROVE  FALSE
  BY <1>1, <1>6 DEF ReadOn
<1>7. CASE UNCHANGED vars
  BY <1>1, <1>7 DEF vars, Greedy, Chain, Attributed, Key
<1> QED
  BY <1>3, <1>4, <1>5, <1>6, <1>7 DEF Next
-----------------------------------------------------------------------------
LEMMA IInvInit == Init => IInv
<1> SUFFICES ASSUME Init PROVE IInv
  OBVIOUS
<1>1. ScoreTypeOK
  BY TypeInit
<1>2. ASSUME NEW k \in Keys PROVE Machine(k)
  <2>1. progress[k].chain = <<>> /\ DOMAIN <<>> = {} /\ Len(<<>>) = 0
    BY DEF Init, Blank
  <2> QED
    BY <1>1, <2>1, ObjectiveTypes DEF Machine, Chain, InWindow
<1>3. Reported
  BY DEF Init, Reported
<1>4. Greedy
  <2>1. DOMAIN log = {}
    BY DEF Init
  <2>2. ASSUME NEW k \in Keys, NEW n \in Nat, NEW c \in [1 .. n -> DOMAIN log]
        PROVE  n <= Len(progress[k].chain)
    <3>1. n = 0
      <4>1. CASE n # 0
        <5>1. 1 \in 1 .. n
          BY <4>1
        <5> QED
          BY <5>1, <2>1
      <4> QED
        BY <4>1
    <3>2. Len(progress[k].chain) = 0
      BY DEF Init, Blank
    <3> QED
      BY <3>1, <3>2
  <2> QED
    BY <2>2 DEF Greedy
<1> QED
  BY <1>1, <1>2, <1>3, <1>4 DEF IInv

LEMMA IInvStep == IInv /\ [Next]_vars => IInv'
<1> SUFFICES ASSUME IInv, [Next]_vars PROVE IInv'
  OBVIOUS
<1>1. ScoreTypeOK'
  BY TypeStep DEF IInv
<1>2. \A k \in Keys : Machine(k)'
  BY MachineStep DEF IInv
<1>3. Reported'
  BY ReportedStep DEF IInv
<1>4. Greedy'
  BY GreedyStep DEF IInv
<1> QED
  BY <1>1, <1>2, <1>3, <1>4 DEF IInv, Keys

LEMMA IInvariant == Spec => []IInv
BY IInvInit, IInvStep, PTL DEF Spec
-----------------------------------------------------------------------------
(* The scans keep their types, on any log.                                 *)
THEOREM TypeCorrect == Spec => []ScoreTypeOK
<1>1. IInv => ScoreTypeOK
  BY DEF IInv
<1> QED
  BY <1>1, IInvariant, PTL

(* Soundness of _eval_sequence: what it reports as a completed kill chain  *)
(* is in the log, step by step, in order, of one source and inside its     *)
(* window.                                                                 *)
THEOREM Sound == Spec => []WinnerIsKillChain
<1>1. ASSUME IInv PROVE WinnerIsKillChain
  BY <1>1 DEF IInv, Reported, Machine, WinnerIsKillChain
<1> QED
  BY <1>1, IInvariant, PTL

(* Completeness of _eval_sequence without `within`: no kill chain of the   *)
(* log goes unreported.                                                    *)
THEOREM Complete == Spec => []UnwindowedChainFound
<1>1. ASSUME IInv PROVE UnwindowedChainFound
  <2>1. SUFFICES ASSUME seq.within = NoWindow, winner = <<>>,
                        NEW k \in Keys, NEW c \in IncreasingSeq, Chain(c, k)
                 PROVE  FALSE
    BY DEF UnwindowedChainFound
  <2>2. seq.steps \in Nat /\ c \in [1 .. seq.steps -> DOMAIN log]
    <3>1. c \in [Steps -> 1 .. MaxEvents] /\ DOMAIN c = Steps
      BY DEF IncreasingSeq
    <3>2. \A i \in Steps : c[i] \in DOMAIN log
      BY <2>1, <3>1 DEF Chain
    <3> QED
      BY <1>1, <3>1, <3>2, ObjectiveTypes DEF IInv, Steps
  <2>3. seq.steps <= Len(progress[k].chain)
    BY <1>1, <2>1, <2>2 DEF IInv, Greedy
  <2>4. Len(progress[k].chain) < seq.steps /\ Len(progress[k].chain) \in Nat
    BY <1>1, <2>1 DEF IInv, Machine, ScoreTypeOK
  <2> QED
    BY <2>2, <2>3, <2>4
<1> QED
  BY <1>1, IInvariant, PTL
-----------------------------------------------------------------------------
(* The number of the first match is set once, and no event is number 0.    *)
LEMMA DetectKeeps ==
  ASSUME ScoreTypeOK, NEW e \in Events, Read(e)
  PROVE  detected.first # 0 => detected'.first = detected.first
<1>1. CASE e.signal
  BY <1>1 DEF Read, Detect
<1>2. CASE ~e.signal
  BY <1>2 DEF Read, Detect
<1> QED
  BY <1>1, <1>2

LEMMA ScansKeep ==
  ASSUME ScoreTypeOK, [Next]_vars
  PROVE  /\ detected.first # 0 => detected'.first = detected.first
         /\ winner # <<>> => winner' = winner
<1>1. ASSUME NEW e \in Events, Skip(e)
      PROVE  Read(e) /\ winner' = winner
  BY <1>1 DEF Skip
<1>2. ASSUME NEW e \in Events, Advance(e)
      PROVE  Read(e) /\ winner = <<>>
  BY <1>2 DEF Advance
<1>3. ASSUME NEW e \in Events, Expire(e)
      PROVE  Read(e) /\ winner' = winner
  BY <1>3 DEF Expire
<1>4. ASSUME NEW e \in Events, ReadOn(e)
      PROVE  Read(e) /\ winner' = winner
  BY <1>4 DEF ReadOn
<1>5. CASE UNCHANGED vars
  BY <1>5 DEF vars
<1> QED
  BY <1>1, <1>2, <1>3, <1>4, <1>5, DetectKeeps DEF Next

(* A longer log never takes a verdict back: an objective that is met stays *)
(* met, by a signal if by a signal, first seen at the same event, and a    *)
(* completed kill chain stays the one that was reported.                   *)
THEOREM Monotone == Spec => MetStaysMet
<1>1. ASSUME ScoreTypeOK, [Next]_vars
      PROVE  /\ Verdict # "unmet" => Verdict' # "unmet"
             /\ Verdict = "signal" => /\ Verdict' = "signal"
                                      /\ detected'.first = detected.first
             /\ winner # <<>> => winner' = winner
  BY <1>1, ScansKeep DEF Verdict
<1>2. ScoreTypeOK /\ [Next]_vars =>
        [/\ Verdict # "unmet" => Verdict' # "unmet"
         /\ Verdict = "signal" => Verdict' = "signal" /\ detected'.first = detected.first
         /\ winner # <<>> => winner' = winner]_vars
  BY <1>1
<1> QED
  BY <1>2, TypeCorrect, PTL DEF Spec, MetStaysMet
-----------------------------------------------------------------------------
-----------------------------------------------------------------------------
(* The evaluator, call by call.                                            *)
ParseBody(text, hit, f, n) ==
  [call \in Levels \X (1 .. Len(text) + 1) |->
     IF n = 0 THEN [val |-> FALSE, next |-> call[2]]
     ELSE Called(text, hit, f[n - 1], call[1], call[2])]
Parsed(text, hit, f) == f = [n \in 0 .. Depth(text) |-> ParseBody(text, hit, f, n)]

(* The recursion of `Evaluated` by depth exists: its last value is what    *)
(* the outermost call gives.                                               *)
LEMMA EvaluatedUnfolds ==
  ASSUME NEW text, NEW hit, Len(text) \in Nat
  PROVE  \E f : /\ Parsed(text, hit, f)
                /\ Evaluated(text, hit) = f[Depth(text)][<<"or", 1>>].val
<1> DEFINE parses == {n \in Nat : \E f : f = [i \in 0 .. n |-> ParseBody(text, hit, f, i)]}
<1>1. 0 \in parses
  <2> DEFINE f == [i \in 0 .. 0 |-> [call \in Levels \X (1 .. Len(text) + 1) |->
                                       [val |-> FALSE, next |-> call[2]]]]
  <2>1. \A i \in 0 .. 0 : f[i] = ParseBody(text, hit, f, i)
    BY DEF ParseBody
  <2>2. f = [i \in 0 .. 0 |-> ParseBody(text, hit, f, i)]
    BY <2>1
  <2> QED
    BY <2>2
<1>2. ASSUME NEW n \in parses PROVE n + 1 \in parses
  <2>1. PICK f : f = [i \in 0 .. n |-> ParseBody(text, hit, f, i)]
    OBVIOUS
  <2> DEFINE longer == [i \in 0 .. (n + 1) |-> ParseBody(text, hit, f, i)]
  <2>2. \A i \in 0 .. n : longer[i] = f[i]
    BY <2>1
  <2>3. ASSUME NEW i \in 0 .. (n + 1)
        PROVE  ParseBody(text, hit, longer, i) = ParseBody(text, hit, f, i)
    <3> HIDE DEF longer
    <3>1. CASE i = 0
      BY <3>1 DEF ParseBody
    <3>2. CASE i # 0
      <4>1. i - 1 \in 0 .. n
        BY <3>2
      <4>2. longer[i - 1] = f[i - 1]
        BY <2>2, <4>1
      <4> QED
        BY <4>2 DEF ParseBody
    <3> QED
      BY <3>1, <3>2
  <2>4. longer = [i \in 0 .. (n + 1) |-> ParseBody(text, hit, longer, i)]
    <3>1. longer = [i \in 0 .. (n + 1) |-> ParseBody(text, hit, f, i)]
      OBVIOUS
    <3> HIDE DEF longer
    <3> QED
      BY <2>3, <3>1
  <2> HIDE DEF longer
  <2> QED
    BY <2>4
<1>3. parses = Nat
  <2> HIDE DEF parses
  <2>1. parses \in SUBSET Nat
    BY DEF parses
  <2> QED
    BY <1>1, <1>2, <2>1, EveryNumber
<1>4. Depth(text) \in Nat
  BY DEF Depth
<1>5. \E f : f = [n \in 0 .. Depth(text) |-> ParseBody(text, hit, f, n)]
  BY <1>3, <1>4
<1> DEFINE parse == CHOOSE f : f = [n \in 0 .. Depth(text) |-> ParseBody(text, hit, f, n)]
<1>6. Parsed(text, hit, parse)
  BY <1>5 DEF Parsed
<1>7. Evaluated(text, hit) = parse[Depth(text)][<<"or", 1>>].val
  BY DEF Evaluated, ParseBody
<1> HIDE DEF parse
<1> QED
  BY <1>6, <1>7

EveryCall(text, hit, f) ==
  \A n \in Nat : n + 1 <= Depth(text) =>
    \A level \in Levels, p \in 1 .. Len(text) + 1 :
      f[n + 1][<<level, p>>] = Called(text, hit, f[n], level, p)

(* Every call but the deepest gives what its code makes of the next depth. *)
LEMMA ParsedCalls ==
  ASSUME NEW text, NEW hit, Len(text) \in Nat, NEW f, Parsed(text, hit, f)
  PROVE  EveryCall(text, hit, f)
<1>1. Depth(text) \in Nat
  BY DEF Depth
<1>2. ASSUME NEW n \in Nat, n + 1 <= Depth(text), NEW level \in Levels,
             NEW p \in 1 .. Len(text) + 1
      PROVE  f[n + 1][<<level, p>>] = Called(text, hit, f[n], level, p)
  <2>1. n + 1 \in 0 .. Depth(text) /\ n + 1 # 0 /\ (n + 1) - 1 = n
    BY <1>1, <1>2
  <2>2. f[n + 1] = ParseBody(text, hit, f, n + 1)
    BY <2>1 DEF Parsed
  <2>3. <<level, p>> \in Levels \X (1 .. Len(text) + 1)
    OBVIOUS
  <2> QED
    BY <2>1, <2>2, <2>3 DEF ParseBody
<1> QED
  BY <1>2 DEF EveryCall

(* Each call of the evaluator that reads a rule: what it gives follows     *)
(* from what the calls below it give.                                      *)
LEMMA ReadOr ==
  ASSUME NEW text, NEW hit, NEW f, EveryCall(text, hit, f), NEW n \in Nat,
         n + 1 <= Depth(text), NEW p \in 1 .. Len(text) + 1,
         NEW q, f[n][<<"and", p>>].next = q
  PROVE  /\ f[n + 1][<<"or", p>>].next = f[n][<<"ors", q>>].next
         /\ f[n + 1][<<"or", p>>].val <=> f[n][<<"and", p>>].val \/ f[n][<<"ors", q>>].val
<1>1. f[n + 1][<<"or", p>>] = Called(text, hit, f[n], "or", p)
  BY DEF EveryCall, Levels
<1>2. f[n + 1][<<"or", p>>] = Both(f[n], "and", p, "ors")
  BY <1>1, Zenon DEF Called
<1>3. f[n + 1][<<"or", p>>] =
        [val |-> f[n][<<"and", p>>].val \/ f[n][<<"ors", f[n][<<"and", p>>].next>>].val,
         next |-> f[n][<<"ors", f[n][<<"and", p>>].next>>].next]
  BY <1>2, Zenon DEF Both
<1>4. PICK a, r : a = f[n][<<"and", p>>] /\ r = f[n + 1][<<"or", p>>]
  OBVIOUS
<1>5. PICK b : b = f[n][<<"ors", q>>]
  OBVIOUS
<1>6. r = [val |-> a.val \/ b.val, next |-> b.next]
  BY <1>3, <1>4, <1>5
<1>7. r.next = b.next /\ (r.val <=> a.val \/ b.val)
  BY ONLY <1>6
<1> QED
  BY <1>4, <1>5, <1>7

(* "ors" where no "or" follows: false, and nothing is read.                *)
LEMMA ReadOrsEnd ==
  ASSUME NEW text, NEW hit, NEW f, EveryCall(text, hit, f), NEW n \in Nat,
         n + 1 <= Depth(text), NEW p \in 1 .. Len(text) + 1, ~IsSign(text, p, "or")
  PROVE  f[n + 1][<<"ors", p>>].next = p /\ (f[n + 1][<<"ors", p>>].val <=> FALSE)
<1>1. f[n + 1][<<"ors", p>>] = Called(text, hit, f[n], "ors", p)
  BY DEF EveryCall, Levels
<1>2. f[n + 1][<<"ors", p>>] = [val |-> FALSE, next |-> p]
  BY <1>1, Zenon DEF Called
<1> QED
  BY ONLY <1>2

(* "ors" where an "or" follows: one more disjunct, then the rest.          *)
LEMMA ReadOrs ==
  ASSUME NEW text, NEW hit, NEW f, EveryCall(text, hit, f), NEW n \in Nat,
         n + 1 <= Depth(text), NEW p \in 1 .. Len(text) + 1, IsSign(text, p, "or"),
         NEW q, f[n][<<"and", p + 1>>].next = q
  PROVE  /\ f[n + 1][<<"ors", p>>].next = f[n][<<"ors", q>>].next
         /\ f[n + 1][<<"ors", p>>].val <=> f[n][<<"and", p + 1>>].val \/ f[n][<<"ors", q>>].val
<1>1. f[n + 1][<<"ors", p>>] = Called(text, hit, f[n], "ors", p)
  BY DEF EveryCall, Levels
<1>2. f[n + 1][<<"ors", p>>] = Both(f[n], "and", p + 1, "ors")
  BY <1>1, Zenon DEF Called
<1>3. f[n + 1][<<"ors", p>>] =
        [val |-> f[n][<<"and", p + 1>>].val \/ f[n][<<"ors", f[n][<<"and", p + 1>>].next>>].val,
         next |-> f[n][<<"ors", f[n][<<"and", p + 1>>].next>>].next]
  BY <1>2, Zenon DEF Both
<1>4. PICK a, r : a = f[n][<<"and", p + 1>>] /\ r = f[n + 1][<<"ors", p>>]
  OBVIOUS
<1>5. PICK b : b = f[n][<<"ors", q>>]
  OBVIOUS
<1>6. r = [val |-> a.val \/ b.val, next |-> b.next]
  BY <1>3, <1>4, <1>5
<1>7. r.next = b.next /\ (r.val <=> a.val \/ b.val)
  BY ONLY <1>6
<1> QED
  BY <1>4, <1>5, <1>7

(* "and": a factor, then what follows it.                                  *)
LEMMA ReadAnd ==
  ASSUME NEW text, NEW hit, NEW f, EveryCall(text, hit, f), NEW n \in Nat,
         n + 1 <= Depth(text), NEW p \in 1 .. Len(text) + 1,
         NEW q, f[n][<<"not", p>>].next = q
  PROVE  /\ f[n + 1][<<"and", p>>].next = f[n][<<"ands", q>>].next
         /\ f[n + 1][<<"and", p>>].val <=> f[n][<<"not", p>>].val /\ f[n][<<"ands", q>>].val
<1>1. f[n + 1][<<"and", p>>] = Called(text, hit, f[n], "and", p)
  BY DEF EveryCall, Levels
<1>2. f[n + 1][<<"and", p>>] = Both(f[n], "not", p, "ands")
  BY <1>1, Zenon DEF Called
<1>3. f[n + 1][<<"and", p>>] =
        [val |-> f[n][<<"not", p>>].val /\ f[n][<<"ands", f[n][<<"not", p>>].next>>].val,
         next |-> f[n][<<"ands", f[n][<<"not", p>>].next>>].next]
  BY <1>2, Zenon DEF Both
<1>4. PICK a, r : a = f[n][<<"not", p>>] /\ r = f[n + 1][<<"and", p>>]
  OBVIOUS
<1>5. PICK b : b = f[n][<<"ands", q>>]
  OBVIOUS
<1>6. r = [val |-> a.val /\ b.val, next |-> b.next]
  BY <1>3, <1>4, <1>5
<1>7. r.next = b.next /\ (r.val <=> a.val /\ b.val)
  BY ONLY <1>6
<1> QED
  BY <1>4, <1>5, <1>7

(* "ands" where no "and" follows: true, and nothing is read.               *)
LEMMA ReadAndsEnd ==
  ASSUME NEW text, NEW hit, NEW f, EveryCall(text, hit, f), NEW n \in Nat,
         n + 1 <= Depth(text), NEW p \in 1 .. Len(text) + 1, ~IsSign(text, p, "and")
  PROVE  f[n + 1][<<"ands", p>>].next = p /\ (f[n + 1][<<"ands", p>>].val <=> TRUE)
<1>1. f[n + 1][<<"ands", p>>] = Called(text, hit, f[n], "ands", p)
  BY DEF EveryCall, Levels
<1>2. f[n + 1][<<"ands", p>>] = [val |-> TRUE, next |-> p]
  BY <1>1, Zenon DEF Called
<1> QED
  BY ONLY <1>2

(* "ands" where an "and" follows: one more factor, then the rest.          *)
LEMMA ReadAnds ==
  ASSUME NEW text, NEW hit, NEW f, EveryCall(text, hit, f), NEW n \in Nat,
         n + 1 <= Depth(text), NEW p \in 1 .. Len(text) + 1, IsSign(text, p, "and"),
         NEW q, f[n][<<"not", p + 1>>].next = q
  PROVE  /\ f[n + 1][<<"ands", p>>].next = f[n][<<"ands", q>>].next
         /\ f[n + 1][<<"ands", p>>].val <=> f[n][<<"not", p + 1>>].val /\ f[n][<<"ands", q>>].val
<1>1. f[n + 1][<<"ands", p>>] = Called(text, hit, f[n], "ands", p)
  BY DEF EveryCall, Levels
<1>2. f[n + 1][<<"ands", p>>] = Both(f[n], "not", p + 1, "ands")
  BY <1>1, Zenon DEF Called
<1>3. f[n + 1][<<"ands", p>>] =
        [val |-> f[n][<<"not", p + 1>>].val /\ f[n][<<"ands", f[n][<<"not", p + 1>>].next>>].val,
         next |-> f[n][<<"ands", f[n][<<"not", p + 1>>].next>>].next]
  BY <1>2, Zenon DEF Both
<1>4. PICK a, r : a = f[n][<<"not", p + 1>>] /\ r = f[n + 1][<<"ands", p>>]
  OBVIOUS
<1>5. PICK b : b = f[n][<<"ands", q>>]
  OBVIOUS
<1>6. r = [val |-> a.val /\ b.val, next |-> b.next]
  BY <1>3, <1>4, <1>5
<1>7. r.next = b.next /\ (r.val <=> a.val /\ b.val)
  BY ONLY <1>6
<1> QED
  BY <1>4, <1>5, <1>7

(* A factor that is not negated is an atom.                                *)
LEMMA ReadNot ==
  ASSUME NEW text, NEW hit, NEW f, EveryCall(text, hit, f), NEW n \in Nat,
         n + 1 <= Depth(text), NEW p \in 1 .. Len(text) + 1, ~IsSign(text, p, "not")
  PROVE  f[n + 1][<<"not", p>>] = f[n][<<"atom", p>>]
<1>1. f[n + 1][<<"not", p>>] = Called(text, hit, f[n], "not", p)
  BY DEF EveryCall, Levels
<1> QED
  BY <1>1, Zenon DEF Called

(* An atom that is a name: what the selection of that name found.          *)
LEMMA ReadName ==
  ASSUME NEW text, NEW hit, NEW f, EveryCall(text, hit, f), NEW n \in Nat,
         n + 1 <= Depth(text), NEW p \in 1 .. Len(text) + 1, ~IsSign(text, p, "(")
  PROVE  /\ f[n + 1][<<"atom", p>>].next = p + 1
         /\ f[n + 1][<<"atom", p>>].val <=> hit[text[p].at]
<1>1. f[n + 1][<<"atom", p>>] = Called(text, hit, f[n], "atom", p)
  BY DEF EveryCall, Levels
<1>2. f[n + 1][<<"atom", p>>] = [val |-> hit[text[p].at], next |-> p + 1]
  BY <1>1, Zenon DEF Called
<1> QED
  BY ONLY <1>2

(* An atom in parentheses: what is read inside, which ends at the ")".     *)
LEMMA ReadGroup ==
  ASSUME NEW text, NEW hit, NEW f, EveryCall(text, hit, f), NEW n \in Nat,
         n + 1 <= Depth(text), NEW p \in 1 .. Len(text) + 1, IsSign(text, p, "("),
         NEW q, f[n][<<"or", p + 1>>].next = q, IsSign(text, q, ")")
  PROVE  /\ f[n + 1][<<"atom", p>>].next = q + 1
         /\ f[n + 1][<<"atom", p>>].val <=> f[n][<<"or", p + 1>>].val
<1>1. f[n + 1][<<"atom", p>>] = Called(text, hit, f[n], "atom", p)
  BY DEF EveryCall, Levels
<1>2. PICK a : a = f[n][<<"or", p + 1>>]
  OBVIOUS
<1>3. a.next = q
  BY <1>2
<1>4. f[n + 1][<<"atom", p>>] =
        [val |-> a.val, next |-> IF IsSign(text, a.next, ")") THEN a.next + 1 ELSE a.next]
  BY <1>1, <1>2, Zenon DEF Called
<1>5. f[n + 1][<<"atom", p>>] = [val |-> a.val, next |-> q + 1]
  BY <1>3, <1>4, Zenon
<1> QED
  BY ONLY <1>2, <1>5

-----------------------------------------------------------------------------
(* The text of a rule.                                                     *)
Tokens == {Sign(x) : x \in {"and", "or", "(", ")"}} \cup {Name(p) : p \in Nat \X Nat}

(* A list that is joined part by part.                                     *)
JoinedBy(flat, S, parts, token, joined) ==
  /\ joined = flat[Len(parts)] /\ flat[1] = parts[1]
  /\ \A n \in 1 .. Len(parts) : /\ flat[n] \in Seq(S)
                                /\ n # 1 => flat[n] = flat[n - 1] \o (<<token>> \o parts[n])

(* `Joined` is built part by part, the sign before every part but the first. *)
LEMMA JoinedUnfolds ==
  ASSUME NEW S, NEW parts, parts \in Seq(Seq(S)), parts # <<>>, NEW sign, NEW token \in S,
         token = Sign(sign)
  PROVE  \E flat : JoinedBy(flat, S, parts, token, Joined(parts, sign))
<1>a. PICK N : N = Len(parts)
  OBVIOUS
<1>b. PICK Q : Q = Seq(S)
  OBVIOUS
<1>c. token = Sign(sign)
  OBVIOUS
<1>0. N \in Nat \ {0} /\ DOMAIN parts = 1 .. N /\ \A n \in 1 .. N : parts[n] \in Q
  BY <1>a, <1>b
<1>d. PICK ss : ss = [n \in 1 .. N |-> IF n = 1 THEN parts[n] ELSE <<token>> \o parts[n]]
  OBVIOUS
<1>1. \A n \in 1 .. N : ss[n] \in Q
  BY <1>0, <1>b, <1>c, <1>d
<1>2. ss \in Seq(Seq(S)) /\ ss # <<>> /\ Len(ss) = N
  <2>1. ss \in [1 .. N -> Q]
    BY <1>1, <1>d
  <2>2. ss \in Seq(Q) /\ Len(ss) = N
    BY <2>1, <1>0
  <2> QED
    BY <2>2, <1>0, <1>b
<1>3. PICK flat :
        /\ flat = [i \in 1 .. Len(ss) |-> IF i = 1 THEN ss[i] ELSE flat[i - 1] \o ss[i]]
        /\ FlattenSeq(ss) = flat[Len(ss)]
  BY ONLY <1>2, FlattenUnfolds
<1>4. Joined(parts, sign) = flat[N]
  <2>1. ss = [n \in DOMAIN parts |-> IF n = 1 THEN parts[n] ELSE <<Sign(sign)>> \o parts[n]]
    BY <1>0, <1>c, <1>d
  <2> QED
    BY <1>2, <1>3, <2>1 DEF Joined
<1>5. flat[1] = parts[1]
  BY <1>0, <1>2, <1>3, <1>d
<1>6. ASSUME NEW n \in 1 .. N, n # 1
      PROVE  flat[n] = flat[n - 1] \o (<<token>> \o parts[n])
  BY <1>0, <1>2, <1>3, <1>6, <1>d
<1> DEFINE typed == {m \in Nat : m + 1 <= N => flat[m + 1] \in Q}
<1>7. typed = Nat
  <2>1. 0 \in typed
    BY <1>0, <1>5
  <2>2. ASSUME NEW m \in typed PROVE m + 1 \in typed
    <3> SUFFICES ASSUME (m + 1) + 1 <= N PROVE flat[(m + 1) + 1] \in Q
      OBVIOUS
    <3>1. /\ m \in Nat /\ (m + 1) + 1 \in 1 .. N /\ (m + 1) + 1 # 1
          /\ ((m + 1) + 1) - 1 = m + 1
      BY <1>0
    <3>2. flat[m + 1] \in Q
      BY <1>0
    <3>3. parts[(m + 1) + 1] \in Q
      BY <1>0, <3>1
    <3>4. flat[(m + 1) + 1] = flat[m + 1] \o (<<token>> \o parts[(m + 1) + 1])
      BY <1>6, <3>1
    <3> HIDE DEF typed
    <3>5. <<token>> \o parts[(m + 1) + 1] \in Q
      BY <1>b, <1>c, <3>3
    <3> QED
      BY <1>b, <3>2, <3>4, <3>5
  <2>3. typed \in SUBSET Nat
    OBVIOUS
  <2> HIDE DEF typed
  <2> QED
    BY <2>1, <2>2, <2>3, EveryNumber
<1>8. ASSUME NEW n \in 1 .. N PROVE flat[n] \in Q
  <2>1. n - 1 \in Nat /\ (n - 1) + 1 = n /\ n <= N
    BY <1>0
  <2>2. n - 1 \in typed
    BY ONLY <1>7, <2>1
  <2> QED
    BY <2>1, <2>2
<1> QED
  BY <1>4, <1>5, <1>6, <1>8, <1>a, <1>b DEF JoinedBy

(* What the compiled condition is made of are tokens.                      *)
LEMMA TokenFacts ==
  /\ \A x \in {"and", "or", "(", ")"} : Sign(x) \in Tokens
  /\ \A s \in Nat, i \in Nat : Name(<<s, i>>) \in Tokens
<1>1. ASSUME NEW s \in Nat, NEW i \in Nat PROVE Name(<<s, i>>) \in Tokens
  <2>1. <<s, i>> \in Nat \X Nat
    OBVIOUS
  <2> QED
    BY <2>1 DEF Tokens
<1> QED
  BY <1>1 DEF Tokens

(* The names of one signal, with "and" between them.                       *)
Names(T, s, n) ==
  /\ T \in Seq(Tokens) /\ Len(T) = 2 * n - 1
  /\ \A i \in 1 .. n : T[2 * i - 1] = Name(<<s, i>>)
  /\ \A i \in 1 .. n - 1 : T[2 * i] = Sign("and")

(* The condition compiled from one signal: its names in order.             *)
LEMMA NamesText ==
  ASSUME NEW s \in Nat, NEW C \in Nat \ {0}, NEW T,
         T = Joined([i \in 1 .. C |-> <<Name(<<s, i>>)>>], "and")
  PROVE  Names(T, s, C)
<1>a. PICK name : name = [i \in 1 .. C |-> Name(<<s, i>>)]
  OBVIOUS
<1>b. PICK parts : parts = [i \in 1 .. C |-> <<Name(<<s, i>>)>>]
  OBVIOUS
<1>e. PICK word : word = "and"
  OBVIOUS
<1>c. PICK conj : conj = Sign(word)
  OBVIOUS
<1>d. PICK Q : Q = Tokens
  OBVIOUS
<1>1. conj \in Q /\ \A i \in 1 .. C : name[i] \in Q /\ parts[i] = <<name[i]>>
  <2>1. conj \in Q
    <3>1. word \in {"and", "or", "(", ")"}
      BY <1>e
    <3> QED
      BY <3>1, TokenFacts, <1>c, <1>d
  <2>2. ASSUME NEW i \in 1 .. C PROVE name[i] \in Q /\ parts[i] = <<name[i]>>
    <3>1. i \in Nat
      OBVIOUS
    <3>2. Name(<<s, i>>) \in Q
      BY <3>1, TokenFacts, <1>d
    <3> QED
      BY <3>2, <1>a, <1>b
  <2> QED
    BY <2>1, <2>2
<1>2. parts \in Seq(Seq(Q)) /\ parts # <<>> /\ Len(parts) = C
  <2>1. ASSUME NEW i \in 1 .. C PROVE parts[i] \in Seq(Q)
    <3>1. parts[i] = <<name[i]>> /\ name[i] \in Q
      BY <1>1
    <3> QED
      BY ONLY <3>1
  <2>2. parts \in [1 .. C -> Seq(Q)]
    BY <1>b, <2>1
  <2> QED
    BY <2>2
<1>3. PICK flat :
        /\ T = flat[C] /\ flat[1] = parts[1]
        /\ \A n \in 1 .. C : /\ flat[n] \in Seq(Q)
                             /\ n # 1 => flat[n] = flat[n - 1] \o (<<conj>> \o parts[n])
  <2>1. conj \in Q /\ conj = Sign(word)
    BY <1>1, <1>c
  <2>2. PICK flat : JoinedBy(flat, Q, parts, conj, Joined(parts, word))
    <3>1. parts \in Seq(Seq(Q))
      BY <1>2
    <3>2. parts # <<>>
      BY <1>2
    <3> QED
      BY ONLY <3>1, <3>2, <2>1, JoinedUnfolds
  <2>3. T = Joined(parts, word)
    BY <1>b, <1>e
  <2> QED
    BY <2>2, <2>3, <1>2 DEF JoinedBy
<1> DEFINE Fine(n) == /\ Len(flat[n]) = 2 * n - 1
                      /\ \A i \in 1 .. n : flat[n][2 * i - 1] = name[i]
                      /\ \A i \in 1 .. n - 1 : flat[n][2 * i] = conj
           fine == {m \in Nat : m + 1 <= C => Fine(m + 1)}
<1>4. Fine(1)
  <2>1. flat[1] = <<name[1]>>
    BY <1>1, <1>3
  <2>2. Len(flat[1]) = 1 /\ flat[1][1] = name[1]
    BY <2>1
  <2>3. (\A i : i \in 1 .. 1 <=> i = 1) /\ 1 .. 1 - 1 = {} /\ 2 * 1 - 1 = 1
    OBVIOUS
  <2> QED
    BY <2>2, <2>3
<1>5. ASSUME NEW m \in Nat, m + 2 <= C, Fine(m + 1) PROVE Fine(m + 2)
  <2>0. /\ m + 1 \in 1 .. C /\ m + 2 \in 1 .. C /\ m + 2 # 1 /\ (m + 2) - 1 = m + 1
        /\ 2 * (m + 1) - 1 = 2 * m + 1
    BY <1>5
  <2>1. PICK x, y, z : x = flat[m + 1] /\ y = <<name[m + 2]>> /\ z = flat[m + 2]
    OBVIOUS
  <2>2. x \in Seq(Q) /\ y \in Seq(Q) /\ Len(y) = 1 /\ y[1] = name[m + 2]
    <3>1. x \in Seq(Q)
      BY <1>3, <2>0, <2>1
    <3>2. y = <<name[m + 2]>> /\ name[m + 2] \in Q
      BY <1>1, <2>0, <2>1
    <3>3. y \in Seq(Q) /\ Len(y) = 1 /\ y[1] = name[m + 2]
      BY ONLY <3>2
    <3> QED
      BY <3>1, <3>3
  <2>3. z = x \o (<<conj>> \o y)
    BY <1>1, <1>3, <2>0, <2>1
  <2>4. /\ Len(x) = 2 * m + 1 /\ \A i \in 1 .. m + 1 : x[2 * i - 1] = name[i]
        /\ \A i \in 1 .. m : x[2 * i] = conj
    BY <1>5, <2>0, <2>1
  <2>5. /\ Len(z) = Len(x) + 1 + Len(y) /\ \A j \in 1 .. Len(x) : z[j] = x[j]
        /\ z[Len(x) + 1] = conj /\ \A j \in 1 .. Len(y) : z[Len(x) + 1 + j] = y[j]
    <3>1. x \in Seq(Q) /\ y \in Seq(Q) /\ conj \in Q
      BY <1>1, <2>2
    <3> QED
      BY ONLY <3>1, <2>3, ListExtended DEF Extension
  <2>6. Len(z) = 2 * (m + 2) - 1 /\ z[2 * m + 2] = conj /\ z[2 * m + 3] = name[m + 2]
    <3>1. /\ Len(x) + 1 = 2 * m + 2 /\ Len(x) + 1 + 1 = 2 * m + 3 /\ 1 \in 1 .. Len(y)
          /\ Len(x) + 1 + Len(y) = 2 * (m + 2) - 1
      BY <2>2, <2>4
    <3> QED
      BY <2>2, <2>5, <3>1
  <2>7. ASSUME NEW i \in 1 .. m + 2 PROVE z[2 * i - 1] = name[i]
    <3>1. CASE i = m + 2
      <4>1. 2 * i - 1 = 2 * m + 3
        BY <3>1
      <4> QED
        BY <2>6, <3>1, <4>1
    <3>2. CASE i # m + 2
      <4>1. i \in 1 .. m + 1 /\ 2 * i - 1 \in 1 .. Len(x)
        BY <2>4, <3>2
      <4> QED
        BY <2>4, <2>5, <4>1
    <3> QED
      BY <3>1, <3>2
  <2>8. ASSUME NEW i \in 1 .. m + 1 PROVE z[2 * i] = conj
    <3>1. CASE i = m + 1
      <4>1. 2 * i = 2 * m + 2
        BY <3>1
      <4> QED
        BY <2>6, <4>1
    <3>2. CASE i # m + 1
      <4>1. i \in 1 .. m /\ 2 * i \in 1 .. Len(x)
        BY <2>4, <3>2
      <4> QED
        BY <2>4, <2>5, <4>1
    <3> QED
      BY <3>1, <3>2
  <2>9. (m + 2) - 1 = m + 1
    OBVIOUS
  <2> QED
    BY <2>1, <2>6, <2>7, <2>8, <2>9
<1>6. fine = Nat
  <2>1. 0 \in fine
    <3>1. 0 + 1 = 1
      OBVIOUS
    <3> HIDE DEF Fine
    <3> QED
      BY <1>4, <3>1
  <2>2. ASSUME NEW m \in fine PROVE m + 1 \in fine
    <3> SUFFICES ASSUME (m + 1) + 1 <= C PROVE Fine((m + 1) + 1)
      OBVIOUS
    <3>1. m \in Nat /\ m + 1 <= C /\ m + 2 <= C /\ (m + 1) + 1 = m + 2
      OBVIOUS
    <3>2. Fine(m + 1)
      BY <3>1
    <3> HIDE DEF Fine, fine
    <3> QED
      BY <1>5, <3>1, <3>2
  <2>3. fine \in SUBSET Nat
    OBVIOUS
  <2> HIDE DEF fine
  <2> QED
    BY <2>1, <2>2, <2>3, EveryNumber
<1>7. Fine(C)
  <2>1. C - 1 \in Nat /\ (C - 1) + 1 = C
    OBVIOUS
  <2>2. C - 1 \in fine
    BY ONLY <1>6, <2>1
  <2> HIDE DEF Fine
  <2> QED
    BY <2>1, <2>2
<1>8. T \in Seq(Tokens)
  <2>1. C \in 1 .. C
    OBVIOUS
  <2> QED
    BY <1>3, <1>d, <2>1
<1>9. \A i \in 1 .. C : name[i] = Name(<<s, i>>)
  BY <1>a
<1> QED
  BY <1>3, <1>7, <1>8, <1>9, <1>c, <1>e DEF Names

(* A signal at a place of a text: its n names in parentheses.              *)
Block(text, b, s, n) ==
  /\ text[b] = Sign("(") /\ text[b + 2 * n] = Sign(")")
  /\ \A i \in 1 .. n : text[b + (2 * i - 1)] = Name(<<s, i>>)
  /\ \A i \in 1 .. n - 1 : text[b + 2 * i] = Sign("and")

(* ... and in its parentheses.                                             *)
LEMMA PartText ==
  ASSUME NEW s \in Nat, NEW C \in Nat \ {0}, NEW Y,
         Y = <<Sign("(")>> \o Joined([i \in 1 .. C |-> <<Name(<<s, i>>)>>], "and")
               \o <<Sign(")")>>
  PROVE  Y \in Seq(Tokens) /\ Len(Y) = 2 * C + 1 /\ Block(Y, 1, s, C)
<1>1. PICK T : T = Joined([i \in 1 .. C |-> <<Name(<<s, i>>)>>], "and")
  OBVIOUS
<1>2. PICK a, z : a = Sign("(") /\ z = Sign(")")
  OBVIOUS
<1>3. PICK Q : Q = Tokens
  OBVIOUS
<1>4. /\ T \in Seq(Q) /\ Len(T) = 2 * C - 1
      /\ \A i \in 1 .. C : T[2 * i - 1] = Name(<<s, i>>)
      /\ \A i \in 1 .. C - 1 : T[2 * i] = Sign("and")
  <2>1. Names(T, s, C)
    BY ONLY s \in Nat, C \in Nat \ {0}, <1>1, NamesText
  <2> QED
    BY <2>1, <1>3 DEF Names
<1>5. a \in Q /\ z \in Q
  BY <1>2, <1>3, TokenFacts
<1>6. Y = <<a>> \o T \o <<z>>
  BY <1>1, <1>2
<1>7. /\ Y \in Seq(Q) /\ Len(Y) = Len(T) + 2 /\ Y[1] = a /\ Y[Len(T) + 2] = z
      /\ \A j \in 1 .. Len(T) : Y[1 + j] = T[j]
  <2>1. T \in Seq(Q)
    BY <1>4
  <2> QED
    BY ONLY <2>1, <1>5, <1>6, Wrapped
<1>8. Len(Y) = 2 * C + 1 /\ Len(T) + 2 = 1 + 2 * C
  BY <1>4, <1>7
<1>9. ASSUME NEW i \in 1 .. C PROVE Y[1 + (2 * i - 1)] = Name(<<s, i>>)
  <2>1. 2 * i - 1 \in 1 .. Len(T)
    BY <1>4
  <2> QED
    BY <1>4, <1>7, <2>1
<1>10. ASSUME NEW i \in 1 .. C - 1 PROVE Y[1 + 2 * i] = Sign("and")
  <2>1. 2 * i \in 1 .. Len(T)
    BY <1>4
  <2> QED
    BY <1>4, <1>7, <2>1
<1> QED
  BY <1>2, <1>3, <1>7, <1>8, <1>9, <1>10 DEF Block

(* A signal stays one in a text that agrees with the first on its tokens.  *)
LEMMA BlockMoves ==
  ASSUME NEW x, NEW y, NEW b \in Nat, NEW c \in Nat, NEW s, NEW n \in Nat \ {0},
         Block(x, b, s, n), \A j \in 0 .. 2 * n : y[c + j] = x[b + j]
  PROVE  Block(y, c, s, n)
<1>1. y[c] = x[b] /\ y[c + 2 * n] = x[b + 2 * n]
  <2>1. 0 \in 0 .. 2 * n /\ 2 * n \in 0 .. 2 * n /\ c + 0 = c /\ b + 0 = b
    OBVIOUS
  <2> QED
    BY <2>1
<1>2. ASSUME NEW i \in 1 .. n PROVE y[c + (2 * i - 1)] = x[b + (2 * i - 1)]
  <2>1. 2 * i - 1 \in 0 .. 2 * n
    OBVIOUS
  <2> QED
    BY <2>1
<1>3. ASSUME NEW i \in 1 .. n - 1 PROVE y[c + 2 * i] = x[b + 2 * i]
  <2>1. 2 * i \in 0 .. 2 * n
    OBVIOUS
  <2> QED
    BY <2>1
<1> QED
  BY <1>1, <1>2, <1>3 DEF Block

(* The text of k signals: each at its place, "or" between them.            *)
Laid(text, start, count, k) ==
  /\ text \in Seq(Tokens) /\ Len(text) = start[k] + 2 * count[k] /\ start[1] = 1
  /\ \A s \in 1 .. k : /\ start[s] \in Nat \ {0} /\ start[s] + 2 * count[s] <= Len(text)
                       /\ Block(text, start[s], s, count[s])
  /\ \A s \in 1 .. k - 1 : /\ text[start[s] + 2 * count[s] + 1] = Sign("or")
                           /\ start[s + 1] = start[s] + 2 * count[s] + 2

(* One more signal at the end of the text.                                 *)
LEMMA OneMorePart ==
  ASSUME NEW text, NEW start, NEW count, NEW k \in Nat \ {0}, Laid(text, start, count, k),
         \A s \in 1 .. k + 1 : count[s] \in Nat \ {0},
         NEW part \in Seq(Tokens), Len(part) = 2 * count[k + 1] + 1,
         Block(part, 1, k + 1, count[k + 1]),
         NEW more, more = text \o (<<Sign("or")>> \o part),
         start[k + 1] = Len(more) - 2 * count[k + 1]
  PROVE  Laid(more, start, count, k + 1)
<1>1. PICK Q : Q = Tokens
  OBVIOUS
<1>2. PICK disj : disj = Sign("or")
  OBVIOUS
<1>3. text \in Seq(Q) /\ part \in Seq(Q) /\ disj \in Q
  BY <1>1, <1>2, TokenFacts DEF Laid
<1>a. more = text \o (<<disj>> \o part)
  BY <1>2
<1>4. PICK L \in Nat : L = Len(text)
  BY <1>3
<1>5. /\ more \in Seq(Q) /\ Len(more) = Len(text) + 1 + Len(part)
      /\ \A j \in 1 .. Len(text) : more[j] = text[j]
      /\ more[Len(text) + 1] = disj
      /\ \A j \in 1 .. Len(part) : more[Len(text) + 1 + j] = part[j]
  <2>1. Extension(more, Q, text, disj, part)
    BY ONLY <1>3, <1>a, ListExtended
  <2> QED
    BY <2>1 DEF Extension
<1>6. PICK m \in Nat \ {0} : m = count[k + 1]
  <2>1. k + 1 \in 1 .. k + 1
    OBVIOUS
  <2> QED
    BY <2>1
<1>b. Len(part) = 2 * m + 1 /\ Len(more) = L + 1 + Len(part)
  BY <1>4, <1>5, <1>6
<1>7. Len(more) = L + 2 * m + 2 /\ start[k + 1] = L + 2
  <2>1. start[k + 1] = Len(more) - 2 * m
    BY <1>6
  <2> QED
    BY ONLY L \in Nat, m \in Nat \ {0}, <1>b, <2>1
<1>c. \A s \in 1 .. k : /\ start[s] \in Nat \ {0} /\ start[s] + 2 * count[s] <= L
                         /\ Block(text, start[s], s, count[s])
  BY ONLY Laid(text, start, count, k), <1>4 DEF Laid
<1>d. \A s \in 1 .. k : count[s] \in Nat \ {0}
  <2>1. \A s : s \in 1 .. k => s \in 1 .. k + 1
    BY ONLY k \in Nat \ {0}
  <2> QED
    BY <2>1
<1>e. \A s \in 1 .. k - 1 : /\ text[start[s] + 2 * count[s] + 1] = disj
                             /\ start[s + 1] = start[s] + 2 * count[s] + 2
  BY ONLY Laid(text, start, count, k), <1>2 DEF Laid
<1>8. ASSUME NEW s \in 1 .. k
      PROVE  /\ start[s] \in Nat \ {0} /\ start[s] + 2 * count[s] <= Len(more)
             /\ Block(more, start[s], s, count[s])
  <2>0. start[s] \in Nat \ {0} /\ count[s] \in Nat \ {0}
    BY ONLY <1>c, <1>d, s \in 1 .. k
  <2>1. PICK b \in Nat \ {0}, n \in Nat \ {0} : b = start[s] /\ n = count[s]
    BY <2>0
  <2>2. b + 2 * n <= L /\ Block(text, b, s, n)
    BY ONLY <1>c, <2>1, s \in 1 .. k
  <2>3. ASSUME NEW j \in 0 .. 2 * n PROVE more[b + j] = text[b + j]
    <3>1. b + j \in 1 .. Len(text)
      BY <1>4, <2>2
    <3> QED
      BY <1>5, <3>1
  <2>4. Block(more, b, s, n)
    BY ONLY b \in Nat, n \in Nat \ {0}, <2>2, <2>3, BlockMoves
  <2>5. b + 2 * n <= Len(more)
    BY ONLY <1>7, <2>2, b \in Nat, n \in Nat, m \in Nat, L \in Nat
  <2> QED
    BY ONLY <2>1, <2>4, <2>5, b \in Nat \ {0}
<1>9. Block(more, L + 2, k + 1, m)
  <2>1. PICK c \in Nat, b \in Nat, s \in Nat : c = L + 2 /\ b = 1 /\ s = k + 1
    OBVIOUS
  <2>2. ASSUME NEW j \in 0 .. 2 * m PROVE more[c + j] = part[b + j]
    <3>1. b + j \in 1 .. Len(part) /\ L + 1 + (b + j) = c + j
      BY <1>b, <2>1
    <3> QED
      BY <1>4, <1>5, <3>1
  <2>3. Block(part, b, s, m)
    BY <1>6, <2>1
  <2>4. Block(more, c, s, m)
    BY ONLY c \in Nat, b \in Nat, m \in Nat \ {0}, <2>2, <2>3, BlockMoves
  <2> QED
    BY <2>1, <2>4
<1>10. ASSUME NEW s \in 1 .. k
       PROVE  /\ more[start[s] + 2 * count[s] + 1] = disj
              /\ start[s + 1] = start[s] + 2 * count[s] + 2
  <2>1. CASE s = k
    <3>1. start[k] + 2 * count[k] = L
      BY <1>4 DEF Laid
    <3> QED
      BY <1>4, <1>5, <1>7, <2>1, <3>1
  <2>2. CASE s # k
    <3>1. s \in 1 .. k - 1 /\ s + 1 \in 1 .. k
      BY <2>2
    <3>0. start[s] \in Nat \ {0} /\ count[s] \in Nat \ {0}
      BY ONLY <1>c, <1>d, s \in 1 .. k
    <3>2. PICK b \in Nat \ {0}, n \in Nat \ {0} : b = start[s] /\ n = count[s]
      BY <3>0
    <3>3. text[b + 2 * n + 1] = disj /\ start[s + 1] = b + 2 * n + 2
      BY ONLY <1>e, <3>1, <3>2
    <3>4. start[s + 1] <= L
      <4>0. start[s + 1] \in Nat \ {0} /\ count[s + 1] \in Nat \ {0}
        BY ONLY <1>c, <1>d, <3>1
      <4>1. PICK c \in Nat \ {0}, h \in Nat \ {0} : c = start[s + 1] /\ h = count[s + 1]
        BY <4>0
      <4>2. c + 2 * h <= L
        BY ONLY <1>c, <3>1, <4>1
      <4> QED
        BY ONLY <4>1, <4>2, c \in Nat, h \in Nat, L \in Nat
    <3>5. b + 2 * n + 1 \in 1 .. Len(text)
      BY <1>4, <3>3, <3>4
    <3> QED
      BY <1>5, <3>2, <3>3, <3>5
  <2> QED
    BY <2>1, <2>2
<1>11. start[1] = 1 /\ (k + 1) - 1 = k
  BY DEF Laid
<1>12. ASSUME NEW s \in 1 .. k + 1
       PROVE  /\ start[s] \in Nat \ {0} /\ start[s] + 2 * count[s] <= Len(more)
              /\ Block(more, start[s], s, count[s])
  <2>1. CASE s = k + 1
    <3>1. L + 2 \in Nat \ {0} /\ (L + 2) + 2 * m <= Len(more)
      BY <1>7
    <3>2. start[s] = L + 2 /\ count[s] = m
      BY <1>6, <1>7, <2>1
    <3> QED
      BY <1>9, <2>1, <3>1, <3>2
  <2>2. CASE s # k + 1
    <3>1. s \in 1 .. k
      BY <2>2
    <3> QED
      BY <1>8, <3>1
  <2> QED
    BY <2>1, <2>2
<1>13. Len(more) = start[k + 1] + 2 * count[k + 1] /\ more \in Seq(Tokens)
  BY <1>1, <1>5, <1>6, <1>7
<1> QED
  BY <1>2, <1>10, <1>11, <1>12, <1>13 DEF Laid

(* The condition of an objective: its signals one after the other, each    *)
(* with as many names as the signal has conditions.                        *)
LEMMA RuleText ==
  ASSUME IsObjective(goal), NEW N, N = Len(goal), NEW count,
         count = [s \in 1 .. N |-> Len(goal[s])]
  PROVE  /\ N \in Nat \ {0} /\ DOMAIN goal = 1 .. N
         /\ \A s \in 1 .. N : count[s] \in Nat \ {0} /\ DOMAIN goal[s] = 1 .. count[s]
         /\ \E start : Laid(ConditionText, start, count, N)
<1>1. N \in Nat \ {0} /\ DOMAIN goal = 1 .. N
  BY DEF IsObjective, Listing
<1>2. ASSUME NEW s \in 1 .. N PROVE count[s] \in Nat \ {0} /\ DOMAIN goal[s] = 1 .. count[s]
  BY <1>1 DEF IsObjective, Listing
<1>a. PICK parts : parts = [s \in DOMAIN goal |->
            <<Sign("(")>> \o Joined([i \in DOMAIN goal[s] |-> <<Name(<<s, i>>)>>], "and")
              \o <<Sign(")")>>]
  OBVIOUS
<1>b. PICK word : word = "or"
  OBVIOUS
<1>c. PICK disj : disj = Sign(word)
  OBVIOUS
<1>d. PICK text : text = ConditionText
  OBVIOUS
<1>3. text = Joined(parts, word)
  BY <1>a, <1>b, <1>d DEF ConditionText
<1>4. ASSUME NEW s \in 1 .. N
      PROVE  /\ parts[s] \in Seq(Tokens) /\ Len(parts[s]) = 2 * count[s] + 1
             /\ Block(parts[s], 1, s, count[s])
  <2>1. PICK Y, C : Y = parts[s] /\ C = count[s]
    OBVIOUS
  <2>2. s \in Nat /\ C \in Nat \ {0}
    BY <1>1, <1>2, <2>1
  <2>3. Y = <<Sign("(")>> \o Joined([i \in 1 .. C |-> <<Name(<<s, i>>)>>], "and") \o <<Sign(")")>>
    BY <1>1, <1>2, <1>a, <2>1, Zenon
  <2>4. Y \in Seq(Tokens) /\ Len(Y) = 2 * C + 1 /\ Block(Y, 1, s, C)
    BY ONLY <2>2, <2>3, PartText
  <2> QED
    BY <2>1, <2>4
<1>e. PICK Q : Q = Tokens
  OBVIOUS
<1>5. parts \in Seq(Seq(Q)) /\ Len(parts) = N
  <2>1. parts \in [1 .. N -> Seq(Q)]
    BY <1>1, <1>4, <1>a, <1>e
  <2>2. parts \in Seq(Seq(Q))
    BY <1>1, <2>1
  <2> QED
    BY <1>1, <2>1, <2>2
<1>6. PICK flat : JoinedBy(flat, Q, parts, disj, text)
  <2>1. parts \in Seq(Seq(Q))
    BY <1>5
  <2>2. parts # <<>>
    BY <1>1, <1>5
  <2>3. disj \in Q
    BY <1>b, <1>c, <1>e, TokenFacts
  <2>4. disj = Sign(word)
    BY <1>c
  <2>5. \E flat : JoinedBy(flat, Q, parts, disj, Joined(parts, word))
    BY ONLY <2>1, <2>2, <2>3, <2>4, JoinedUnfolds
  <2> QED
    BY <1>3, <2>5
<1>7. /\ text = flat[N] /\ flat[1] = parts[1]
      /\ \A n \in 1 .. N : /\ flat[n] \in Seq(Tokens)
                           /\ n # 1 => flat[n] = flat[n - 1] \o (<<disj>> \o parts[n])
  BY <1>5, <1>6, <1>e DEF JoinedBy
<1>8. PICK start : start = [n \in 1 .. N |-> Len(flat[n]) - 2 * count[n]]
  OBVIOUS
<1> DEFINE laid == {m \in Nat : m + 1 <= N => Laid(flat[m + 1], start, count, m + 1)}
<1>9. Laid(flat[1], start, count, 1)
  <2>1. 1 \in 1 .. N /\ 1 .. 1 - 1 = {} /\ \A s : s \in 1 .. 1 <=> s = 1
    BY <1>1
  <2>2. PICK n \in Nat \ {0} : n = count[1]
    BY <1>2, <2>1
  <2>3. /\ flat[1] \in Seq(Tokens) /\ Len(flat[1]) = 2 * n + 1
        /\ Block(flat[1], 1, 1, n)
    BY <1>4, <1>7, <2>1, <2>2
  <2>4. start[1] = 1
    BY <1>8, <2>1, <2>2, <2>3
  <2>5. Len(flat[1]) = 1 + 2 * n /\ 1 + 2 * n <= Len(flat[1])
    BY <2>3
  <2> QED
    BY <2>1, <2>2, <2>3, <2>4, <2>5 DEF Laid
<1>10. laid = Nat
  <2>1. 0 \in laid
    <3>1. 0 + 1 = 1
      OBVIOUS
    <3> QED
      BY <1>9, <3>1
  <2>2. ASSUME NEW m \in laid PROVE m + 1 \in laid
    <3> SUFFICES ASSUME (m + 1) + 1 <= N PROVE Laid(flat[(m + 1) + 1], start, count, (m + 1) + 1)
      OBVIOUS
    <3>1. PICK k \in Nat \ {0} : k = m + 1
      OBVIOUS
    <3>2. k + 1 \in 1 .. N /\ k \in 1 .. N /\ (k + 1) - 1 = k /\ k + 1 # 1
      BY <1>1, <3>1
    <3>3. Laid(flat[k], start, count, k)
      BY <1>1, <3>1, <3>2
    <3> HIDE DEF laid
    <3>4. PICK x, more, part : x = flat[k] /\ more = flat[k + 1] /\ part = parts[k + 1]
      OBVIOUS
    <3>5. more = x \o (<<Sign("or")>> \o part)
      BY <1>7, <1>b, <1>c, <3>2, <3>4
    <3>6. \A s \in 1 .. k + 1 : count[s] \in Nat \ {0}
      BY <1>1, <1>2, <3>2
    <3>7. part \in Seq(Tokens) /\ Len(part) = 2 * count[k + 1] + 1
          /\ Block(part, 1, k + 1, count[k + 1])
      BY <1>4, <3>2, <3>4
    <3>8. start[k + 1] = Len(more) - 2 * count[k + 1]
      BY <1>8, <3>2, <3>4
    <3>9. Laid(x, start, count, k)
      BY <3>3, <3>4
    <3>10. Laid(more, start, count, k + 1)
      BY ONLY k \in Nat \ {0}, <3>5, <3>6, <3>7, <3>8, <3>9, OneMorePart
    <3> QED
      BY <3>1, <3>4, <3>10
  <2>3. laid \in SUBSET Nat
    OBVIOUS
  <2> HIDE DEF laid
  <2> QED
    BY <2>1, <2>2, <2>3, EveryNumber
<1>11. Laid(flat[N], start, count, N)
  <2>1. N - 1 \in Nat /\ (N - 1) + 1 = N /\ N <= N
    BY <1>1
  <2>2. N - 1 \in laid
    BY ONLY <1>10, <2>1
  <2> QED
    BY <2>1, <2>2
<1> QED
  BY <1>1, <1>2, <1>7, <1>11, <1>d
-----------------------------------------------------------------------------
(* Reading a rule.  The signs at a signal's places.                        *)
Signs(text, b, s, n) ==
  /\ IsSign(text, b, "(") /\ IsSign(text, b + 2 * n, ")")
  /\ ~IsSign(text, b, "not")
  /\ ~IsSign(text, b + 2 * n, "and") /\ ~IsSign(text, b + 2 * n, "or")
  /\ \A i \in 1 .. n : /\ ~IsSign(text, b + (2 * i - 1), "(")
                       /\ ~IsSign(text, b + (2 * i - 1), "not")
                       /\ text[b + (2 * i - 1)].at = <<s, i>>
  /\ \A i \in 1 .. n - 1 : IsSign(text, b + 2 * i, "and")

(* What the evaluator is shown inside a signal.                            *)
LEMMA BlockSigns ==
  ASSUME NEW text, NEW b \in Nat \ {0}, NEW s, NEW C \in Nat \ {0},
         Len(text) \in Nat, Block(text, b, s, C), b + 2 * C <= Len(text)
  PROVE  Signs(text, b, s, C)
<1>1. text[b].sign = "(" /\ text[b + 2 * C].sign = ")" /\ b <= Len(text)
  BY DEF Block, Sign
<1>2. ASSUME NEW i \in 1 .. C
      PROVE  text[b + (2 * i - 1)].sign = "name" /\ text[b + (2 * i - 1)].at = <<s, i>>
  <2>1. text[b + (2 * i - 1)] = Name(<<s, i>>)
    BY DEF Block
  <2> QED
    BY ONLY <2>1 DEF Name
<1>3. ASSUME NEW i \in 1 .. C - 1
      PROVE  text[b + 2 * i].sign = "and" /\ b + 2 * i <= Len(text)
  BY DEF Block, Sign
<1> QED
  BY <1>1, <1>2, <1>3 DEF IsSign, Signs

(* What a call gives, when it gives the value v and ends at q.             *)
Gives(r, v, q) == r.next = q /\ (r.val <=> v)

(* What is known of the conditions of a signal.                            *)
Answered(hit, s, n, met) ==
  met \in [1 .. n -> BOOLEAN] /\ \A i \in 1 .. n : hit[<<s, i>>] <=> met[i]

(* Enough depth: the names of a signal, and what is read after the i-th.   *)
NamesRead(text, f, b, n, met) ==
  /\ \A i \in 1 .. n, k \in Nat : k >= 2 /\ k <= Depth(text) =>
       Gives(f[k][<<"not", b + (2 * i - 1)>>], met[i], b + 2 * i)
  /\ \A i \in 1 .. n, k \in Nat : k >= 3 + (n - i) /\ k <= Depth(text) =>
       Gives(f[k][<<"ands", b + 2 * i>>], \A j \in i + 1 .. n : met[j], b + 2 * n)

(* By induction from the last name back: every name is read as what its    *)
(* selection found, and the names after it as all of theirs.               *)
LEMMA SignalNames ==
  ASSUME NEW text, NEW hit, Len(text) \in Nat, NEW f, EveryCall(text, hit, f),
         NEW b \in Nat \ {0}, NEW s, NEW C \in Nat \ {0}, Block(text, b, s, C),
         b + 2 * C <= Len(text), NEW met, Answered(hit, s, C, met)
  PROVE  NamesRead(text, f, b, C, met)
<1>1. PICK D \in Nat : D = Depth(text)
  BY DEF Depth
<1>2. PICK L \in Nat : L = Len(text)
  OBVIOUS
<1>a. Signs(text, b, s, C)
  BY BlockSigns
<1>3. ASSUME NEW i \in 1 .. C, NEW n \in Nat, n >= 2, n <= D
      PROVE  Gives(f[n][<<"not", b + (2 * i - 1)>>], met[i], b + 2 * i)
  <2>0. n - 2 \in Nat /\ b + (2 * i - 1) \in Nat
    BY <1>3
  <2>1. PICK p \in Nat, k \in Nat : p = b + (2 * i - 1) /\ k = n - 2
    BY <2>0
  <2>a. b + 2 * i <= L
    BY <1>2
  <2>2. /\ p \in 1 .. Len(text) + 1 /\ p + 1 = b + 2 * i /\ n = (k + 1) + 1
        /\ (k + 1) + 1 <= Depth(text) /\ k + 1 <= Depth(text) /\ k + 1 \in Nat
    BY <1>1, <1>2, <1>3, <2>1, <2>a
  <2>3. ~IsSign(text, p, "(") /\ ~IsSign(text, p, "not") /\ text[p].at = <<s, i>>
    BY <1>a, <2>1 DEF Signs
  <2>5. /\ f[k + 1][<<"atom", p>>].next = p + 1
        /\ f[k + 1][<<"atom", p>>].val <=> hit[text[p].at]
    BY <2>2, <2>3, ReadName
  <2>6. f[(k + 1) + 1][<<"not", p>>] = f[k + 1][<<"atom", p>>]
    BY <2>2, <2>3, ReadNot
  <2>7. hit[<<s, i>>] <=> met[i]
    BY DEF Answered
  <2> QED
    BY <2>1, <2>2, <2>3, <2>5, <2>6, <2>7 DEF Gives
<1> DEFINE After(i, n) ==
             Gives(f[n][<<"ands", b + 2 * i>>], \A j \in i + 1 .. C : met[j], b + 2 * C)
           fine == {d \in Nat : d < C => \A n \in Nat : n >= 3 + d /\ n <= D => After(C - d, n)}
<1>4. ASSUME NEW n \in Nat, n >= 1, n <= D PROVE After(C, n)
  <2>1. PICK p \in Nat, k \in Nat : p = b + 2 * C /\ k = n - 1
    <3>1. n - 1 \in Nat /\ b + 2 * C \in Nat
      BY <1>4
    <3> QED
      BY <3>1
  <2>2. p \in 1 .. Len(text) + 1 /\ n = k + 1 /\ k + 1 <= Depth(text)
    BY <1>1, <1>2, <1>4, <2>1
  <2>3. ~IsSign(text, p, "and")
    BY <1>a, <2>1 DEF Signs
  <2>4. f[k + 1][<<"ands", p>>].next = p /\ (f[k + 1][<<"ands", p>>].val <=> TRUE)
    BY <2>2, <2>3, ReadAndsEnd
  <2>5. C + 1 .. C = {}
    OBVIOUS
  <2> QED
    BY <2>1, <2>2, <2>4, <2>5 DEF Gives
<1>5. ASSUME NEW i \in 1 .. C - 1, NEW k \in Nat, k >= 2, k + 1 <= D, After(i + 1, k)
      PROVE  After(i, k + 1)
  <2>0. i + 1 \in 1 .. C /\ k <= D
    BY <1>5
  <2>1. PICK p \in Nat, q \in Nat : p = b + 2 * i /\ q = b + 2 * (i + 1)
    OBVIOUS
  <2>2. p \in 1 .. Len(text) + 1 /\ k + 1 <= Depth(text) /\ b + (2 * (i + 1) - 1) = p + 1
    <3>1. b + 2 * C <= L
      BY <1>2
    <3> QED
      BY <1>1, <1>2, <1>5, <2>1, <3>1
  <2>3. IsSign(text, p, "and")
    BY <1>a, <2>1 DEF Signs
  <2>4. Gives(f[k][<<"not", p + 1>>], met[i + 1], q)
    BY <1>3, <1>5, <2>0, <2>1, <2>2
  <2>5. f[k][<<"not", p + 1>>].next = q /\ (f[k][<<"not", p + 1>>].val <=> met[i + 1])
    BY <2>4 DEF Gives
  <2>6. /\ f[k + 1][<<"ands", p>>].next = f[k][<<"ands", q>>].next
        /\ f[k + 1][<<"ands", p>>].val <=> f[k][<<"not", p + 1>>].val /\ f[k][<<"ands", q>>].val
    BY <2>2, <2>3, <2>5, ReadAnds
  <2>7. /\ f[k][<<"ands", q>>].next = b + 2 * C
        /\ f[k][<<"ands", q>>].val <=> \A j \in (i + 1) + 1 .. C : met[j]
    BY <1>5, <2>1 DEF Gives
  <2>8. (\A j \in i + 1 .. C : met[j]) <=> met[i + 1] /\ \A j \in (i + 1) + 1 .. C : met[j]
    <3>1. \A j : j \in i + 1 .. C <=> j = i + 1 \/ j \in (i + 1) + 1 .. C
      BY <2>0
    <3> QED
      BY <3>1
  <2> QED
    BY <2>1, <2>5, <2>6, <2>7, <2>8 DEF Gives
<1>6. fine = Nat
  <2>1. 0 \in fine
    <3>1. C - 0 = C
      OBVIOUS
    <3> HIDE DEF After
    <3> QED
      BY <1>4, <3>1
  <2>2. ASSUME NEW d \in fine PROVE d + 1 \in fine
    <3> HIDE DEF After
    <3> SUFFICES ASSUME d + 1 < C, NEW n \in Nat, n >= 3 + (d + 1), n <= D
                 PROVE  After(C - (d + 1), n)
      OBVIOUS
    <3>1. PICK i \in Nat, k \in Nat : i = C - (d + 1) /\ k = n - 1
      <4>1. C - (d + 1) \in Nat /\ n - 1 \in Nat
        OBVIOUS
      <4> QED
        BY <4>1
    <3>2. /\ d \in Nat /\ i \in 1 .. C - 1 /\ C - d = i + 1 /\ d < C
          /\ k >= 3 + d /\ k >= 2 /\ k <= D /\ k + 1 <= D /\ n = k + 1
      BY <3>1
    <3>3. After(C - d, k)
      BY <3>2
    <3> HIDE DEF fine
    <3>4. After(i, k + 1)
      BY <1>5, <3>2, <3>3
    <3> QED
      BY <3>1, <3>2, <3>4
  <2>3. fine \in SUBSET Nat
    OBVIOUS
  <2> HIDE DEF fine
  <2> QED
    BY <2>1, <2>2, <2>3, EveryNumber
<1>7. ASSUME NEW i \in 1 .. C, NEW n \in Nat, n >= 3 + (C - i), n <= D PROVE After(i, n)
  <2>1. PICK d \in Nat : d = C - i
    OBVIOUS
  <2>2. d < C /\ C - d = i /\ n >= 3 + d
    BY <1>7, <2>1
  <2>3. d \in fine
    BY ONLY <1>6, d \in Nat
  <2> HIDE DEF After
  <2> QED
    BY <1>7, <2>2, <2>3
<1>8. /\ \A i \in 1 .. C, n \in Nat : n >= 2 /\ n <= D =>
           Gives(f[n][<<"not", b + (2 * i - 1)>>], met[i], b + 2 * i)
      /\ \A i \in 1 .. C, n \in Nat : n >= 3 + (C - i) /\ n <= D => After(i, n)
  <2> HIDE DEF After
  <2> QED
    BY <1>3, <1>7
<1> QED
  BY <1>1, <1>8 DEF NamesRead

(* A signal in its parentheses.                                            *)
SignalGives(r, b, n, met) == r.next = b + 2 * n + 1 /\ (r.val <=> \A i \in 1 .. n : met[i])

(* A signal is read as the conjunction of its names, to after its ")".     *)
LEMMA SignalRead ==
  ASSUME NEW text, NEW hit, Len(text) \in Nat, NEW f, EveryCall(text, hit, f),
         NEW b \in Nat \ {0}, NEW s, NEW C \in Nat \ {0}, Block(text, b, s, C),
         b + 2 * C <= Len(text), NEW met, Answered(hit, s, C, met),
         NEW n \in Nat, n >= C + 6, n <= Depth(text)
  PROVE  SignalGives(f[n][<<"not", b>>], b, C, met)
<1>1. PICK D \in Nat : D = Depth(text)
  BY DEF Depth
<1>2. PICK L \in Nat : L = Len(text)
  OBVIOUS
<1>3. PICK c \in Nat, d \in Nat, m \in Nat : c = b + 1 /\ d = b + 2 * C /\ m = n - 5
  <2>1. b + 1 \in Nat /\ b + 2 * C \in Nat /\ n - 5 \in Nat
    OBVIOUS
  <2> QED
    BY <2>1
<1>4. /\ b \in 1 .. Len(text) + 1 /\ c \in 1 .. Len(text) + 1 /\ d \in 1 .. Len(text) + 1
      /\ c + 1 = b + 2 * 1 /\ c = b + (2 * 1 - 1) /\ b + 1 = c /\ 1 \in 1 .. C
  BY <1>2, <1>3
<1>5. PICK m1 \in Nat, m2 \in Nat, m3 \in Nat, m4 \in Nat :
        m1 = m + 1 /\ m2 = m1 + 1 /\ m3 = m2 + 1 /\ m4 = m3 + 1
  OBVIOUS
<1>6. /\ n = m4 + 1 /\ m >= C + 1 /\ m1 >= 3 + (C - 1) /\ m1 >= 2
      /\ n <= D /\ m + 1 <= D /\ m1 + 1 <= D /\ m2 + 1 <= D /\ m3 + 1 <= D /\ m4 + 1 <= D
  BY <1>1, <1>3, <1>5
<1>7. Signs(text, b, s, C)
  BY BlockSigns
<1>8. IsSign(text, b, "(") /\ ~IsSign(text, b, "not") /\ IsSign(text, d, ")") /\ ~IsSign(text, d, "or")
  BY <1>3, <1>7 DEF Signs
<1>a. NamesRead(text, f, b, C, met)
  BY SignalNames
<1>9. Gives(f[m1][<<"not", c>>], met[1], c + 1)
  <2>1. PICK i \in 1 .. C : i = 1
    BY <1>4
  <2>2. m1 >= 2 /\ m1 <= Depth(text)
    BY <1>1, <1>6
  <2>3. Gives(f[m1][<<"not", b + (2 * i - 1)>>], met[i], b + 2 * i)
    BY ONLY <1>a, <2>2, i \in 1 .. C, m1 \in Nat DEF NamesRead
  <2>4. b + (2 * i - 1) = c /\ b + 2 * i = c + 1
    BY <1>4, <2>1
  <2> QED
    BY <2>1, <2>3, <2>4
<1>10. Gives(f[m1][<<"ands", c + 1>>], \A j \in 1 + 1 .. C : met[j], d)
  <2>1. PICK i \in 1 .. C : i = 1
    BY <1>4
  <2>2. m1 >= 3 + (C - i) /\ m1 <= Depth(text)
    BY <1>1, <1>6, <2>1
  <2>3. Gives(f[m1][<<"ands", b + 2 * i>>], \A j \in i + 1 .. C : met[j], b + 2 * C)
    BY <1>a, <2>2 DEF NamesRead
  <2> QED
    BY <1>3, <1>4, <2>1, <2>3
<1>11. /\ f[m2][<<"and", c>>].next = d
       /\ f[m2][<<"and", c>>].val <=> \A i \in 1 .. C : met[i]
  <2>1. /\ f[m1 + 1][<<"and", c>>].next = f[m1][<<"ands", c + 1>>].next
        /\ f[m1 + 1][<<"and", c>>].val <=> f[m1][<<"not", c>>].val /\ f[m1][<<"ands", c + 1>>].val
    <3>1. f[m1][<<"not", c>>].next = c + 1
      BY <1>9 DEF Gives
    <3>2. m1 + 1 <= Depth(text) /\ c \in 1 .. Len(text) + 1
      BY <1>1, <1>4, <1>6
    <3> QED
      BY ONLY EveryCall(text, hit, f), m1 \in Nat, <3>1, <3>2, ReadAnd
  <2>2. (\A i \in 1 .. C : met[i]) <=> met[1] /\ \A j \in 1 + 1 .. C : met[j]
    <3>1. \A j : j \in 1 .. C <=> j = 1 \/ j \in 1 + 1 .. C
      OBVIOUS
    <3> QED
      BY <3>1
  <2> QED
    BY <1>5, <1>9, <1>10, <2>1, <2>2 DEF Gives
<1>12. /\ f[m2][<<"ors", d>>].next = d /\ (f[m2][<<"ors", d>>].val <=> FALSE)
  <2>1. m1 + 1 <= Depth(text) /\ d \in 1 .. Len(text) + 1 /\ ~IsSign(text, d, "or")
    BY <1>1, <1>4, <1>6, <1>8
  <2>2. /\ f[m1 + 1][<<"ors", d>>].next = d /\ (f[m1 + 1][<<"ors", d>>].val <=> FALSE)
    BY ONLY EveryCall(text, hit, f), m1 \in Nat, <2>1, ReadOrsEnd
  <2> QED
    BY <1>5, <2>2
<1>13. /\ f[m3][<<"or", c>>].next = d
       /\ f[m3][<<"or", c>>].val <=> \A i \in 1 .. C : met[i]
  <2>1. /\ f[m2 + 1][<<"or", c>>].next = f[m2][<<"ors", d>>].next
        /\ f[m2 + 1][<<"or", c>>].val <=> f[m2][<<"and", c>>].val \/ f[m2][<<"ors", d>>].val
    <3>1. m2 + 1 <= Depth(text) /\ c \in 1 .. Len(text) + 1 /\ f[m2][<<"and", c>>].next = d
      BY <1>1, <1>4, <1>6, <1>11
    <3> QED
      BY ONLY EveryCall(text, hit, f), m2 \in Nat, <3>1, ReadOr
  <2> QED
    BY <1>5, <1>11, <1>12, <2>1
<1>14. /\ f[m4][<<"atom", b>>].next = d + 1
       /\ f[m4][<<"atom", b>>].val <=> \A i \in 1 .. C : met[i]
  <2>1. /\ f[m3 + 1][<<"atom", b>>].next = d + 1
        /\ f[m3 + 1][<<"atom", b>>].val <=> f[m3][<<"or", b + 1>>].val
    <3>1. /\ f[m3][<<"or", b + 1>>].next = d /\ m3 + 1 <= Depth(text)
          /\ b \in 1 .. Len(text) + 1 /\ IsSign(text, b, "(") /\ IsSign(text, d, ")")
      BY <1>1, <1>4, <1>6, <1>8, <1>13
    <3> QED
      BY ONLY EveryCall(text, hit, f), m3 \in Nat, <3>1, ReadGroup
  <2> QED
    BY <1>4, <1>5, <1>13, <2>1
<1>15. f[n][<<"not", b>>] = f[m4][<<"atom", b>>]
  <2>1. /\ n = m4 + 1 /\ m4 + 1 <= Depth(text) /\ b \in 1 .. Len(text) + 1
        /\ ~IsSign(text, b, "not")
    BY <1>1, <1>4, <1>6, <1>8
  <2>2. f[m4 + 1][<<"not", b>>] = f[m4][<<"atom", b>>]
    BY ONLY EveryCall(text, hit, f), m4 \in Nat, <2>1, ReadNot
  <2> QED
    BY <2>1, <2>2
<1> QED
  BY <1>3, <1>14, <1>15 DEF SignalGives

(* A whole rule: one of its signals, all of whose names are met.           *)
LEMMA RuleRead ==
  ASSUME NEW text, NEW hit, NEW f, EveryCall(text, hit, f), NEW N \in Nat \ {0},
         NEW start, NEW count, Laid(text, start, count, N),
         \A s \in 1 .. N : count[s] \in Nat \ {0},
         NEW met, \A s \in 1 .. N : Answered(hit, s, count[s], met[s])
  PROVE  f[Depth(text)][<<"or", 1>>].val <=>
           \E s \in 1 .. N : \A i \in 1 .. count[s] : met[s][i]
<1>1. PICK D \in Nat : D = Depth(text)
  BY DEF Depth, Laid
<1>2. PICK L \in Nat : L = Len(text)
  BY DEF Laid
<1> DEFINE All(s) == \A i \in 1 .. count[s] : met[s][i]
<1>3. PICK end : end = [s \in 1 .. N |-> start[s] + 2 * count[s] + 1]
  OBVIOUS
<1>4. ASSUME NEW s \in 1 .. N
      PROVE  /\ start[s] \in Nat \ {0} /\ count[s] \in Nat \ {0} /\ end[s] \in Nat
             /\ end[s] = start[s] + 2 * count[s] + 1
             /\ start[s] + 2 * count[s] <= L /\ Block(text, start[s], s, count[s])
             /\ start[s] \in 1 .. L + 1 /\ end[s] \in 1 .. L + 1
  <2>1. start[s] \in Nat \ {0} /\ start[s] + 2 * count[s] <= L /\ Block(text, start[s], s, count[s])
    BY <1>2 DEF Laid
  <2>2. count[s] \in Nat \ {0} /\ end[s] = start[s] + 2 * count[s] + 1
    BY <1>3
  <2>3. PICK b, c : b = start[s] /\ c = count[s]
    OBVIOUS
  <2>4. b \in 1 .. L + 1 /\ b + 2 * c + 1 \in 1 .. L + 1 /\ b + 2 * c + 1 \in Nat
    BY <2>1, <2>2, <2>3
  <2> QED
    BY <2>1, <2>2, <2>3, <2>4
<1>5. start[1] = 1 /\ end[N] = L + 1 /\ N \in 1 .. N /\ 1 \in 1 .. N
  <2>1. N \in 1 .. N /\ 1 \in 1 .. N
    OBVIOUS
  <2>2. L = start[N] + 2 * count[N] /\ start[1] = 1
    BY <1>2 DEF Laid
  <2> QED
    BY <1>4, <2>1, <2>2
<1>6. ASSUME NEW s \in 1 .. N - 1
      PROVE  s + 1 \in 1 .. N /\ IsSign(text, end[s], "or") /\ start[s + 1] = end[s] + 1
  <2>1. s \in 1 .. N /\ s + 1 \in 1 .. N
    OBVIOUS
  <2>2. text[end[s]] = Sign("or") /\ start[s + 1] = end[s] + 1
    <3>1. PICK b \in Nat, c \in Nat : b = start[s] /\ c = count[s]
      BY <1>4, <2>1
    <3>2. text[b + 2 * c + 1] = Sign("or") /\ start[s + 1] = b + 2 * c + 2
      BY <3>1 DEF Laid
    <3>3. end[s] = b + 2 * c + 1 /\ b + 2 * c + 2 = (b + 2 * c + 1) + 1
      BY <1>4, <2>1, <3>1
    <3> QED
      BY <3>2, <3>3
  <2>3. end[s] <= L
    BY <1>4, <2>1, <2>2
  <2> QED
    BY <1>2, <2>1, <2>2, <2>3 DEF IsSign, Sign
<1>7. ASSUME NEW s \in 1 .. N PROVE ~IsSign(text, end[s], "and")
  <2>1. CASE s = N
    BY <1>2, <1>5, <2>1 DEF IsSign
  <2>2. CASE s # N
    <3>1. s \in 1 .. N - 1
      BY <2>2
    <3> QED
      BY <1>6, <3>1 DEF IsSign
  <2> QED
    BY <2>1, <2>2
<1>8. ASSUME NEW s \in 1 .. N, NEW n \in Nat, n >= count[s] + 7, n <= D
      PROVE  f[n][<<"and", start[s]>>].next = end[s] /\ (f[n][<<"and", start[s]>>].val <=> All(s))
  <2>a. PICK one : one = met[s]
    OBVIOUS
  <2>b. PICK b \in Nat \ {0}, C \in Nat \ {0}, e \in Nat : b = start[s] /\ C = count[s] /\ e = end[s]
    BY <1>4
  <2>1. b = start[s] /\ C = count[s] /\ e = end[s] /\ one = met[s]
    BY <2>a, <2>b
  <2>2. PICK m \in Nat : m = n - 1
    BY <1>8, <2>1
  <2>3. PICK k \in Nat : k = n - 2
    BY <1>8, <2>1
  <2>4. /\ m >= C + 6 /\ m <= Depth(text) /\ n = m + 1 /\ m + 1 <= Depth(text)
        /\ m = k + 1 /\ k + 1 <= Depth(text)
    BY <1>1, <1>8, <2>1, <2>2, <2>3
  <2>5. /\ b \in 1 .. Len(text) + 1 /\ e \in 1 .. Len(text) + 1 /\ e = b + 2 * C + 1
        /\ Block(text, b, s, C) /\ b + 2 * C <= Len(text) /\ Len(text) \in Nat
    BY <1>2, <1>4, <2>1
  <2>6. Answered(hit, s, C, one)
    BY <2>1
  <2>7. SignalGives(f[m][<<"not", b>>], b, C, one)
    BY ONLY EveryCall(text, hit, f), b \in Nat \ {0}, C \in Nat \ {0}, m \in Nat,
            <2>4, <2>5, <2>6, SignalRead
  <2>8. f[k + 1][<<"ands", e>>].next = e /\ (f[k + 1][<<"ands", e>>].val <=> TRUE)
    <3>1. ~IsSign(text, e, "and")
      BY <1>7, <2>1
    <3>2. e \in 1 .. Len(text) + 1 /\ k + 1 <= Depth(text)
      BY ONLY <2>4, <2>5
    <3> QED
      BY ONLY EveryCall(text, hit, f), k \in Nat, <3>1, <3>2, ReadAndsEnd
  <2>9. f[m][<<"not", b>>].next = e /\ (f[m][<<"not", b>>].val <=> All(s))
    BY <2>1, <2>5, <2>7 DEF SignalGives
  <2>10. /\ f[m + 1][<<"and", b>>].next = f[m][<<"ands", e>>].next
         /\ f[m + 1][<<"and", b>>].val <=> f[m][<<"not", b>>].val /\ f[m][<<"ands", e>>].val
    BY ONLY EveryCall(text, hit, f), m \in Nat, <2>4, <2>5, <2>9, ReadAnd
  <2> HIDE DEF All
  <2> QED
    BY <2>1, <2>4, <2>8, <2>9, <2>10
<1> HIDE DEF All
<1> DEFINE Later(s, n) == /\ f[n][<<"ors", end[s]>>].next = L + 1
                          /\ f[n][<<"ors", end[s]>>].val <=> \E r \in s + 1 .. N : All(r)
           fine == {d \in Nat : d < N => \A n \in Nat : n >= (L + 10) - end[N - d] /\ n <= D
                                             => Later(N - d, n)}
<1>9. ASSUME NEW n \in Nat, n >= 1, n <= D PROVE Later(N, n)
  <2>1. PICK k \in Nat : k = n - 1
    BY <1>9
  <2>2. n = k + 1 /\ k + 1 <= Depth(text)
    BY <1>1, <1>9, <2>1
  <2>3. PICK e \in 1 .. Len(text) + 1 : e = end[N]
    BY <1>2, <1>4, <1>5
  <2>4. ~IsSign(text, e, "or")
    BY <1>2, <1>5, <2>3 DEF IsSign
  <2>5. f[k + 1][<<"ors", e>>].next = e /\ (f[k + 1][<<"ors", e>>].val <=> FALSE)
    BY ONLY EveryCall(text, hit, f), k \in Nat, e \in 1 .. Len(text) + 1, <2>2, <2>4, ReadOrsEnd
  <2>6. N + 1 .. N = {}
    OBVIOUS
  <2> QED
    BY <1>5, <2>2, <2>3, <2>5, <2>6
<1>10. ASSUME NEW s \in 1 .. N - 1, NEW k \in Nat, k >= count[s + 1] + 7, k + 1 <= D,
              Later(s + 1, k)
       PROVE  Later(s, k + 1)
  <2>1. s \in 1 .. N /\ s + 1 \in 1 .. N /\ IsSign(text, end[s], "or") /\ start[s + 1] = end[s] + 1
    BY <1>6
  <2>2. PICK e \in 1 .. Len(text) + 1, g \in Nat : e = end[s] /\ g = end[s + 1]
    BY <1>2, <1>4, <2>1
  <2>3. /\ f[k][<<"and", e + 1>>].next = g
        /\ f[k][<<"and", e + 1>>].val <=> All(s + 1)
    <3> HIDE DEF Later
    <3>1. PICK u \in 1 .. N : u = s + 1
      BY <2>1
    <3>2. k >= count[u] + 7 /\ k <= D
      BY <1>10, <3>1
    <3>3. f[k][<<"and", start[u]>>].next = end[u] /\ (f[k][<<"and", start[u]>>].val <=> All(u))
      BY ONLY <1>8, <3>2, k \in Nat, u \in 1 .. N
    <3>4. start[u] = e + 1 /\ end[u] = g
      BY <2>1, <2>2, <3>1
    <3> QED
      BY ONLY <3>1, <3>3, <3>4
  <2>4. k + 1 <= Depth(text) /\ IsSign(text, e, "or")
    BY <1>1, <1>10, <2>1, <2>2
  <2>5. /\ f[k + 1][<<"ors", e>>].next = f[k][<<"ors", g>>].next
        /\ f[k + 1][<<"ors", e>>].val <=> f[k][<<"and", e + 1>>].val \/ f[k][<<"ors", g>>].val
    BY ONLY EveryCall(text, hit, f), k \in Nat, e \in 1 .. Len(text) + 1, <2>3, <2>4, ReadOrs
  <2>6. (\E r \in s + 1 .. N : All(r)) <=> All(s + 1) \/ \E r \in (s + 1) + 1 .. N : All(r)
    <3>1. \A r : r \in s + 1 .. N <=> r = s + 1 \/ r \in (s + 1) + 1 .. N
      BY <2>1
    <3> QED
      BY <3>1
  <2> QED
    BY <1>10, <2>2, <2>3, <2>5, <2>6
<1>11. fine = Nat
  <2>1. 0 \in fine
    <3> HIDE DEF Later
    <3>1. ASSUME NEW n \in Nat, n >= (L + 10) - end[N - 0], n <= D PROVE Later(N - 0, n)
      <4>1. N - 0 = N /\ n >= 1
        BY <1>5, <3>1
      <4> QED
        BY <1>9, <3>1, <4>1
    <3> QED
      BY <3>1
  <2>2. ASSUME NEW d \in fine PROVE d + 1 \in fine
    <3> HIDE DEF Later
    <3> SUFFICES ASSUME d + 1 < N, NEW n \in Nat, n >= (L + 10) - end[N - (d + 1)], n <= D
                 PROVE  Later(N - (d + 1), n)
      OBVIOUS
    <3>0. d \in Nat /\ d < N
      OBVIOUS
    <3>1. PICK s \in Nat : s = N - (d + 1)
      BY <3>0
    <3>2. s \in 1 .. N - 1 /\ s \in 1 .. N /\ N - d = s + 1 /\ s + 1 \in 1 .. N
      BY <3>0, <3>1
    <3>3. PICK e \in Nat, g \in Nat, b \in Nat, c \in Nat \ {0} :
            e = end[s] /\ g = end[s + 1] /\ b = start[s + 1] /\ c = count[s + 1]
      BY <1>4, <3>2
    <3>4. b = e + 1 /\ g = b + 2 * c + 1 /\ b + 2 * c <= L
      BY <1>4, <1>6, <3>2, <3>3
    <3>5. n >= (L + 10) - e
      BY <3>1, <3>3
    <3>6. PICK k \in Nat : k = n - 1
      BY <3>4, <3>5
    <3>7. n = k + 1 /\ k >= c + 7 /\ k >= (L + 10) - g /\ k <= D /\ k + 1 <= D
      BY <3>4, <3>5, <3>6
    <3>8. Later(s + 1, k)
      BY <3>0, <3>2, <3>3, <3>7
    <3> HIDE DEF fine
    <3>9. Later(s, k + 1)
      BY <1>10, <3>2, <3>3, <3>7, <3>8
    <3> QED
      BY <3>1, <3>7, <3>9
  <2>3. fine \in SUBSET Nat
    OBVIOUS
  <2> HIDE DEF fine
  <2> QED
    BY <2>1, <2>2, <2>3, EveryNumber
<1>12. PICK n \in Nat : n + 1 = D /\ n >= count[1] + 7 /\ n >= (L + 10) - end[1]
  <2>1. PICK c \in Nat \ {0}, e \in Nat : c = count[1] /\ e = end[1]
    BY <1>4, <1>5
  <2>2. e = 1 + 2 * c + 1 /\ 1 + 2 * c <= L
    BY <1>4, <1>5, <2>1
  <2>3. D = 4 * (L + 1)
    BY <1>1, <1>2 DEF Depth
  <2>4. D - 1 \in Nat /\ (D - 1) + 1 = D /\ D - 1 >= c + 7 /\ D - 1 >= (L + 10) - e
    BY <2>2, <2>3
  <2> QED
    BY <2>1, <2>4
<1>13. Later(1, n)
  <2>1. PICK d \in Nat : d = N - 1
    OBVIOUS
  <2>2. d < N /\ N - d = 1 /\ n <= D
    BY <1>12, <2>1
  <2>3. d \in fine
    BY ONLY <1>11, d \in Nat
  <2> HIDE DEF Later
  <2> QED
    BY <1>12, <2>2, <2>3
<1>14. /\ f[n][<<"and", 1>>].next = end[1]
       /\ f[n][<<"and", 1>>].val <=> All(1)
  BY <1>5, <1>8, <1>12
<1>15. f[n + 1][<<"or", 1>>].val <=> f[n][<<"and", 1>>].val \/ f[n][<<"ors", end[1]>>].val
  <2>1. n + 1 <= Depth(text)
    BY <1>1, <1>12
  <2>a. PICK q : q = end[1]
    OBVIOUS
  <2>b. PICK p \in 1 .. Len(text) + 1 : p = 1
    BY <1>2
  <2>2. p = 1 /\ q = end[1]
    BY <2>a, <2>b
  <2>3. f[n][<<"and", p>>].next = q
    BY <1>14, <2>2
  <2>4. f[n + 1][<<"or", p>>].val <=> f[n][<<"and", p>>].val \/ f[n][<<"ors", q>>].val
    BY ONLY EveryCall(text, hit, f), n \in Nat, p \in 1 .. Len(text) + 1, <2>1, <2>3, ReadOr
  <2> QED
    BY <2>2, <2>4
<1>16. (\E s \in 1 .. N : All(s)) <=> All(1) \/ \E r \in 1 + 1 .. N : All(r)
  <2>1. \A r : r \in 1 .. N <=> r = 1 \/ r \in 1 + 1 .. N
    OBVIOUS
  <2> QED
    BY <2>1
<1>17. f[D][<<"or", 1>>].val <=> \E s \in 1 .. N : All(s)
  BY <1>12, <1>13, <1>14, <1>15, <1>16
<1> QED
  BY <1>1, <1>17 DEF All
-----------------------------------------------------------------------------
(* A rule and its objective.  One selection for every condition.           *)
LEMMA SelectionFacts ==
  ASSUME IsObjective(goal)
  PROVE  /\ \A s \in DOMAIN goal : \A i \in DOMAIN goal[s] :
              <<s, i>> \in DOMAIN Selections /\ Selections[<<s, i>>] = Selection(goal[s][i])
         /\ \A p \in DOMAIN Selections :
              \E s \in DOMAIN goal : \E i \in DOMAIN goal[s] : p = <<s, i>>
<1>1. DOMAIN Selections = {p \in Places : p[2] \in DOMAIN goal[p[1]]}
  BY DEF Selections
<1>2. ASSUME NEW s \in DOMAIN goal, NEW i \in DOMAIN goal[s]
      PROVE  <<s, i>> \in DOMAIN Selections /\ Selections[<<s, i>>] = Selection(goal[s][i])
  <2>1. i \in UNION {DOMAIN goal[r] : r \in DOMAIN goal}
    OBVIOUS
  <2>2. <<s, i>> \in Places
    BY <2>1 DEF Places
  <2>3. <<s, i>> \in DOMAIN Selections
    BY <1>1, <2>2
  <2> QED
    BY <2>3, <1>1 DEF Selections
<1>3. ASSUME NEW p \in DOMAIN Selections
      PROVE  \E s \in DOMAIN goal : \E i \in DOMAIN goal[s] : p = <<s, i>>
  <2>1. p \in Places /\ p[2] \in DOMAIN goal[p[1]]
    BY <1>1
  <2>2. PICK s \in DOMAIN goal, i \in UNION {DOMAIN goal[r] : r \in DOMAIN goal} : p = <<s, i>>
    BY <2>1 DEF Places
  <2>3. i \in DOMAIN goal[s]
    BY <2>1, <2>2
  <2> QED
    BY <2>2, <2>3
<1> QED
  BY <1>2, <1>3

(* The selection of a condition with one matcher hits what the condition   *)
(* matches.                                                                *)
LEMMA SelectionOfCondition ==
  ASSUME NEW c, IsCondition(c), Cardinality(DOMAIN c.by) = 1, NEW e
  PROVE  SelectionHit(Selection(c), e) <=> ConditionHit(c, e)
<1>1. IsFiniteSet(DOMAIN c.by)
  <2>1. IsFiniteSet({"equals", "contains", "regex"})
    <3>1. IsFiniteSet({}) /\ IsFiniteSet({} \cup {"equals"})
          /\ IsFiniteSet(({} \cup {"equals"}) \cup {"contains"})
          /\ IsFiniteSet((({} \cup {"equals"}) \cup {"contains"}) \cup {"regex"})
      BY FS_EmptySet, FS_AddElement
    <3>2. {"equals", "contains", "regex"} = (({} \cup {"equals"}) \cup {"contains"}) \cup {"regex"}
      OBVIOUS
    <3> QED
      BY <3>1, <3>2
  <2>2. DOMAIN c.by \in SUBSET {"equals", "contains", "regex"}
    BY DEF IsCondition, Kinds
  <2> QED
    BY ONLY <2>1, <2>2, FS_Subset
<1>2. PICK k : DOMAIN c.by = {k}
  <2>1. PICK S : S = DOMAIN c.by
    OBVIOUS
  <2>2. IsFiniteSet(S) /\ Cardinality(S) = 1
    BY <1>1, <2>1
  <2>3. \E x : S = {x}
    BY ONLY <2>2, FS_Singleton
  <2> QED
    BY <2>1, <2>3
<1>3. k \in {"equals", "contains", "regex"}
  BY <1>2 DEF IsCondition, Kinds
<1>4. CASE k = "equals"
  <2>1. Matcher(c) = "equals"
    BY <1>2, <1>4 DEF Matcher
  <2>2. Selection(c) = [field |-> c.field, wanted |-> c.by["equals"], mod |-> "cased"]
    BY <2>1 DEF Selection, Modifier
  <2>3. ASSUME NEW t PROVE ModifierHit("cased", c.by["equals"], t) <=> t = c.by["equals"]
    BY DEF ModifierHit
  <2>4. SelectionHit(Selection(c), e) <=> \E t \in e[c.field] : t = c.by["equals"]
    BY <2>2, <2>3 DEF SelectionHit
  <2>5. ConditionHit(c, e) <=> \E t \in e[c.field] : t = c.by["equals"]
    BY <1>2, <1>4 DEF ConditionHit
  <2> QED
    BY <2>4, <2>5
<1>5. CASE k = "contains"
  <2>1. Matcher(c) = "contains"
    BY <1>2, <1>5 DEF Matcher
  <2>2. Selection(c) = [field |-> c.field, wanted |-> c.by["contains"], mod |-> "contains"]
    BY <2>1 DEF Selection, Modifier
  <2>3. ASSUME NEW t
        PROVE  ModifierHit("contains", c.by["contains"], t) <=> PartOf(c.by["contains"], t)
    BY DEF ModifierHit
  <2>4. SelectionHit(Selection(c), e) <=> \E t \in e[c.field] : PartOf(c.by["contains"], t)
    BY <2>2, <2>3 DEF SelectionHit
  <2>5. ConditionHit(c, e) <=> \E t \in e[c.field] : PartOf(c.by["contains"], t)
    BY <1>2, <1>5 DEF ConditionHit
  <2> QED
    BY <2>4, <2>5
<1>6. CASE k = "regex"
  <2>1. Matcher(c) = "regex"
    BY <1>2, <1>6 DEF Matcher
  <2>2. Selection(c) = [field |-> c.field, wanted |-> c.by["regex"], mod |-> "re"]
    BY <2>1 DEF Selection, Modifier
  <2>3. ASSUME NEW t PROVE ModifierHit("re", c.by["regex"], t) <=> t \in c.by["regex"]
    BY DEF ModifierHit
  <2>4. SelectionHit(Selection(c), e) <=> \E t \in e[c.field] : t \in c.by["regex"]
    BY <2>2, <2>3 DEF SelectionHit
  <2>5. ConditionHit(c, e) <=> \E t \in e[c.field] : t \in c.by["regex"]
    BY <1>2, <1>6 DEF ConditionHit
  <2> QED
    BY <2>4, <2>5
<1> QED
  BY <1>3, <1>4, <1>5, <1>6

(* Compile and evaluate: for every objective, the evaluator, run over the  *)
(* condition that is compiled from it, fires on just the events on which   *)
(* all selections of one of its signals hit.                               *)
THEOREM RuleMatches ==
  ASSUME IsObjective(goal), NEW e
  PROVE  RuleHit(e) <=> \E s \in DOMAIN goal : \A i \in DOMAIN goal[s] :
                          SelectionHit(Selection(goal[s][i]), e)
<1>1. PICK N, hit, text :
        /\ N = Len(goal) /\ text = ConditionText
        /\ hit = [p \in DOMAIN Selections |-> SelectionHit(Selections[p], e)]
  OBVIOUS
<1>2. PICK count : count = [s \in 1 .. N |-> Len(goal[s])]
  OBVIOUS
<1>3. /\ N \in Nat \ {0} /\ DOMAIN goal = 1 .. N
      /\ \A s \in 1 .. N : count[s] \in Nat \ {0} /\ DOMAIN goal[s] = 1 .. count[s]
      /\ \E start : Laid(text, start, count, N)
  <2>1. N = Len(goal)
    BY <1>1
  <2>2. /\ N \in Nat \ {0} /\ DOMAIN goal = 1 .. N
        /\ \A s \in 1 .. N : count[s] \in Nat \ {0} /\ DOMAIN goal[s] = 1 .. count[s]
        /\ \E start : Laid(ConditionText, start, count, N)
    BY ONLY IsObjective(goal), <2>1, <1>2, RuleText
  <2> QED
    BY <1>1, <2>2
<1>4. PICK start : Laid(text, start, count, N)
  BY <1>3
<1>5. PICK f : Parsed(text, hit, f) /\ Evaluated(text, hit) = f[Depth(text)][<<"or", 1>>].val
  BY <1>4, EvaluatedUnfolds DEF Laid
<1>6. EveryCall(text, hit, f)
  BY <1>4, <1>5, ParsedCalls DEF Laid
<1>7. PICK met : met = [s \in 1 .. N |-> [i \in 1 .. count[s] |->
                   IF SelectionHit(Selection(goal[s][i]), e) THEN TRUE ELSE FALSE]]
  OBVIOUS
<1>8. ASSUME NEW s \in 1 .. N, NEW i \in 1 .. count[s]
      PROVE  /\ met[s][i] \in BOOLEAN
             /\ met[s][i] <=> SelectionHit(Selection(goal[s][i]), e)
             /\ hit[<<s, i>>] <=> met[s][i]
  <2>1. s \in DOMAIN goal /\ i \in DOMAIN goal[s]
    BY <1>3
  <2>2. <<s, i>> \in DOMAIN Selections /\ Selections[<<s, i>>] = Selection(goal[s][i])
    BY <2>1, SelectionFacts
  <2>3. hit[<<s, i>>] <=> SelectionHit(Selection(goal[s][i]), e)
    BY <1>1, <2>2
  <2>4. met[s][i] = IF SelectionHit(Selection(goal[s][i]), e) THEN TRUE ELSE FALSE
    BY <1>7
  <2> QED
    BY <2>3, <2>4
<1>9. ASSUME NEW s \in 1 .. N PROVE Answered(hit, s, count[s], met[s])
  <2>1. met[s] \in [1 .. count[s] -> BOOLEAN]
    <3>1. PICK m, n : m = met[s] /\ n = count[s]
      OBVIOUS
    <3>2. m = [i \in 1 .. n |-> m[i]] /\ \A i \in 1 .. n : m[i] \in BOOLEAN
      BY <1>7, <1>8, <3>1
    <3> QED
      BY <3>1, <3>2
  <2> QED
    BY <1>8, <2>1 DEF Answered
<1>10. f[Depth(text)][<<"or", 1>>].val <=> \E s \in 1 .. N : \A i \in 1 .. count[s] : met[s][i]
  <2>1. N \in Nat \ {0}
    BY <1>3
  <2>2. \A s \in 1 .. N : count[s] \in Nat \ {0}
    BY <1>3
  <2>3. \A s \in 1 .. N : Answered(hit, s, count[s], met[s])
    BY <1>9
  <2> QED
    BY ONLY <1>4, <1>6, <2>1, <2>2, <2>3, RuleRead
<1>11. RuleHit(e) <=> \E s \in 1 .. N : \A i \in 1 .. count[s] : met[s][i]
  <2>1. RuleHit(e) = Evaluated(text, hit)
    BY <1>1 DEF RuleHit
  <2> QED
    BY <1>5, <1>10, <2>1
<1>12. ASSUME NEW s \in 1 .. N
       PROVE  (\A i \in 1 .. count[s] : met[s][i]) <=>
                \A i \in DOMAIN goal[s] : SelectionHit(Selection(goal[s][i]), e)
  <2>1. DOMAIN goal[s] = 1 .. count[s]
    BY <1>3
  <2>2. \A i \in 1 .. count[s] : met[s][i] <=> SelectionHit(Selection(goal[s][i]), e)
    BY <1>8
  <2> QED
    BY ONLY <2>1, <2>2
<1>13. DOMAIN goal = 1 .. N
  BY <1>3
<1> QED
  BY <1>11, <1>12, <1>13

(* The rule of an objective with one matcher per condition matches an      *)
(* event just when the scorer says that a signal is hit.                   *)
LEMMA RuleScores ==
  ASSUME IsObjective(goal), NEW e,
         \A s \in DOMAIN goal : \A i \in DOMAIN goal[s] : Cardinality(DOMAIN goal[s][i].by) = 1
  PROVE  RuleHit(e) <=> Scored(e)
<1>1. ASSUME NEW s \in DOMAIN goal, NEW i \in DOMAIN goal[s]
      PROVE  SelectionHit(Selection(goal[s][i]), e) <=> ConditionHit(goal[s][i], e)
  <2>1. PICK c : c = goal[s][i]
    OBVIOUS
  <2>2. IsCondition(c) /\ Cardinality(DOMAIN c.by) = 1
    BY <2>1 DEF IsObjective
  <2>3. SelectionHit(Selection(c), e) <=> ConditionHit(c, e)
    BY ONLY <2>2, SelectionOfCondition
  <2> QED
    BY <2>1, <2>3
<1>2. ASSUME NEW s \in DOMAIN goal
      PROVE  (\A i \in DOMAIN goal[s] : SelectionHit(Selection(goal[s][i]), e)) <=>
               SignalHit(goal[s], e)
  BY <1>1 DEF SignalHit
<1>3. RuleHit(e) <=> \E s \in DOMAIN goal : \A i \in DOMAIN goal[s] :
                       SelectionHit(Selection(goal[s][i]), e)
  BY RuleMatches
<1> QED
  BY <1>2, <1>3 DEF Scored

(* The fields of a rule are those of its conditions.                       *)
LEMMA RuleFields ==
  ASSUME IsObjective(goal)
  PROVE  Overfit = {} <=> \A s \in DOMAIN goal : \A i \in DOMAIN goal[s] :
                            goal[s][i].field \notin Ephemeral
<1>1. ASSUME NEW s \in DOMAIN goal, NEW i \in DOMAIN goal[s]
      PROVE  <<s, i>> \in DOMAIN Selections /\ Selections[<<s, i>>].field = goal[s][i].field
  <2>1. <<s, i>> \in DOMAIN Selections /\ Selections[<<s, i>>] = Selection(goal[s][i])
    BY SelectionFacts
  <2> QED
    BY <2>1 DEF Selection
<1>2. ASSUME NEW p \in DOMAIN Selections
      PROVE  \E s \in DOMAIN goal : \E i \in DOMAIN goal[s] :
               Selections[p].field = goal[s][i].field
  <2>1. PICK s \in DOMAIN goal : \E i \in DOMAIN goal[s] : p = <<s, i>>
    BY SelectionFacts
  <2>2. PICK i \in DOMAIN goal[s] : p = <<s, i>>
    BY <2>1
  <2> QED
    BY <1>1, <2>2
<1>3. ASSUME Overfit = {}, NEW s \in DOMAIN goal, NEW i \in DOMAIN goal[s],
             goal[s][i].field \in Ephemeral
      PROVE  FALSE
  BY <1>1, <1>3 DEF Overfit
<1>4. ASSUME NEW x \in Overfit
      PROVE  \E s \in DOMAIN goal : \E i \in DOMAIN goal[s] : goal[s][i].field \in Ephemeral
  <2>1. PICK p \in DOMAIN Selections : x = Selections[p].field /\ x \in Ephemeral
    BY DEF Overfit
  <2> QED
    BY <1>2, <2>1
<1> QED
  BY <1>3, <1>4

(* An objective that was given, and logs of events.                        *)
RuleInv == goal \in Goals /\ attack \in Seq(LogEvents) /\ benign \in Seq(LogEvents)

(* Event by event, hence count by count.                                   *)
LEMMA RuleInvAgrees == RuleInv => RuleAgreesWithScore
<1> SUFFICES ASSUME RuleInv,
                    \A s \in DOMAIN goal : \A i \in DOMAIN goal[s] :
                      Cardinality(DOMAIN goal[s][i].by) = 1
             PROVE  LET scored == [log |-> {i \in DOMAIN attack : Scored(attack[i])},
                                   noise |-> {i \in DOMAIN benign : Scored(benign[i])}]
                    IN  /\ Hits(attack) = Cardinality(scored.log)
                        /\ Hits(benign) = Cardinality(scored.noise)
                        /\ Grade = "VALID" <=>
                             /\ scored.log # {} /\ scored.noise = {}
                             /\ \A s \in DOMAIN goal : \A i \in DOMAIN goal[s] :
                                  goal[s][i].field \notin Ephemeral
  BY DEF RuleAgreesWithScore
<1>1. IsObjective(goal)
  BY RuleAssumption DEF RuleInv
<1>2. ASSUME NEW e PROVE RuleHit(e) <=> Scored(e)
  BY <1>1, RuleScores
<1>3. PICK found, noise : /\ found = {i \in DOMAIN attack : Scored(attack[i])}
                        /\ noise = {i \in DOMAIN benign : Scored(benign[i])}
  OBVIOUS
<1>4. Hits(attack) = Cardinality(found) /\ Hits(benign) = Cardinality(noise)
  <2>1. {i \in DOMAIN attack : RuleHit(attack[i])} = found
    BY <1>2, <1>3
  <2>2. {i \in DOMAIN benign : RuleHit(benign[i])} = noise
    BY <1>2, <1>3
  <2> QED
    BY <2>1, <2>2 DEF Hits
<1>5. IsFiniteSet(found) /\ IsFiniteSet(noise)
  <2>1. ASSUME NEW s \in Seq(LogEvents) PROVE IsFiniteSet(DOMAIN s)
    <3>1. PICK n \in Nat : n = Len(s)
      OBVIOUS
    <3>2. DOMAIN s = 1 .. n
      BY <3>1
    <3>3. 1 \in Int /\ n \in Int
      OBVIOUS
    <3>4. IsFiniteSet(1 .. n)
      BY ONLY <3>3, FS_Interval
    <3> QED
      BY <3>2, <3>4
  <2>2. IsFiniteSet(DOMAIN attack) /\ IsFiniteSet(DOMAIN benign)
    BY <2>1 DEF RuleInv
  <2>3. found \in SUBSET DOMAIN attack /\ noise \in SUBSET DOMAIN benign
    BY <1>3
  <2> QED
    BY <2>2, <2>3, FS_Subset
<1>6. /\ Cardinality(found) \in Nat /\ Cardinality(noise) \in Nat
      /\ Cardinality(found) = 0 <=> found = {}
      /\ Cardinality(noise) = 0 <=> noise = {}
  BY <1>5, FS_CardinalityType, FS_EmptySet
<1>7. Grade = "VALID" <=> found # {} /\ noise = {} /\ Overfit = {}
  <2>1. Hits(attack) = 0 <=> found = {}
    BY <1>4, <1>6
  <2>2. Hits(benign) > 0 <=> noise # {}
    BY <1>4, <1>6
  <2> QED
    BY <2>1, <2>2 DEF Grade
<1>8. Overfit = {} <=> \A s \in DOMAIN goal : \A i \in DOMAIN goal[s] :
                         goal[s][i].field \notin Ephemeral
  BY <1>1, RuleFields
<1> QED
  BY <1>3, <1>4, <1>7, <1>8

(* "matches exactly the events the objective scores as MET": for every set *)
(* of objectives and every log, a compiled rule counts what the scorer     *)
(* counts and is called VALID just when it should be.                      *)
THEOREM RulesAgree == RuleSpec => []RuleAgreesWithScore
<1>1. RuleInit => RuleInv
  BY DEF RuleInit, RuleInv
<1>2. RuleInv /\ [RuleNext]_ruleVars => RuleInv'
  <2> SUFFICES ASSUME RuleInv, [RuleNext]_ruleVars PROVE RuleInv'
    OBVIOUS
  <2>1. ASSUME NEW e \in LogEvents, ReadAttack(e) PROVE RuleInv'
    BY <2>1 DEF ReadAttack, RuleInv
  <2>2. ASSUME NEW e \in LogEvents, ReadBenign(e) PROVE RuleInv'
    BY <2>2 DEF ReadBenign, RuleInv
  <2>3. CASE UNCHANGED ruleVars
    BY <2>3 DEF ruleVars, RuleInv
  <2> QED
    BY <2>1, <2>2, <2>3 DEF RuleNext
<1> QED
  BY <1>1, <1>2, RuleInvAgrees, PTL DEF RuleSpec
=============================================================================
