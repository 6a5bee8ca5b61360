--------------------------- MODULE DetectionRules ---------------------------
(***************************************************************************)
(* From an objective to a detection rule (detect.py and cmd_detect): the   *)
(* signals are compiled to a Sigma rule, the rule is run over an attack    *)
(* log and a benign one, and it is written only when it fires on the first *)
(* and never on the second.  The scorer judges the same logs by the        *)
(* signals themselves (scoring.py).                                        *)
(*                                                                         *)
(* A text is a word and the case it is written in; `PartsOf` says which    *)
(* words contain which, and a pattern is the set of texts it is found in.  *)
(***************************************************************************)
EXTENDS Integers, Sequences, FiniteSets, SequencesExt

CONSTANTS
  Fields,      \* paths into an event
  Ephemeral,   \* those that change with the attacker (EPHEMERAL_FIELDS)
  Words,       \* words in texts
  PartsOf,     \* pairs of words: the first is part of the second
  Goals,       \* objectives to compile
  LogEvents,   \* events a log may hold
  MaxLog       \* bound: the length of both logs together

Cases == {"lower", "upper"}
Wording == [word : Words, case : Cases]
Kinds == {"equals", "contains", "regex"}
Wanted == [equals |-> Wording, contains |-> Wording, regex |-> SUBSET Wording]

(* Condition, Signal, and an Objective that compile_objective does not     *)
(* leave out: one matcher at least, one condition at least, one signal.    *)
IsCondition(c) ==
  /\ c.field \in Fields
  /\ DOMAIN c.by \in SUBSET Kinds \ {{}} /\ \A k \in DOMAIN c.by : c.by[k] \in Wanted[k]
Listing(s) == Len(s) \in Nat \ {0} /\ DOMAIN s = 1 .. Len(s)
IsObjective(g) ==
  /\ Listing(g)
  /\ \A s \in DOMAIN g : Listing(g[s]) /\ \A i \in DOMAIN g[s] : IsCondition(g[s][i])

ASSUME RuleAssumption == \A g \in Goals : IsObjective(g)

VARIABLES
  goal,    \* the objective: signals, each a sequence of conditions
  attack,  \* the attack log
  benign   \* the benign log

ruleVars == <<goal, attack, benign>>

(* field |-> the texts found there; none when the path leads nowhere.      *)
LogEvent == [Fields -> SUBSET Wording]
-----------------------------------------------------------------------------
(* Matching: of a field modifier in a rule, and of a condition.            *)
PartOf(x, y) == x.word = y.word \/ <<x.word, y.word>> \in PartsOf

ModifierHit(mod, wanted, text) ==
  CASE mod = "cased" -> text = wanted
    [] mod = "contains" -> PartOf(wanted, text)
    [] mod = "re" -> text \in wanted
    [] mod = "plain" -> text.word = wanted.word

SelectionHit(sel, e) == \E t \in e[sel.field] : ModifierHit(sel.mod, sel.wanted, t)

(* _condition_matches: any matcher that is set, on any value.              *)
ConditionHit(c, e) ==
  \E t \in e[c.field] :
    \/ "equals" \in DOMAIN c.by /\ t = c.by["equals"]
    \/ "contains" \in DOMAIN c.by /\ PartOf(c.by["contains"], t)
    \/ "regex" \in DOMAIN c.by /\ t \in c.by["regex"]

SignalHit(signal, e) == \A i \in DOMAIN signal : ConditionHit(signal[i], e)
Scored(e) == \E s \in DOMAIN goal : SignalHit(goal[s], e)
-----------------------------------------------------------------------------
(* compile_objective: a selection for every condition, named by its place, *)
(* and a condition that joins them.                                        *)
Modifier == [equals |-> "cased", contains |-> "contains", regex |-> "re"]

(* The first matcher that is set.                                          *)
Matcher(c) ==
  IF "equals" \in DOMAIN c.by THEN "equals"
  ELSE IF "contains" \in DOMAIN c.by THEN "contains" ELSE "regex"

\* Mutation: a plain selection, which does not tell cases apart.
SelectionPlain(c) ==
  [field |-> c.field, wanted |-> c.by[Matcher(c)],
   mod |-> IF Matcher(c) = "equals" THEN "plain" ELSE Modifier[Matcher(c)]]

(* _condition_selection.                                                   *)
Selection(c) ==
  [field |-> c.field, wanted |-> c.by[Matcher(c)], mod |-> Modifier[Matcher(c)]]

Places == {<<s, i>> : s \in DOMAIN goal, i \in UNION {DOMAIN goal[s] : s \in DOMAIN goal}}
Selections ==
  [p \in {p \in Places : p[2] \in DOMAIN goal[p[1]]} |-> Selection(goal[p[1]][p[2]])]

Sign(s) == [sign |-> s]
Name(p) == [sign |-> "name", at |-> p]
Joined(parts, sign) ==
  FlattenSeq([n \in DOMAIN parts |->
                IF n = 1 THEN parts[n] ELSE <<Sign(sign)>> \o parts[n]])

\* Mutation: the signals are not put in parentheses, and joined by "and".
ConditionTextFlat ==
  Joined([s \in DOMAIN goal |->
            Joined([i \in DOMAIN goal[s] |-> <<Name(<<s, i>>)>>], "or")], "and")

ConditionText ==
  Joined([s \in DOMAIN goal |->
            <<Sign("(")>> \o Joined([i \in DOMAIN goal[s] |-> <<Name(<<s, i>>)>>], "and")
              \o <<Sign(")")>>], "or")

(* _eval_condition: recursive descent.  A call is a level and a position;  *)
(* it gives a value and the position after what it has read.  "ors" and    *)
(* "ands" are the loops of the two binary levels.  `below` is what the     *)
(* calls give that this one makes.                                         *)
Levels == {"or", "ors", "and", "ands", "not", "atom"}
IsSign(text, p, sign) == p <= Len(text) /\ text[p].sign = sign

Both(below, first, p, rest) ==
  LET a == below[<<first, p>>]
      b == below[<<rest, a.next>>]
  IN  [val |-> IF rest = "ors" THEN a.val \/ b.val ELSE a.val /\ b.val, next |-> b.next]

Called(text, hit, below, level, p) ==
  CASE level = "or" -> Both(below, "and", p, "ors")
    [] level = "ors" ->
         IF IsSign(text, p, "or") THEN Both(below, "and", p + 1, "ors")
         ELSE [val |-> FALSE, next |-> p]
    [] level = "and" -> Both(below, "not", p, "ands")
    [] level = "ands" ->
         IF IsSign(text, p, "and") THEN Both(below, "not", p + 1, "ands")
         ELSE [val |-> TRUE, next |-> p]
    [] level = "not" ->
         IF IsSign(text, p, "not")
         THEN LET a == below[<<"not", p + 1>>] IN [a EXCEPT !.val = ~@]
         ELSE below[<<"atom", p>>]
    [] level = "atom" ->
         IF IsSign(text, p, "(")
         THEN LET a == below[<<"or", p + 1>>]
              IN  [val |-> a.val,
                   next |-> IF IsSign(text, a.next, ")") THEN a.next + 1 ELSE a.next]
         ELSE [val |-> hit[text[p].at], next |-> p + 1]

(* No call is nested deeper: to read one token takes four levels at most.  *)
Depth(text) == 4 * (Len(text) + 1)

Evaluated(text, hit) ==
  LET parse[n \in 0 .. Depth(text)] ==
        [call \in Levels \X (1 .. Len(text) + 1) |->
           IF n = 0 THEN [val |-> FALSE, next |-> call[2]]
           ELSE Called(text, hit, parse[n - 1], call[1], call[2])]
  IN  parse[Depth(text)][<<"or", 1>>].val

(* rule_matches.                                                           *)
RuleHit(e) ==
  Evaluated(ConditionText, [p \in DOMAIN Selections |-> SelectionHit(Selections[p], e)])

(* validate: its verdict over the two logs.                                *)
Hits(log) == Cardinality({i \in DOMAIN log : RuleHit(log[i])})
Overfit == {Selections[p].field : p \in DOMAIN Selections} \cap Ephemeral

Grade ==
  IF Hits(attack) = 0 THEN "MISS" ELSE IF Hits(benign) > 0 THEN "NOISY"
  ELSE IF Overfit # {} THEN "OVERFIT" ELSE "VALID"
-----------------------------------------------------------------------------
RuleInit == goal \in Goals /\ attack = <<>> /\ benign = <<>>

(* parse_events gives one more event of a log.                             *)
ReadAttack(e) ==
  /\ Len(attack) + Len(benign) < MaxLog /\ attack' = Append(attack, e) /\ UNCHANGED <<goal, benign>>
ReadBenign(e) ==
  /\ Len(attack) + Len(benign) < MaxLog /\ benign' = Append(benign, e) /\ UNCHANGED <<goal, attack>>

RuleNext == \E e \in LogEvents : ReadAttack(e) \/ ReadBenign(e)

RuleSpec == RuleInit /\ [][RuleNext]_ruleVars
-----------------------------------------------------------------------------
(* "matches exactly the events the objective scores as MET": a rule whose  *)
(* objective has one matcher per condition counts on both logs what the    *)
(* scorer counts, and is called VALID just when the objective is met on    *)
(* the attack, is not on the benign log, and names no attacker.            *)
RuleAgreesWithScore ==
  LET scored == [log |-> {i \in DOMAIN attack : Scored(attack[i])},
                 noise |-> {i \in DOMAIN benign : Scored(benign[i])}]
  IN  (\A s \in DOMAIN goal : \A i \in DOMAIN goal[s] :
         Cardinality(DOMAIN goal[s][i].by) = 1) =>
        /\ Hits(attack) = Cardinality(scored.log)
        /\ Hits(benign) = Cardinality(scored.noise)
        /\ Grade = "VALID" <=>
             /\ scored.log # {} /\ scored.noise = {}
             /\ \A s \in DOMAIN goal : \A i \in DOMAIN goal[s] :
                  goal[s][i].field \notin Ephemeral
=============================================================================
