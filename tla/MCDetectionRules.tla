-------------------------- MODULE MCDetectionRules --------------------------
(* Objectives of one and two signals, of one and two conditions: all three *)
(* matchers, two conditions on one field, a field that names the attacker. *)
EXTENDS DetectionRules

CONSTANTS bind, unbind

T(word, case) == [word |-> word, case |-> case]
MCWords == {bind, unbind}
MCPartsOf == {<<bind, unbind>>}

By(kind, x) == [k \in {kind} |-> x]
Cond(field, by) == [field |-> field, by |-> by]
Action(x) == Cond("action", By("equals", x))
Has(x) == Cond("action", By("contains", x))
Found(S) == Cond("path", By("regex", S))
From == Cond("source", By("equals", T(bind, "lower")))
Two == Cond("action", [equals |-> T(bind, "lower"), contains |-> T(unbind, "upper")])

MCGoals ==
  {<<<<Action(T(bind, "lower"))>>>>,
   <<<<Has(T(bind, "upper")), Action(T(unbind, "lower"))>>>>,
   <<<<Has(T(unbind, "lower")), Found({T(bind, "lower")})>>, <<Action(T(bind, "upper"))>>>>,
   <<<<Found({T(bind, "upper")})>>, <<Has(T(unbind, "lower"))>>>>,
   <<<<From>>>>, <<<<Two>>>>}

Texts == [word : MCWords, case : Cases]
MCEvents ==
  [{"action", "path", "source"} -> {{}, {T(bind, "lower")}}]
  \cup {[f \in {"action", "path", "source"} |->
           IF f = "action" THEN a ELSE IF f = "path" THEN p ELSE {}] :
         a \in {{t} : t \in Texts} \cup {{T(bind, "lower"), T(unbind, "lower")}},
         p \in {{}, {T(bind, "lower")}, {T(bind, "upper")}}}
=============================================================================
