---------------------------- MODULE SharedLemmas ----------------------------
(***************************************************************************)
(* Facts that the proofs of several modules need.  About natural numbers:  *)
(* least and greatest elements, induction about a set of numbers, and the  *)
(* existence of a value that is built up in a number of steps, by which    *)
(* the recursive functions of the models are unfolded.  About lists: what  *)
(* a list that is put together of others holds, and at which places.       *)
(***************************************************************************)
EXTENDS Integers, SequencesExt, WellFoundedInduction, TLAPS

(* The least number of a set, and induction about a set of numbers.        *)
Below == {p \in Nat \X Nat : p[1] < p[2]}

LEMMA BelowIsWellFounded == IsWellFoundedOn(Below, Nat)
BY Zenon, NatLessThanWellFounded DEF Below, OpToRel

(* The least number of a set.                                              *)
LEMMA LeastExists ==
  ASSUME NEW S \in SUBSET Nat, S # {}
  PROVE  \E m \in S : \A n \in S : m <= n
<1>1. PICK m \in S : \A n \in S : ~ (<<n, m>> \in Below)
  BY Zenon, BelowIsWellFounded, WFMin
<1>2. ASSUME NEW n \in S PROVE m <= n
  <2>1. <<n, m>> \in Nat \X Nat /\ <<n, m>>[1] = n /\ <<n, m>>[2] = m
    OBVIOUS
  <2> QED
    BY <1>1, <2>1 DEF Below
<1> QED
  BY <1>2

(* A set with 0 and every successor holds every number.                    *)
LEMMA EveryNumber ==
  ASSUME NEW S \in SUBSET Nat, 0 \in S, \A n \in S : n + 1 \in S
  PROVE  S = Nat
<1>1. SUFFICES ASSUME Nat \ S # {} PROVE FALSE
  OBVIOUS
<1>2. PICK m \in Nat \ S : \A n \in Nat \ S : m <= n
  BY <1>1, LeastExists
<1>3. m # 0 /\ m - 1 \in Nat /\ (m - 1) + 1 = m /\ ~ (m <= m - 1)
  BY <1>2
<1> QED
  BY <1>2, <1>3

(* The greatest number of a set that is bounded.                           *)
LEMMA GreatestExists ==
  ASSUME NEW S \in SUBSET Nat, S # {}, NEW N \in Nat, \A n \in S : n <= N
  PROVE  \E m \in S : \A n \in S : n <= m
<1> DEFINE T == {k \in Nat : N - k \in S}
<1>1. T \in SUBSET Nat /\ T # {}
  <2>1. PICK n \in S : TRUE
    OBVIOUS
  <2>2. N - n \in Nat /\ N - (N - n) = n
    OBVIOUS
  <2> QED
    BY <2>2
<1>2. PICK k \in T : \A j \in T : k <= j
  <2> HIDE DEF T
  <2> QED
    BY <1>1, LeastExists
<1>3. ASSUME NEW n \in S PROVE n <= N - k
  <2>1. N - n \in Nat /\ N - (N - n) = n
    OBVIOUS
  <2>2. k <= N - n
    BY <1>2, <2>1
  <2> QED
    BY <2>2
<1> QED
  BY <1>2, <1>3

(* A value that is built up in N steps.                                    *)
LEMMA FiniteRecursion ==
  ASSUME NEW S, NEW base \in S, NEW N \in Nat, NEW step \in [1 .. N -> [S -> S]]
  PROVE  \E f \in [0 .. N -> S] :
            f[0] = base /\ \A n \in 1 .. N : f[n] = step[n][f[n - 1]]
<1> DEFINE Built(f, m) == /\ f \in [0 .. m -> S] /\ f[0] = base
                          /\ \A n \in 1 .. m : f[n] = step[n][f[n - 1]]
           sizes == {m \in Nat : m <= N => \E f : Built(f, m)}
<1>1. 0 \in sizes
  <2>1. Built([i \in 0 .. 0 |-> base], 0)
    OBVIOUS
  <2> QED
    BY <2>1
<1>2. ASSUME NEW m \in sizes PROVE m + 1 \in sizes
  <2> SUFFICES ASSUME m + 1 <= N PROVE \E f : Built(f, m + 1)
    OBVIOUS
  <2>1. PICK f : Built(f, m)
    OBVIOUS
  <2>2. f[m] \in S /\ m + 1 \in 1 .. N
    BY <2>1
  <2>3. step[m + 1][f[m]] \in S
    BY <2>2
  <2> DEFINE g == [i \in 0 .. (m + 1) |-> IF i <= m THEN f[i] ELSE step[m + 1][f[m]]]
  <2>4. g \in [0 .. (m + 1) -> S] /\ g[0] = base
    BY <2>1, <2>3
  <2>5. ASSUME NEW n \in 1 .. (m + 1) PROVE g[n] = step[n][g[n - 1]]
    <3>0. m \in Nat /\ n \in Nat /\ n >= 1 /\ n <= m + 1
      OBVIOUS
    <3>1. g[n - 1] = f[n - 1]
      OBVIOUS
    <3>2. CASE n <= m
      <4>1. g[n] = f[n] /\ f[n] = step[n][f[n - 1]]
        BY <2>1, <3>0, <3>2
      <4> HIDE DEF g
      <4> QED
        BY <3>1, <4>1
    <3>3. CASE n = m + 1
      <4>1. g[m + 1] = step[m + 1][f[m]] /\ n - 1 = m
        BY <3>0, <3>3
      <4> HIDE DEF g
      <4> QED
        BY <3>1, <3>3, <4>1
    <3>4. n <= m \/ n = m + 1
      BY <3>0
    <3> HIDE DEF g
    <3> QED
      BY <3>2, <3>3, <3>4
  <2>6. Built(g, m + 1)
    BY <2>4, <2>5
  <2> QED
    BY <2>6
<1>3. sizes = Nat
  <2> HIDE DEF sizes
  <2>1. sizes \in SUBSET Nat
    BY DEF sizes
  <2> QED
    BY <1>1, <1>2, <2>1, EveryNumber
<1>4. N \in sizes
  <2> HIDE DEF sizes
  <2> QED
    BY <1>3
<1>5. PICK f : Built(f, N)
  <2>1. N <= N => \E f : Built(f, N)
    BY <1>4
  <2> HIDE DEF Built
  <2> QED
    BY <2>1
<1> QED
  BY <1>5

(* Two values that are built up alike are the same.                        *)
LEMMA SameRecursion ==
  ASSUME NEW N \in Nat, NEW f, NEW g, f[0] = g[0],
         \A n \in 1 .. N : f[n - 1] = g[n - 1] => f[n] = g[n]
  PROVE  \A n \in 0 .. N : f[n] = g[n]
<1> DEFINE same == {m \in Nat : m <= N => f[m] = g[m]}
<1>1. 0 \in same
  OBVIOUS
<1>2. ASSUME NEW m \in same PROVE m + 1 \in same
  <2> SUFFICES ASSUME m + 1 <= N PROVE f[m + 1] = g[m + 1]
    OBVIOUS
  <2>1. m + 1 \in 1 .. N /\ (m + 1) - 1 = m /\ f[m] = g[m]
    OBVIOUS
  <2> QED
    BY <2>1
<1>3. same = Nat
  <2>1. same \in SUBSET Nat
    OBVIOUS
  <2> HIDE DEF same
  <2> QED
    BY <1>1, <1>2, <2>1, EveryNumber
<1> QED
  BY <1>3
-----------------------------------------------------------------------------
(* What a list made of two, or of many, lists holds.                       *)
LEMMA JoinedElements ==
  ASSUME NEW S, NEW s \in Seq(S), NEW t \in Seq(S)
  PROVE  /\ s \o t \in Seq(S)
         /\ ToSet(s \o t) = ToSet(s) \cup ToSet(t)
<1>1. s \o t \in Seq(S) /\ DOMAIN (s \o t) = 1 .. Len(s) + Len(t)
      /\ Len(s) \in Nat /\ Len(t) \in Nat /\ DOMAIN s = 1 .. Len(s) /\ DOMAIN t = 1 .. Len(t)
  OBVIOUS
<1>2. ASSUME NEW i \in DOMAIN s PROVE (s \o t)[i] = s[i] /\ i \in DOMAIN (s \o t)
  BY <1>1
<1>3. ASSUME NEW i \in DOMAIN t
      PROVE  (s \o t)[Len(s) + i] = t[i] /\ Len(s) + i \in DOMAIN (s \o t)
  BY <1>1
<1>4. ASSUME NEW i \in DOMAIN (s \o t)
      PROVE  (s \o t)[i] \in ToSet(s) \cup ToSet(t)
  <2>1. CASE i <= Len(s)
    <3>1. i \in DOMAIN s
      BY <1>1, <2>1
    <3> QED
      BY <1>2, <3>1 DEF ToSet
  <2>2. CASE i > Len(s)
    <3>1. i - Len(s) \in DOMAIN t /\ (s \o t)[i] = t[i - Len(s)]
      BY <1>1, <2>2
    <3> QED
      BY <3>1 DEF ToSet
  <2> QED
    BY <1>1, <2>1, <2>2
<1>5. ToSet(s) \subseteq ToSet(s \o t) /\ ToSet(t) \subseteq ToSet(s \o t)
  BY <1>2, <1>3 DEF ToSet
<1>6. ToSet(s \o t) \subseteq ToSet(s) \cup ToSet(t)
  BY ONLY <1>4 DEF ToSet
<1> QED
  BY <1>1, <1>5, <1>6

(* A list of one, or of none.                                              *)
LEMMA SingleElement ==
  ASSUME NEW S, NEW x \in S
  PROVE  /\ <<x>> \in Seq(S) /\ ToSet(<<x>>) = {x}
         /\ <<>> \in Seq(S) /\ ToSet(<<>>) = {}
<1>1. DOMAIN <<x>> = {1} /\ <<x>>[1] = x
  OBVIOUS
<1>2. <<x>> \in Seq(S) /\ <<>> \in Seq(S)
  OBVIOUS
<1>3. ToSet(<<x>>) = {x}
  BY <1>1 DEF ToSet
<1>4. ToSet(<<>>) = {}
  BY DEF ToSet
<1> QED
  BY <1>2, <1>3, <1>4

(* `FlattenSeq` is built up list by list.                                  *)
LEMMA FlattenUnfolds ==
  ASSUME NEW S, NEW ss, ss \in Seq(Seq(S)), ss # <<>>
  PROVE  \E flat :
           /\ flat = [i \in 1 .. Len(ss) |-> IF i = 1 THEN ss[i] ELSE flat[i - 1] \o ss[i]]
           /\ FlattenSeq(ss) = flat[Len(ss)]
<1>a. PICK N : N = Len(ss)
  OBVIOUS
<1>b. PICK Q : Q = Seq(S)
  OBVIOUS
<1>0. N \in Nat \ {0} /\ \A n \in 1 .. N : ss[n] \in Q
  BY <1>a, <1>b
<1>c. PICK join : join = [n \in 1 .. N |-> [s \in Q |-> IF n = 1 THEN ss[n] ELSE s \o ss[n]]]
  OBVIOUS
<1>d. PICK base : base = ss[1]
  OBVIOUS
<1>1. N \in Nat /\ base \in Q /\ join \in [1 .. N -> [Q -> Q]]
  <2>1. \A n \in 1 .. N : \A s \in Q : s \o ss[n] \in Q
    BY <1>0, <1>b
  <2> QED
    BY <1>0, <1>c, <1>d, <2>1
<1>2. PICK f \in [0 .. N -> Q] :
        f[0] = base /\ \A n \in 1 .. N : f[n] = join[n][f[n - 1]]
  BY ONLY <1>1, FiniteRecursion
<1>3. ASSUME NEW n \in 1 .. N
      PROVE  f[n] = IF n = 1 THEN ss[n] ELSE f[n - 1] \o ss[n]
  <2>1. n - 1 \in 0 .. N
    BY <1>0
  <2>2. f[n - 1] \in Q
    BY <1>2, <2>1
  <2> QED
    BY <1>2, <1>c, <2>2
<1>4. PICK g : g = [i \in 1 .. N |-> f[i]]
  OBVIOUS
<1>5. ASSUME NEW n \in 1 .. N
      PROVE  g[n] = IF n = 1 THEN ss[n] ELSE g[n - 1] \o ss[n]
  <2>1. CASE n = 1
    BY <1>3, <1>4, <2>1
  <2>2. CASE n # 1
    <3>1. n - 1 \in 1 .. N
      BY <1>0, <2>2
    <3>2. g[n - 1] = f[n - 1] /\ g[n] = f[n]
      BY <1>4, <3>1
    <3>3. f[n] = f[n - 1] \o ss[n]
      BY <1>3, <2>2
    <3> QED
      BY <2>2, <3>2, <3>3
  <2> QED
    BY <2>1, <2>2
<1> DEFINE Body(h, i) == IF i = 1 THEN ss[i] ELSE h[i - 1] \o ss[i]
           flatten == CHOOSE h : h = [i \in 1 .. Len(ss) |-> Body(h, i)]
<1>6. g = [i \in 1 .. Len(ss) |-> Body(g, i)]
  <2>1. g = [i \in 1 .. N |-> g[i]]
    BY <1>4
  <2>2. \A i \in 1 .. N : g[i] = Body(g, i)
    BY <1>5
  <2> HIDE DEF Body
  <2> QED
    BY <1>a, <2>1, <2>2
<1>7. flatten = [i \in 1 .. Len(ss) |-> Body(flatten, i)]
  <2> HIDE DEF Body
  <2> QED
    BY <1>6
<1>8. FlattenSeq(ss) = flatten[Len(ss)]
  BY <1>0, <1>a DEF FlattenSeq
<1> QED
  <2> HIDE DEF flatten
  <2> QED
    BY <1>7, <1>8

(* What a list holds that is flattened.                                    *)
LEMMA FlattenedElements ==
  ASSUME NEW S, NEW ss \in Seq(Seq(S))
  PROVE  /\ FlattenSeq(ss) \in Seq(S)
         /\ \A x : x \in ToSet(FlattenSeq(ss)) <=> \E i \in DOMAIN ss : x \in ToSet(ss[i])
<1>1. CASE ss = <<>>
  <2>1. FlattenSeq(ss) = <<>> /\ DOMAIN ss = {} /\ DOMAIN <<>> = {}
    BY <1>1 DEF FlattenSeq
  <2> QED
    BY <2>1 DEF ToSet
<1>2. CASE ss # <<>>
  <2>a. PICK N : N = Len(ss)
    OBVIOUS
  <2>1. PICK flat :
          /\ flat = [i \in 1 .. Len(ss) |-> IF i = 1 THEN ss[i] ELSE flat[i - 1] \o ss[i]]
          /\ FlattenSeq(ss) = flat[Len(ss)]
    BY <1>2, FlattenUnfolds
  <2>2. N \in Nat \ {0} /\ DOMAIN ss = 1 .. N /\ \A n \in 1 .. N : ss[n] \in Seq(S)
    BY <1>2, <2>a
  <2> DEFINE Fine(m) == /\ flat[m] \in Seq(S)
                        /\ \A x : x \in ToSet(flat[m]) <=> \E i \in 1 .. m : x \in ToSet(ss[i])
             fine == {m \in Nat : m + 1 <= N => Fine(m + 1)}
  <2>3. Fine(1)
    <3>1. flat[1] = ss[1]
      BY <2>1, <2>2, <2>a
    <3>2. \A i : i \in 1 .. 1 <=> i = 1
      OBVIOUS
    <3> QED
      BY <2>2, <3>1, <3>2
  <2>4. ASSUME NEW m \in 1 .. N, m < N, Fine(m) PROVE Fine(m + 1)
    <3>0. m \in Nat /\ m + 1 \in 1 .. N /\ m + 1 # 1 /\ (m + 1) - 1 = m
      BY <2>2, <2>4
    <3>1. PICK s, t : s = flat[m] /\ t = ss[m + 1]
      OBVIOUS
    <3>2. flat[m + 1] = s \o t
      BY <2>1, <2>a, <3>0, <3>1
    <3>3. s \in Seq(S) /\ t \in Seq(S)
      BY <2>2, <2>4, <3>0, <3>1
    <3>4. s \o t \in Seq(S) /\ ToSet(s \o t) = ToSet(s) \cup ToSet(t)
      BY <3>3, JoinedElements
    <3>5. \A x : x \in ToSet(s) <=> \E i \in 1 .. m : x \in ToSet(ss[i])
      BY <2>4, <3>1
    <3>6. \A i : i \in 1 .. m + 1 <=> i \in 1 .. m \/ i = m + 1
      BY <3>0
    <3>7. ASSUME NEW x
          PROVE  x \in ToSet(s \o t) <=> \E i \in 1 .. m + 1 : x \in ToSet(ss[i])
      BY <3>1, <3>4, <3>5, <3>6
    <3> QED
      BY <3>2, <3>4, <3>7
  <2>5. fine = Nat
    <3>1. 0 \in fine
      BY <2>3
    <3>2. ASSUME NEW m \in fine PROVE m + 1 \in fine
      <4> SUFFICES ASSUME (m + 1) + 1 <= N PROVE Fine((m + 1) + 1)
        OBVIOUS
      <4>1. m \in Nat /\ m + 1 \in 1 .. N /\ m + 1 < N /\ m + 1 <= N
        BY <2>2
      <4>2. Fine(m + 1)
        BY <4>1
      <4> HIDE DEF Fine
      <4> QED
        BY <2>4, <4>1, <4>2
    <3>3. fine \in SUBSET Nat
      OBVIOUS
    <3> HIDE DEF fine
    <3> QED
      BY <3>1, <3>2, <3>3, EveryNumber
  <2>6. Fine(N)
    <3>1. N - 1 \in Nat /\ (N - 1) + 1 = N
      BY <2>2
    <3>2. N - 1 \in fine
      BY <2>5, <3>1
    <3> HIDE DEF Fine
    <3> QED
      BY <3>1, <3>2
  <2> QED
    BY <2>1, <2>2, <2>6, <2>a
<1> QED
  BY <1>1, <1>2

(* Where the elements of two lists are in the list made of both, ...       *)
LEMMA Concatenated ==
  ASSUME NEW S, NEW s \in Seq(S), NEW t \in Seq(S)
  PROVE  /\ s \o t \in Seq(S) /\ Len(s \o t) = Len(s) + Len(t)
         /\ \A j \in 1 .. Len(s) : (s \o t)[j] = s[j]
         /\ \A j \in 1 .. Len(t) : (s \o t)[Len(s) + j] = t[j]
<1>1. ASSUME NEW j \in 1 .. Len(t) PROVE (s \o t)[Len(s) + j] = t[j]
  OBVIOUS
<1> QED
  BY <1>1

(* ... of two lists with an element between them, ...                      *)
Extension(z, S, x, a, y) ==
  /\ z \in Seq(S) /\ Len(z) = Len(x) + 1 + Len(y)
  /\ \A j \in 1 .. Len(x) : z[j] = x[j]
  /\ z[Len(x) + 1] = a
  /\ \A j \in 1 .. Len(y) : z[Len(x) + 1 + j] = y[j]

(* `Extension` holds of just that list.                                    *)
LEMMA ListExtended ==
  ASSUME NEW S, NEW x \in Seq(S), NEW y \in Seq(S), NEW a \in S
  PROVE  Extension(x \o (<<a>> \o y), S, x, a, y)
<1>1. PICK t : t = <<a>> \o y
  OBVIOUS
<1>2. t \in Seq(S) /\ Len(t) = 1 + Len(y) /\ t[1] = a /\ \A j \in 1 .. Len(y) : t[1 + j] = y[j]
  BY <1>1
<1>3. PICK z : z = x \o t
  OBVIOUS
<1>4. /\ z \in Seq(S) /\ Len(z) = Len(x) + Len(t)
      /\ \A j \in 1 .. Len(x) : z[j] = x[j]
      /\ \A j \in 1 .. Len(t) : z[Len(x) + j] = t[j]
  <2>1. t \in Seq(S)
    BY <1>2
  <2> QED
    BY ONLY x \in Seq(S), <2>1, <1>3, Concatenated
<1>5. Len(x) \in Nat /\ Len(y) \in Nat
  OBVIOUS
<1>6. z[Len(x) + 1] = a
  BY <1>2, <1>4, <1>5
<1>7. ASSUME NEW j \in 1 .. Len(y) PROVE z[Len(x) + 1 + j] = y[j]
  <2>1. 1 + j \in 1 .. Len(t) /\ Len(x) + (1 + j) = Len(x) + 1 + j
    BY <1>2, <1>5
  <2>2. z[Len(x) + (1 + j)] = t[1 + j]
    BY <1>4, <2>1
  <2> QED
    BY <1>2, <2>1, <2>2
<1> QED
  BY <1>1, <1>2, <1>3, <1>4, <1>5, <1>6, <1>7 DEF Extension

(* ... and of a list between two elements.                                 *)
LEMMA Wrapped ==
  ASSUME NEW S, NEW x \in Seq(S), NEW a \in S, NEW b \in S
  PROVE  LET z == <<a>> \o x \o <<b>>
         IN  /\ z \in Seq(S) /\ Len(z) = Len(x) + 2
             /\ z[1] = a /\ z[Len(x) + 2] = b
             /\ \A j \in 1 .. Len(x) : z[1 + j] = x[j]
<1>1. PICK t : t = <<a>> \o x
  OBVIOUS
<1>2. t \in Seq(S) /\ Len(t) = 1 + Len(x) /\ t[1] = a /\ \A j \in 1 .. Len(x) : t[1 + j] = x[j]
  BY <1>1
<1>3. PICK z : z = t \o <<b>>
  OBVIOUS
<1>4. /\ z \in Seq(S) /\ Len(z) = Len(t) + 1 /\ z[Len(t) + 1] = b
      /\ \A j \in 1 .. Len(t) : z[j] = t[j]
  BY <1>2, <1>3
<1>5. Len(x) \in Nat
  OBVIOUS
<1>6. z[1] = a /\ Len(z) = Len(x) + 2 /\ z[Len(x) + 2] = b
  <2>1. 1 \in 1 .. Len(t) /\ Len(t) + 1 = Len(x) + 2
    BY <1>2, <1>5
  <2> QED
    BY <1>2, <1>4, <2>1
<1>7. ASSUME NEW j \in 1 .. Len(x) PROVE z[1 + j] = x[j]
  <2>1. 1 + j \in 1 .. Len(t)
    BY <1>2, <1>5
  <2> QED
    BY <1>2, <1>4, <2>1
<1> QED
  BY <1>1, <1>3, <1>4, <1>6, <1>7
=============================================================================
