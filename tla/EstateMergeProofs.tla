-------------------------- MODULE EstateMergeProofs --------------------------
(***************************************************************************)
(* What is proved of EstateMerge, for any sizes of addresses and subnets,  *)
(* any hand-written ranges that load and any captures, in any number:      *)
(* whatever commands a range file goes through, it loads, what was         *)
(* captured is still served, and no address is given up without a reason.  *)
(***************************************************************************)
EXTENDS EstateMerge, SharedLemmas, FiniteSetTheorems, TLAPS

(* Blocks of addresses.                                                    *)
LEMMA BlockSizes ==
  /\ BlockSize \in [0 .. AddressBits -> Nat \ {0}]
  /\ BlockSize[0] = 1
  /\ \A n \in 1 .. AddressBits : BlockSize[n] = 2 * BlockSize[n - 1]
<1>0. AddressBits \in Nat
  BY MergeAssumption
<1>a. PICK Sizes : Sizes = Nat \ {0}
  OBVIOUS
<1>b. PICK step : step = [n \in 1 .. AddressBits |-> [s \in Sizes |-> 2 * s]]
  OBVIOUS
<1>1. 1 \in Sizes /\ step \in [1 .. AddressBits -> [Sizes -> Sizes]]
  BY <1>0, <1>a, <1>b
<1>2. PICK f \in [0 .. AddressBits -> Sizes] :
        f[0] = 1 /\ \A n \in 1 .. AddressBits : f[n] = step[n][f[n - 1]]
  BY ONLY <1>0, <1>1, FiniteRecursion
<1>3. ASSUME NEW n \in 1 .. AddressBits PROVE f[n] = 2 * f[n - 1]
  <2>1. n - 1 \in 0 .. AddressBits
    BY <1>0
  <2>2. f[n - 1] \in Sizes
    BY <1>2, <2>1
  <2>3. step[n][f[n - 1]] = 2 * f[n - 1]
    BY <1>b, <2>2
  <2> QED
    BY <1>2, <2>3
<1>4. f = [n \in 0 .. AddressBits |-> IF n = 0 THEN 1 ELSE 2 * f[n - 1]]
  <2>1. \A n \in 0 .. AddressBits : f[n] = IF n = 0 THEN 1 ELSE 2 * f[n - 1]
    BY <1>0, <1>2, <1>3
  <2> QED
    BY <1>2, <2>1
<1>5. BlockSize = [n \in 0 .. AddressBits |-> IF n = 0 THEN 1 ELSE 2 * BlockSize[n - 1]]
  BY <1>4 DEF BlockSize
<1>c. BlockSize[0] = 1 /\ \A n \in 1 .. AddressBits : BlockSize[n] = 2 * BlockSize[n - 1]
  BY <1>0, <1>5
<1> DEFINE positive == {m \in Nat : m <= AddressBits => BlockSize[m] \in Nat \ {0}}
<1>6. positive = Nat
  <2>1. 0 \in positive
    BY <1>0, <1>c
  <2>2. ASSUME NEW m \in positive PROVE m + 1 \in positive
    <3>1. m + 1 <= AddressBits => BlockSize[m + 1] = 2 * BlockSize[m]
      BY <1>0, <1>c
    <3>2. m + 1 <= AddressBits => BlockSize[m] \in Nat \ {0}
      BY <1>0
    <3>3. m + 1 <= AddressBits => BlockSize[m + 1] \in Nat \ {0}
      BY ONLY <3>1, <3>2
    <3> QED
      BY ONLY <3>3, m \in Nat
  <2>3. positive \in SUBSET Nat
    OBVIOUS
  <2> HIDE DEF positive
  <2> QED
    BY <2>1, <2>2, <2>3, EveryNumber
<1>7. \A n \in 0 .. AddressBits : BlockSize[n] \in Nat \ {0}
  BY <1>0, <1>6
<1> QED
  BY <1>5, <1>7, <1>c

(* A smaller block divides a larger one, and is smaller.                   *)
LEMMA BlocksDivide ==
  ASSUME NEW b \in 0 .. AddressBits
  PROVE  \E k \in Nat \ {0} : BlockSize[AddressBits] = k * BlockSize[b]
<1> DEFINE divided == {m \in Nat : b + m <= AddressBits =>
                         \E k \in Nat \ {0} : BlockSize[b + m] = k * BlockSize[b]}
<1>0. AddressBits \in Nat /\ b \in Nat /\ b <= AddressBits
  BY MergeAssumption
<1>1. 0 \in divided
  <2>1. BlockSize[b + 0] = 1 * BlockSize[b]
    BY <1>0, BlockSizes
  <2> QED
    BY <2>1
<1>2. ASSUME NEW m \in divided PROVE m + 1 \in divided
  <2> SUFFICES ASSUME b + (m + 1) <= AddressBits
               PROVE  \E k \in Nat \ {0} : BlockSize[b + (m + 1)] = k * BlockSize[b]
    OBVIOUS
  <2>1. PICK k \in Nat \ {0} : BlockSize[b + m] = k * BlockSize[b]
    BY <1>0
  <2>2. BlockSize[b + (m + 1)] = 2 * BlockSize[b + m]
    <3>1. b + (m + 1) \in 1 .. AddressBits /\ (b + (m + 1)) - 1 = b + m
      BY <1>0
    <3> QED
      BY <3>1, BlockSizes
  <2>3. 2 * k \in Nat \ {0} /\ BlockSize[b + (m + 1)] = (2 * k) * BlockSize[b]
    <3>1. BlockSize[b] \in Nat
      BY BlockSizes
    <3> QED
      BY <2>1, <2>2, <3>1
  <2> QED
    BY <2>3
<1>3. divided = Nat
  <2>1. divided \in SUBSET Nat
    OBVIOUS
  <2> HIDE DEF divided
  <2> QED
    BY <1>1, <1>2, <2>1, EveryNumber
<1>4. AddressBits - b \in Nat /\ b + (AddressBits - b) = AddressBits
  BY <1>0
<1>5. AddressBits - b \in divided
  BY <1>3, <1>4
<1> QED
  BY <1>0, <1>4, <1>5

(* A block holds its addresses and is a subnet.                            *)
LEMMA BlockIsSubnet ==
  ASSUME NEW ip \in Addresses, NEW b \in 0 .. AddressBits
  PROVE  Block(ip, b) \in Subnet /\ Block(ip, b).size = BlockSize[b]
<1> DEFINE s == BlockSize[b]
           q == ip \div s
<1>1. PICK k \in Nat \ {0} : BlockSize[AddressBits] = k * s
  BY BlocksDivide
<1>2. s \in Nat \ {0} /\ ip \in Nat /\ ip < k * s
  <2>1. AddressBits \in 0 .. AddressBits
    BY MergeAssumption
  <2>2. BlockSize[AddressBits] \in Nat
    BY <2>1, BlockSizes
  <2> QED
    BY <1>1, <2>2, BlockSizes DEF Addresses
<1> HIDE DEF s
<1>3. q \in Nat /\ q < k /\ q * s <= ip
  BY <1>2
<1> HIDE DEF q
<1>4. q * s \in Nat /\ q * s + s <= k * s
  BY <1>2, <1>3
<1>5. q * s <= ip /\ ip < BlockSize[AddressBits]
  BY <1>1, <1>2, <1>3
<1>6. q * s \in Addresses
  BY <1>1, <1>2, <1>4, <1>5 DEF Addresses
<1>7. Block(ip, b) = [base |-> q * s, size |-> s]
  BY DEF Block, q, s
<1> QED
  BY <1>1, <1>2, <1>4, <1>6, <1>7 DEF Subnet, s

(* With two host bits or more there are more than two addresses.           *)
LEMMA BlocksAreRoomy ==
  ASSUME NEW b \in SubnetBits .. AddressBits
  PROVE  b \in 0 .. AddressBits /\ BlockSize[b] > 2
<1>1. b \in Nat /\ b >= 2 /\ b <= AddressBits /\ AddressBits \in Nat
  BY MergeAssumption
<1>2. /\ BlockSize[b] = 2 * BlockSize[b - 1] /\ BlockSize[b - 1] = 2 * BlockSize[(b - 1) - 1]
      /\ BlockSize[(b - 1) - 1] \in Nat \ {0}
  BY <1>1, BlockSizes
<1> QED
  BY <1>1, <1>2

(* The subnet that is derived.                                             *)
LEMMA CoveringIsSubnet ==
  ASSUME NEW ips \in SUBSET Addresses, ips # {}
  PROVE  Covering(ips) \in Subnet /\ Covering(ips).size > 2
<1> DEFINE Covers(b) == \A x, y \in ips : x \div BlockSize[b] = y \div BlockSize[b]
           found == {b \in SubnetBits .. AddressBits : Covers(b)}
<1>1. AddressBits \in Nat /\ SubnetBits \in Nat /\ AddressBits \in SubnetBits .. AddressBits
  BY MergeAssumption
<1>2. AddressBits \in found
  <2>1. BlockSize[AddressBits] \in Nat \ {0}
    BY <1>1, BlockSizes
  <2>2. \A x \in ips : x \div BlockSize[AddressBits] = 0
    BY <2>1 DEF Addresses
  <2> QED
    BY <1>1, <2>2
<1>3. \E b \in SubnetBits .. AddressBits :
        Covers(b) /\ \A a \in SubnetBits .. b - 1 : ~Covers(a)
  <2>1. found \in SUBSET Nat
    BY <1>1
  <2>2. PICK b \in found : \A a \in found : b <= a
    <3> HIDE DEF found
    <3> QED
      BY <1>2, <2>1, LeastExists
  <2>3. b \in SubnetBits .. AddressBits /\ Covers(b)
    OBVIOUS
  <2>4. ASSUME NEW a \in SubnetBits .. b - 1, Covers(a) PROVE FALSE
    <3>1. a \in SubnetBits .. AddressBits /\ ~ (b <= a)
      BY <1>1, <2>3
    <3> QED
      BY <2>2, <2>4, <3>1
  <2> QED
    BY <2>3, <2>4
<1> DEFINE bits == CHOOSE b \in SubnetBits .. AddressBits :
                     Covers(b) /\ \A a \in SubnetBits .. b - 1 : ~Covers(a)
<1>4. bits \in SubnetBits .. AddressBits
  BY <1>3
<1>5. Covering(ips) = Block(CHOOSE x \in ips : TRUE, bits)
  BY DEF Covering
<1>6. (CHOOSE x \in ips : TRUE) \in Addresses
  OBVIOUS
<1> HIDE DEF bits
<1> QED
  BY <1>4, <1>5, <1>6, BlockIsSubnet, BlocksAreRoomy
-----------------------------------------------------------------------------
(* The union of a range and one host more.                                 *)
LEMMA OneMore ==
  ASSUME NEW T, NEW a \in Seq(T), NEW n \in 1 .. Len(a)
  PROVE  Append(SubSeq(a, 1, n - 1), a[n]) = SubSeq(a, 1, n)
<1>1. SubSeq(a, 1, n - 1) \in Seq(T) /\ Len(SubSeq(a, 1, n - 1)) = n - 1
  OBVIOUS
<1>2. SubSeq(a, 1, n) \in Seq(T) /\ Len(SubSeq(a, 1, n)) = n
  OBVIOUS
<1>3. Append(SubSeq(a, 1, n - 1), a[n]) \in Seq(T)
      /\ Len(Append(SubSeq(a, 1, n - 1), a[n])) = n
  BY <1>1
<1>4. \A i \in 1 .. n : Append(SubSeq(a, 1, n - 1), a[n])[i] = SubSeq(a, 1, n)[i]
  BY <1>1
<1> QED
  BY <1>2, <1>3, <1>4

DistinctIds(hosts) ==
  \A i, j \in DOMAIN hosts : hosts[i].id = hosts[j].id => i = j

Whole(hosts) == [ok |-> TRUE, hosts |-> hosts]

LEMMA GatherNew ==
  ASSUME NEW a \in Seq(Host), DistinctIds(a), NEW n \in 1 .. Len(a)
  PROVE  Gathered(Whole(SubSeq(a, 1, n - 1)), a[n]) = Whole(SubSeq(a, 1, n))
<1>1. a[n].id \notin Ids(SubSeq(a, 1, n - 1))
  <2>1. Len(SubSeq(a, 1, n - 1)) = n - 1
        /\ \A i \in 1 .. n - 1 : SubSeq(a, 1, n - 1)[i] = a[i]
    OBVIOUS
  <2>2. DOMAIN SubSeq(a, 1, n - 1) = 1 .. n - 1
    OBVIOUS
  <2> QED
    BY <2>1, <2>2 DEF Ids, DistinctIds
<1> QED
  BY <1>1, OneMore DEF Gathered, Whole

UnionBody(hosts, u, n) ==
  IF n = 0 THEN [ok |-> TRUE, hosts |-> <<>>] ELSE Gathered(u[n - 1], hosts[n])

LEMMA UnionOfOne ==
  ASSUME NEW a \in Seq(Host), DistinctIds(a), NEW h \in Host
  PROVE  UnionById(Append(a, h)) = Gathered(Whole(a), h)
<1> DEFINE all == Append(a, h)
           N == Len(a)
           f == [n \in 0 .. N + 1 |-> IF n <= N THEN Whole(SubSeq(a, 1, n))
                                      ELSE Gathered(Whole(a), h)]
<1>1. /\ N \in Nat /\ Len(all) = N + 1 /\ all[N + 1] = h
      /\ \A n \in 1 .. N : all[n] = a[n]
      /\ SubSeq(a, 1, N) = a /\ SubSeq(a, 1, 0) = <<>>
  OBVIOUS
<1>2. /\ \A n \in 0 .. N : f[n] = Whole(SubSeq(a, 1, n))
      /\ f[N + 1] = Gathered(Whole(a), h)
  BY <1>1
<1>3. f[0] = UnionBody(all, f, 0)
  <2>1. f[0] = Whole(<<>>)
    <3> HIDE DEF f, all
    <3>1. 0 \in 0 .. N
      BY <1>1
    <3>2. f[0] = Whole(SubSeq(a, 1, 0))
      BY <1>2, <3>1
    <3>3. SubSeq(a, 1, 0) = <<>>
      BY <1>1
    <3> QED
      BY ONLY <3>2, <3>3
  <2> HIDE DEF f, all
  <2> QED
    BY <2>1 DEF UnionBody, Whole
<1>4. ASSUME NEW n \in 1 .. N PROVE f[n] = UnionBody(all, f, n)
  <2>1. f[n - 1] = Whole(SubSeq(a, 1, n - 1)) /\ f[n] = Whole(SubSeq(a, 1, n))
    BY <1>1, <1>2
  <2> HIDE DEF f, all
  <2> QED
    BY <1>1, <2>1, GatherNew DEF UnionBody
<1>5. f[N + 1] = UnionBody(all, f, N + 1)
  <2>1. f[N] = Whole(a)
    BY <1>1, <1>2
  <2> HIDE DEF f, all
  <2> QED
    BY <1>1, <1>2, <2>1 DEF UnionBody
<1>6. f = [n \in 0 .. Len(all) |-> UnionBody(all, f, n)]
  <2>1. f = [n \in 0 .. Len(all) |-> f[n]]
    BY <1>1
  <2>2. \A n \in 0 .. Len(all) : f[n] = UnionBody(all, f, n)
    <3> HIDE DEF f, all
    <3> QED
      BY <1>1, <1>3, <1>4, <1>5
  <2> HIDE DEF f, all
  <2> QED
    BY <2>1, <2>2
<1> DEFINE u == CHOOSE u : u = [n \in 0 .. Len(all) |-> UnionBody(all, u, n)]
<1>7. u = [n \in 0 .. Len(all) |-> UnionBody(all, u, n)]
  <2> HIDE DEF f, all
  <2> QED
    BY <1>6
<1> HIDE DEF f, all, u
<1>a. \A n \in 0 .. N + 1 : u[n] = UnionBody(all, u, n)
  <2>1. \A n \in 0 .. Len(all) : [m \in 0 .. Len(all) |-> UnionBody(all, u, m)][n] = UnionBody(all, u, n)
    OBVIOUS
  <2> QED
    BY <1>1, <1>7, <2>1
<1>8. UnionById(all) = u[Len(all)]
  BY DEF UnionById, UnionBody, u
<1> DEFINE same == {n \in Nat : n <= N => u[n] = Whole(SubSeq(a, 1, n))}
<1>9. N \in same
  <2>1. 0 \in same
    <3>1. u[0] = Whole(<<>>)
      BY <1>1, <1>a DEF UnionBody, Whole
    <3> QED
      BY <1>1, <3>1
  <2>2. ASSUME NEW n \in same PROVE n + 1 \in same
    <3> SUFFICES ASSUME n + 1 <= N PROVE u[n + 1] = Whole(SubSeq(a, 1, n + 1))
      OBVIOUS
    <3>1. n \in Nat /\ n + 1 \in 1 .. N /\ (n + 1) - 1 = n
          /\ n + 1 \in 0 .. Len(all) /\ u[n] = Whole(SubSeq(a, 1, n))
      BY <1>1
    <3>2. u[n + 1] = Gathered(u[n], all[n + 1])
      BY <1>1, <1>a, <3>1 DEF UnionBody
    <3>3. Gathered(Whole(SubSeq(a, 1, n)), a[n + 1]) = Whole(SubSeq(a, 1, n + 1))
      BY <3>1, GatherNew
    <3> QED
      BY <1>1, <3>1, <3>2, <3>3
  <2>3. same \in SUBSET Nat
    OBVIOUS
  <2> HIDE DEF same
  <2> QED
    BY <1>1, <2>1, <2>2, <2>3, EveryNumber
<1>10. u[N + 1] = Gathered(u[N], h)
  <2>1. N + 1 \in 0 .. N + 1 /\ N + 1 # 0 /\ (N + 1) - 1 = N
    BY <1>1
  <2> QED
    BY <1>1, <1>a, <2>1 DEF UnionBody
<1>11. u[N] = Whole(a)
  <2>1. N <= N /\ (N <= N => u[N] = Whole(SubSeq(a, 1, N)))
    BY <1>1, <1>9
  <2> QED
    BY <1>1, <2>1
<1> QED
  BY <1>1, <1>8, <1>10, <1>11 DEF all

OnePerPort(host) == \A s, t \in host.services : s.port = t.port => s = t

(* What the union keeps of a range, and what it has of the new host.       *)
Keeps(a, h, all) ==
  /\ all \in Seq(Host) /\ DistinctIds(all) /\ all # <<>>
  /\ \A i \in DOMAIN all : OnePerPort(all[i])
  /\ DOMAIN a \subseteq DOMAIN all
  /\ \A i \in DOMAIN a :
       /\ all[i].id = a[i].id /\ a[i].services \subseteq all[i].services
       /\ all[i].ip = a[i].ip \/ (a[i].ip = Placeholder /\ all[i].ip = h.ip)
  /\ \A i \in DOMAIN all \ DOMAIN a : all[i].ip = h.ip
  /\ \E i \in DOMAIN all : all[i].id = h.id /\ h.services \subseteq all[i].services

LEMMA GatheredKeeps ==
  ASSUME NEW a \in Seq(Host), DistinctIds(a), \A i \in DOMAIN a : OnePerPort(a[i]),
         NEW h \in Host, OnePerPort(h), Gathered(Whole(a), h).ok
  PROVE  Keeps(a, h, Gathered(Whole(a), h).hosts)
<1>0. Whole(a).hosts = a /\ Whole(a).ok = TRUE
  BY DEF Whole
<1>1. CASE h.id \notin Ids(a)
  <2> DEFINE all == Append(a, h)
  <2>1. Gathered(Whole(a), h).hosts = all
    BY <1>0, <1>1 DEF Gathered, Whole
  <2>2. /\ all \in Seq(Host) /\ all # <<>> /\ Len(a) \in Nat
        /\ DOMAIN all = 1 .. (Len(a) + 1) /\ DOMAIN a = 1 .. Len(a)
        /\ \A i \in DOMAIN a : all[i] = a[i]
        /\ all[Len(a) + 1] = h
    OBVIOUS
  <2> HIDE DEF all
  <2>3. \A i \in DOMAIN all : i \in DOMAIN a \/ (i = Len(a) + 1 /\ all[i] = h)
    BY <2>2
  <2>4. \A i \in DOMAIN a : a[i].id # h.id
    BY <1>1 DEF Ids
  <2>5. DistinctIds(all)
    BY <2>2, <2>3, <2>4 DEF DistinctIds
  <2>6. \A i \in DOMAIN all : OnePerPort(all[i])
    BY <2>2, <2>3
  <2>7. Len(a) + 1 \in DOMAIN all
    BY <2>2
  <2> QED
    BY <2>1, <2>2, <2>3, <2>5, <2>6, <2>7 DEF Keeps
<1>2. CASE h.id \in Ids(a)
  <2>1. PICK k : k = CHOOSE i \in DOMAIN a : a[i].id = h.id
    OBVIOUS
  <2>2. k \in DOMAIN a /\ a[k].id = h.id
    BY <1>2, <2>1 DEF Ids
  <2> DEFINE all == [a EXCEPT ![k] = United(a[k], h)]
  <2>3. Gathered(Whole(a), h).hosts = all /\ ~Clash(a[k], h)
    BY <1>0, <1>2, <2>1, <2>2 DEF Gathered
  <2>4. /\ United(a[k], h) \in Host
        /\ United(a[k], h).id = a[k].id
        /\ United(a[k], h).services = a[k].services \cup h.services
        /\ United(a[k], h).ip = IF a[k].ip = Placeholder THEN h.ip ELSE a[k].ip
    <3>1. a[k] \in Host
      BY <2>2
    <3> QED
      BY <3>1 DEF Host, United
  <2>5. /\ all \in Seq(Host) /\ DOMAIN all = DOMAIN a
        /\ all[k] = United(a[k], h)
        /\ \A i \in DOMAIN a \ {k} : all[i] = a[i]
    BY <2>2, <2>4
  <2> HIDE DEF all
  <2>6. DistinctIds(all)
    BY <2>2, <2>4, <2>5 DEF DistinctIds
  <2>7. all # <<>>
    BY <2>2, <2>5
  <2>8. OnePerPort(United(a[k], h))
    BY <2>2, <2>3, <2>4 DEF OnePerPort, Clash
  <2>9. \A i \in DOMAIN all : OnePerPort(all[i])
    BY <2>5, <2>8
  <2>10. ASSUME NEW i \in DOMAIN a
         PROVE  /\ all[i].id = a[i].id /\ a[i].services \subseteq all[i].services
                /\ all[i].ip = a[i].ip \/ (a[i].ip = Placeholder /\ all[i].ip = h.ip)
    <3>1. CASE i = k
      BY <3>1, <2>4, <2>5
    <3>2. CASE i # k
      BY <3>2, <2>5
    <3> QED
      BY <3>1, <3>2
  <2>11. all[k].id = h.id /\ h.services \subseteq all[k].services
    BY <2>2, <2>4, <2>5
  <2> QED
    BY <2>2, <2>3, <2>5, <2>6, <2>7, <2>9, <2>10, <2>11 DEF Keeps
<1> QED
  BY <1>1, <1>2
-----------------------------------------------------------------------------
(* The addresses that are given.                                           *)

(* In a finite set of numbers some element has just k others before it.    *)
Lower(S, r, a) == {b \in S : r[b] < r[a]}

LEMMA SomeHasRank ==
  ASSUME NEW S, IsFiniteSet(S), NEW r \in [S -> Int],
         \A a, b \in S : r[a] = r[b] => a = b,
         NEW k \in 0 .. Cardinality(S) - 1
  PROVE  \E a \in S : Cardinality(Lower(S, r, a)) = k
<1> DEFINE less(a) == {b \in S : r[b] < r[a]}
           place == [a \in S |-> Cardinality(less(a))]
           N == Cardinality(S)
<1>1. N \in Nat
  BY FS_CardinalityType
<1>2. ASSUME NEW a \in S
      PROVE  IsFiniteSet(less(a)) /\ Cardinality(less(a)) \in 0 .. N - 1
  <2>1. less(a) \in SUBSET S /\ a \notin less(a)
    OBVIOUS
  <2>2. less(a) \in SUBSET (S \ {a})
    BY <2>1
  <2>3. IsFiniteSet(S \ {a}) /\ Cardinality(S \ {a}) = N - 1
    BY FS_RemoveElement
  <2> HIDE DEF less
  <2>4. IsFiniteSet(less(a)) /\ Cardinality(less(a)) <= N - 1
    BY <2>2, <2>3, FS_Subset
  <2> QED
    BY <1>1, <2>4, FS_CardinalityType
<1>3. ASSUME NEW a \in S, NEW b \in S, r[a] < r[b]
      PROVE  Cardinality(less(a)) < Cardinality(less(b))
  <2>1. less(a) \in SUBSET less(b) /\ a \in less(b) /\ a \notin less(a)
    BY <1>3
  <2> HIDE DEF less
  <2>2. /\ Cardinality(less(a)) <= Cardinality(less(b))
        /\ Cardinality(less(a)) # Cardinality(less(b))
    BY <1>2, <2>1, FS_Subset
  <2> QED
    BY <1>1, <1>2, <2>2
<1>4. place \in [S -> 0 .. N - 1]
  BY <1>2
<1>5. ASSUME NEW a \in S, NEW b \in S, place[a] = place[b]
      PROVE  a = b
  <2>1. Cardinality(less(a)) = Cardinality(less(b))
    BY <1>5
  <2> HIDE DEF less
  <2>2. ~(r[a] < r[b]) /\ ~(r[b] < r[a])
    BY <1>1, <1>2, <1>3, <2>1
  <2> QED
    BY <2>2
<1>6. place \in Injection(S, 0 .. N - 1)
  <2> HIDE DEF place
  <2> QED
    BY <1>4, <1>5 DEF Injection, IsInjective
<1>7. IsFiniteSet(0 .. N - 1) /\ Cardinality(0 .. N - 1) = N
  <2>1. 0 \in Int /\ N - 1 \in Int
    BY <1>1
  <2> QED
    BY <1>1, <2>1, FS_Interval
<1>8. place \in Surjection(S, 0 .. N - 1)
  <2> HIDE DEF place
  <2> QED
    BY <1>6, <1>7, FS_Injection
<1>9. PICK a \in S : place[a] = k
  <2> HIDE DEF place
  <2> QED
    BY <1>8 DEF Surjection
<1> QED
  BY <1>9 DEF Lower

LEMMA FreeAddresses ==
  ASSUME NEW hosts \in Seq(Host), NEW net \in Subnet, NEW gw \in Addresses \cup {NoGateway}
  PROVE  /\ IsFiniteSet(Free(hosts, net, gw))
         /\ \A a \in Free(hosts, net, gw) :
              /\ a \in Addresses /\ In(a, net) /\ a # gw
              /\ net.size > 2 => a # net.base
              /\ \A i \in Pinned(hosts, net, gw) : hosts[i].ip # a
<1>1. /\ net.base \in Addresses /\ net.base \in Nat /\ net.size \in Nat
      /\ net.base + net.size <= BlockSize[AddressBits]
      /\ BlockSize[AddressBits] \in Nat
  <2>1. AddressBits \in 0 .. AddressBits
    BY MergeAssumption
  <2> QED
    BY <2>1, BlockSizes DEF Subnet, Addresses
<1>2. Free(hosts, net, gw) \subseteq Usable(net)
  BY DEF Free
<1>3. ASSUME NEW a \in Usable(net)
      PROVE  /\ a \in Addresses /\ In(a, net)
             /\ net.size > 2 => a # net.base
  BY <1>1, SMTT(20) DEF Usable, In, Addresses
<1>4. IsFiniteSet(Addresses)
  <2>1. 0 \in Int /\ BlockSize[AddressBits] - 1 \in Int
    BY <1>1
  <2> QED
    BY <2>1, FS_Interval DEF Addresses
<1>5. IsFiniteSet(Free(hosts, net, gw))
  <2>1. Free(hosts, net, gw) \in SUBSET Addresses
    BY <1>2, <1>3
  <2> QED
    BY <1>4, <2>1, FS_Subset
<1>6. \A a \in Free(hosts, net, gw) :
        a # gw /\ \A i \in Pinned(hosts, net, gw) : hosts[i].ip # a
  BY DEF Free
<1> QED
  BY <1>2, <1>3, <1>5, <1>6

(* The addresses of all hosts are different, and ones a host may have.     *)
Placed(hosts, net, gw, all) ==
  /\ all \in Seq(Host) /\ DOMAIN all = DOMAIN hosts
  /\ \A i \in DOMAIN hosts :
       /\ all[i].id = hosts[i].id /\ all[i].services = hosts[i].services
       /\ i \in Pinned(hosts, net, gw) => all[i].ip = hosts[i].ip
       /\ In(all[i].ip, net) /\ all[i].ip # gw
       /\ net.size > 2 => all[i].ip # net.base
  /\ \A i, j \in DOMAIN hosts : all[i].ip = all[j].ip => i = j

LEMMA AssignedPlaces ==
  ASSUME NEW hosts \in Seq(Host), NEW net \in Subnet, NEW gw \in Addresses \cup {NoGateway},
         Fits(hosts, net, gw)
  PROVE  Placed(hosts, net, gw, Assigned(hosts, net, gw))
<1>a. PICK pinned : pinned = Pinned(hosts, net, gw)
  OBVIOUS
<1>b. PICK free : free = Free(hosts, net, gw)
  OBVIOUS
<1> DEFINE Rank(a) == IF a - net.base >= FirstHost THEN a ELSE a + net.size
           Earlier(i) == {j \in 1 .. i - 1 : j \notin pinned}
           Place(i) == Cardinality(Earlier(i))
           AtPlace(a, n) == Cardinality({b \in free : Rank(b) < Rank(a)}) = n
           Given(i) == CHOOSE a \in free : AtPlace(a, Place(i))
           all == Assigned(hosts, net, gw)
<1>1. /\ net.base \in Nat /\ net.size \in Nat /\ FirstHost \in Nat
      /\ DOMAIN hosts = 1 .. Len(hosts) /\ Len(hosts) \in Nat
      /\ pinned \subseteq DOMAIN hosts
  BY MergeAssumption, <1>a DEF Subnet, Addresses, Pinned
<1>2. /\ IsFiniteSet(free) /\ Cardinality(free) \in Nat
      /\ \A a \in free : a \in Nat /\ net.base <= a /\ a < net.base + net.size
  BY <1>b, FreeAddresses, FS_CardinalityType DEF In, Addresses
<1>3. ASSUME NEW n \in 0 .. Cardinality(free) - 1
      PROVE  \E a \in free : AtPlace(a, n)
  <2>1. PICK r : r = [a \in free |-> Rank(a)]
    OBVIOUS
  <2>2. r \in [free -> Int] /\ \A a \in free : r[a] = Rank(a)
    BY <1>1, <1>2, <2>1
  <2>3. ASSUME NEW a \in free, NEW b \in free, r[a] = r[b] PROVE a = b
    <3>1. Rank(a) = Rank(b)
      BY <2>2, <2>3
    <3>2. /\ a \in Nat /\ net.base <= a /\ a < net.base + net.size
          /\ b \in Nat /\ net.base <= b /\ b < net.base + net.size
      BY <1>2
    <3> QED
      BY ONLY <1>1, <3>1, <3>2
  <2>4. PICK a \in free : Cardinality(Lower(free, r, a)) = n
    <3>1. /\ IsFiniteSet(free) /\ r \in [free -> Int]
          /\ \A a, b \in free : r[a] = r[b] => a = b
          /\ n \in 0 .. Cardinality(free) - 1
      BY <1>2, <2>2, <2>3
    <3> QED
      BY ONLY <3>1, SomeHasRank
  <2>5. Lower(free, r, a) = {b \in free : Rank(b) < Rank(a)}
    BY <2>2 DEF Lower
  <2> QED
    BY <2>4, <2>5
<1>4. ASSUME NEW i \in DOMAIN hosts
      PROVE  IsFiniteSet(Earlier(i)) /\ Place(i) \in Nat
  <2>1. IsFiniteSet(1 .. i - 1) /\ Earlier(i) \in SUBSET (1 .. i - 1)
    <3>1. 1 \in Int /\ i - 1 \in Int
      BY <1>1
    <3>2. IsFiniteSet(1 .. i - 1)
      BY <3>1, FS_Interval
    <3> QED
      BY <3>2
  <2> HIDE DEF Earlier
  <2> QED
    BY <2>1, FS_Subset, FS_CardinalityType
<1>5. ASSUME NEW i \in DOMAIN hosts, i \notin pinned
      PROVE  Place(i) \in 0 .. Cardinality(free) - 1
  <2>1. IsFiniteSet(DOMAIN hosts) /\ Cardinality(DOMAIN hosts) = Len(hosts)
    <3>1. 1 \in Int /\ Len(hosts) \in Int
      BY <1>1
    <3>2. IsFiniteSet(1 .. Len(hosts))
          /\ Cardinality(1 .. Len(hosts)) = IF 1 > Len(hosts) THEN 0 ELSE Len(hosts) - 1 + 1
      BY <3>1, FS_Interval
    <3> QED
      BY <1>1, <3>2
  <2>2. DOMAIN hosts \cap pinned = pinned
    BY <1>1
  <2>3. /\ IsFiniteSet(DOMAIN hosts \ pinned)
        /\ Cardinality(DOMAIN hosts \ pinned) = Len(hosts) - Cardinality(pinned)
    BY <2>1, <2>2, FS_Difference, ZenonT(30)
  <2>4. /\ Earlier(i) \in SUBSET (DOMAIN hosts \ pinned)
        /\ i \in DOMAIN hosts \ pinned /\ i \notin Earlier(i)
    BY <1>1, <1>5
  <2> HIDE DEF Earlier
  <2>5. /\ Place(i) <= Cardinality(DOMAIN hosts \ pinned)
        /\ Place(i) # Cardinality(DOMAIN hosts \ pinned)
    BY <2>3, <2>4, FS_Subset
  <2>6. Len(hosts) - Cardinality(pinned) <= Cardinality(free)
    BY <1>a, <1>b DEF Fits
  <2> QED
    BY <1>2, <1>4, <2>3, <2>5, <2>6, FS_CardinalityType
<1>6. ASSUME NEW i \in DOMAIN hosts, i \notin pinned
      PROVE  Given(i) \in free /\ AtPlace(Given(i), Place(i))
  <2> HIDE DEF Place, AtPlace
  <2> QED
    BY <1>3, <1>5, <1>6
<1>7. ASSUME NEW i \in DOMAIN hosts, NEW j \in DOMAIN hosts,
             i \notin pinned, j \notin pinned, i < j
      PROVE  Place(i) # Place(j)
  <2>1. Earlier(i) \in SUBSET Earlier(j) /\ i \in Earlier(j) /\ i \notin Earlier(i)
    BY <1>1, <1>7
  <2> HIDE DEF Earlier
  <2> QED
    BY <1>4, <2>1, FS_Subset
<1>8. ASSUME NEW i \in DOMAIN hosts, NEW j \in DOMAIN hosts,
             i \notin pinned, j \notin pinned, Given(i) = Given(j)
      PROVE  i = j
  <2>1. Place(i) = Place(j)
    <3>1. AtPlace(Given(i), Place(i)) /\ AtPlace(Given(j), Place(j))
      BY <1>6, <1>8
    <3> HIDE DEF Given, Place
    <3> QED
      BY <1>8, <3>1
  <2>2. i < j \/ j < i \/ i = j
    BY <1>1
  <2> HIDE DEF Place
  <2> QED
    BY <1>7, <1>8, <2>1, <2>2
<1>9. all = [i \in DOMAIN hosts |->
               IF i \in pinned THEN hosts[i] ELSE [hosts[i] EXCEPT !.ip = Given(i)]]
  BY <1>a, <1>b DEF Assigned
<1> HIDE DEF Given, all
<1>10. ASSUME NEW i \in DOMAIN hosts
       PROVE  /\ all[i] \in Host
              /\ all[i].id = hosts[i].id /\ all[i].services = hosts[i].services
              /\ i \in pinned => all[i].ip = hosts[i].ip
              /\ i \notin pinned => all[i].ip = Given(i)
  <2>1. hosts[i] \in Host
    OBVIOUS
  <2>2. i \notin pinned => Given(i) \in Addresses
    BY <1>b, <1>6, FreeAddresses
  <2> QED
    BY <1>9, <2>1, <2>2 DEF Host
<1>11. all \in Seq(Host) /\ DOMAIN all = DOMAIN hosts
  <2>1. DOMAIN all = 1 .. Len(hosts)
    BY <1>1, <1>9
  <2>2. all \in [1 .. Len(hosts) -> Host]
    BY <1>1, <1>9, <1>10
  <2> QED
    BY <1>1, <2>1, <2>2
<1>12. \A i \in pinned : In(hosts[i].ip, net) /\ hosts[i].ip # gw /\ hosts[i].ip # net.base
  BY <1>a DEF Pinned
<1>13. \A i \in pinned, j \in DOMAIN hosts : hosts[i].ip = hosts[j].ip => i = j
  BY <1>a DEF Pinned
<1>14. ASSUME NEW i \in DOMAIN hosts
       PROVE  In(all[i].ip, net) /\ all[i].ip # gw /\ (net.size > 2 => all[i].ip # net.base)
  <2>1. CASE i \in pinned
    BY <1>10, <1>12, <2>1
  <2>2. CASE i \notin pinned
    <3>1. Given(i) \in Free(hosts, net, gw)
      BY <1>b, <1>6, <2>2
    <3>2. /\ In(Given(i), net) /\ Given(i) # gw
          /\ net.size > 2 => Given(i) # net.base
      BY <3>1, FreeAddresses
    <3>3. all[i].ip = Given(i)
      BY <1>10, <2>2
    <3> QED
      BY <3>2, <3>3
  <2> QED
    BY <2>1, <2>2
<1>15. ASSUME NEW i \in DOMAIN hosts, NEW j \in DOMAIN hosts, all[i].ip = all[j].ip
       PROVE  i = j
  <2>1. CASE i \in pinned /\ j \in pinned
    BY <1>10, <1>13, <1>15, <2>1
  <2>2. CASE i \notin pinned /\ j \notin pinned
    BY <1>8, <1>10, <1>15, <2>2
  <2>3. \A k \in pinned, l \in DOMAIN hosts : l \notin pinned => hosts[k].ip # Given(l)
    BY <1>a, <1>b, <1>6, FreeAddresses
  <2> QED
    BY <1>10, <1>15, <2>1, <2>2, <2>3
<1> QED
  BY <1>a, <1>10, <1>11, <1>14, <1>15 DEF Placed, all
-----------------------------------------------------------------------------
(* The names that are given.                                               *)
Elements(seq) == {seq[i] : i \in DOMAIN seq}

LEMMA ElementsFinite ==
  ASSUME NEW T, NEW seq \in Seq(T)
  PROVE  IsFiniteSet(Elements(seq)) /\ Elements(seq) \subseteq T
<1>1. Len(seq) \in Nat /\ DOMAIN seq = 1 .. Len(seq) /\ \A i \in DOMAIN seq : seq[i] \in T
  OBVIOUS
<1>2. IsFiniteSet(DOMAIN seq)
  <2>1. 1 \in Int /\ Len(seq) \in Int
    BY <1>1
  <2>2. IsFiniteSet(1 .. Len(seq))
    BY <2>1, FS_Interval
  <2> QED
    BY <1>1, <2>2
<1>3. PICK f : f = [i \in DOMAIN seq |-> seq[i]]
  OBVIOUS
<1>4. f \in Surjection(DOMAIN seq, Elements(seq))
  BY <1>3 DEF Surjection, Elements
<1> QED
  BY <1>1, <1>2, <1>4, FS_Surjection DEF Elements

LEMMA SuffixIsNew ==
  ASSUME NEW name \in Names, NEW seen, IsFiniteSet(seen)
  PROVE  Suffixed(name, seen) \in Names /\ Suffixed(name, seen) \notin seen
<1> DEFINE C == Cardinality(seen)
           new == {n \in 2 .. C + 2 : Append(name, n) \notin seen}
<1>1. C \in Nat
  BY FS_CardinalityType
<1>2. new # {}
  <2> SUFFICES ASSUME \A n \in 2 .. C + 2 : Append(name, n) \in seen PROVE FALSE
    OBVIOUS
  <2>1. PICK f : f = [n \in 2 .. C + 2 |-> Append(name, n)]
    OBVIOUS
  <2>2. f \in [2 .. C + 2 -> seen]
    BY <2>1
  <2>3. IsFiniteSet(2 .. C + 2) /\ Cardinality(2 .. C + 2) = C + 1
    <3>1. 2 \in Int /\ C + 2 \in Int
      BY <1>1
    <3>2. IsFiniteSet(2 .. C + 2) /\
          Cardinality(2 .. C + 2) = IF 2 > C + 2 THEN 0 ELSE (C + 2) - 2 + 1
      BY <3>1, FS_Interval
    <3> QED
      BY <1>1, <3>2
  <2>4. PICK n \in 2 .. C + 2, m \in 2 .. C + 2 : n # m /\ f[n] = f[m]
    BY <1>1, <2>2, <2>3, FS_PigeonHole
  <2>5. Append(name, n) = Append(name, m)
    BY <2>1, <2>4
  <2>6. Append(name, n)[Len(name) + 1] = n /\ Append(name, m)[Len(name) + 1] = m
    BY DEF Names
  <2> QED
    BY <2>4, <2>5, <2>6
<1>3. PICK n \in new : \A m \in new : n <= m
  <2>1. new \in SUBSET Nat
    BY <1>1
  <2> HIDE DEF new
  <2> QED
    BY <1>2, <2>1, LeastExists
<1>4. \A k \in 2 .. n - 1 : Append(name, k) \in seen
  <2> SUFFICES ASSUME NEW k \in 2 .. n - 1, Append(name, k) \notin seen PROVE FALSE
    OBVIOUS
  <2>1. k \in 2 .. C + 2 /\ ~ (n <= k)
    BY <1>1
  <2> QED
    BY <1>3, <2>1
<1>5. \E k \in 2 .. C + 2 :
        /\ Append(name, k) \notin seen
        /\ \A l \in 2 .. k - 1 : Append(name, l) \in seen
  BY <1>4
<1>6. PICK k \in 2 .. C + 2 :
        Suffixed(name, seen) = Append(name, k) /\ Append(name, k) \notin seen
  BY <1>5 DEF Suffixed
<1>7. Append(name, k) \in Names
  <2>1. k \in Nat
    BY <1>1
  <2> QED
    BY <2>1 DEF Names
<1> QED
  BY <1>6, <1>7

LEMMA UnlikeIsNew ==
  ASSUME NEW name \in Names, NEW seen, IsFiniteSet(seen)
  PROVE  Unlike(name, seen) \in Names /\ Unlike(name, seen) \notin seen
BY SuffixIsNew DEF Unlike

NextNames(before, name) == Append(before, Unlike(name, Elements(before)))
NamesBody(hosts, u, n) ==
  IF n = 0 THEN <<>> ELSE NextNames(u[n - 1], hosts[n].name)

LEMMA NextNamesTyped ==
  ASSUME NEW before \in Seq(Names), NEW name \in Names
  PROVE  /\ NextNames(before, name) \in Seq(Names)
         /\ Len(NextNames(before, name)) = Len(before) + 1
         /\ \A i \in 1 .. Len(before) : NextNames(before, name)[i] = before[i]
         /\ \A i \in 1 .. Len(before) :
              NextNames(before, name)[Len(before) + 1] # before[i]
<1>1. Unlike(name, Elements(before)) \in Names
      /\ Unlike(name, Elements(before)) \notin Elements(before)
  BY ElementsFinite, UnlikeIsNew
<1>2. \A i \in 1 .. Len(before) : before[i] \in Elements(before)
  BY DEF Elements
<1> QED
  BY <1>1, <1>2 DEF NextNames

(* Names are given as the definition says, and all of them are different.  *)
LEMMA NamesDiffer ==
  ASSUME NEW hosts \in Seq(Host)
  PROVE  \E names \in Seq(Names) :
           /\ Len(names) = Len(hosts)
           /\ \A i, j \in 1 .. Len(hosts) : names[i] = names[j] => i = j
           /\ Renamed(hosts) = [i \in DOMAIN hosts |-> [hosts[i] EXCEPT !.name = names[i]]]
<1>0. /\ Len(hosts) \in Nat /\ DOMAIN hosts = 1 .. Len(hosts)
      /\ \A i \in 1 .. Len(hosts) : hosts[i].name \in Names
  <2>1. Len(hosts) \in Nat /\ DOMAIN hosts = 1 .. Len(hosts)
        /\ \A i \in 1 .. Len(hosts) : hosts[i] \in Host
    OBVIOUS
  <2>2. \A h \in Host : h.name \in Names
    BY DEF Host
  <2> QED
    BY <2>1, <2>2
<1>a. PICK N : N = Len(hosts)
  OBVIOUS
<1>b. PICK S : S = Seq(Names)
  OBVIOUS
<1>c. PICK step : step = [n \in 1 .. N |-> [b \in S |-> NextNames(b, hosts[n].name)]]
  OBVIOUS
<1>d. PICK none : none = <<>>
  OBVIOUS
<1>1. none \in S /\ N \in Nat /\ step \in [1 .. N -> [S -> S]]
  BY <1>0, <1>a, <1>b, <1>c, <1>d, NextNamesTyped
<1>2. PICK f \in [0 .. N -> S] :
        f[0] = none /\ \A n \in 1 .. N : f[n] = step[n][f[n - 1]]
  BY ONLY <1>1, FiniteRecursion
<1>3. \A n \in 0 .. N : f[n] = NamesBody(hosts, f, n)
  <2>1. f[0] = NamesBody(hosts, f, 0)
    BY <1>2, <1>d DEF NamesBody
  <2>2. ASSUME NEW n \in 1 .. N PROVE f[n] = NamesBody(hosts, f, n)
    <3>1. n - 1 \in 0 .. N /\ n # 0
      BY <1>1
    <3>2. f[n - 1] \in S
      BY <1>2, <3>1
    <3>3. step[n][f[n - 1]] = NextNames(f[n - 1], hosts[n].name)
      BY <1>c, <3>2
    <3> QED
      BY <1>2, <3>1, <3>3 DEF NamesBody
  <2> QED
    BY <1>1, <2>1, <2>2
<1>4. f = [n \in 0 .. N |-> NamesBody(hosts, f, n)]
  BY <1>2, <1>3
<1> DEFINE u == CHOOSE u : u = [n \in 0 .. Len(hosts) |-> NamesBody(hosts, u, n)]
           names == u[Len(hosts)]
<1>5. u = [n \in 0 .. Len(hosts) |-> NamesBody(hosts, u, n)]
  BY <1>4, <1>a
<1>6. Renamed(hosts) = [i \in DOMAIN hosts |-> [hosts[i] EXCEPT !.name = names[i]]]
  BY DEF Renamed, NamesBody, NextNames, Elements
<1> HIDE DEF u
<1>7. \A n \in 0 .. N : u[n] = NamesBody(hosts, u, n)
  <2>1. \A n \in 0 .. N : [m \in 0 .. N |-> NamesBody(hosts, u, m)][n] = NamesBody(hosts, u, n)
    OBVIOUS
  <2> QED
    BY <1>5, <1>a, <2>1
<1> DEFINE Good(s, n) == /\ s \in Seq(Names) /\ Len(s) = n
                         /\ \A i, j \in 1 .. n : s[i] = s[j] => i = j
           good == {n \in Nat : n <= N => Good(u[n], n)}
<1>8. 0 \in good
  <2>1. u[0] = <<>>
    BY <1>1, <1>7 DEF NamesBody
  <2>2. Good(<<>>, 0)
    OBVIOUS
  <2> HIDE DEF Good
  <2> QED
    BY <2>1, <2>2
<1>9. ASSUME NEW n \in good PROVE n + 1 \in good
  <2> SUFFICES ASSUME n + 1 <= N PROVE Good(u[n + 1], n + 1)
    OBVIOUS
  <2>1. n \in Nat /\ Good(u[n], n)
    BY <1>1
  <2>2. n + 1 \in 0 .. N /\ n + 1 # 0 /\ (n + 1) - 1 = n /\ n + 1 \in 1 .. Len(hosts)
    BY <1>1, <1>a, <2>1
  <2>3. u[n + 1] = NextNames(u[n], hosts[n + 1].name) /\ hosts[n + 1].name \in Names
    BY <1>0, <1>7, <2>2 DEF NamesBody
  <2>4. PICK b : b = u[n]
    OBVIOUS
  <2>5. PICK x : x = NextNames(b, hosts[n + 1].name)
    OBVIOUS
  <2>6. /\ x \in Seq(Names) /\ Len(x) = n + 1
        /\ \A i \in 1 .. n : x[i] = b[i] /\ x[n + 1] # b[i]
        /\ \A i, j \in 1 .. n : b[i] = b[j] => i = j
    <3>1. /\ b \in Seq(Names) /\ Len(b) = n
          /\ \A i, j \in 1 .. n : b[i] = b[j] => i = j
      BY <2>1, <2>4
    <3>2. hosts[n + 1].name \in Names
      BY <2>3
    <3> HIDE DEF Good
    <3>3. /\ x \in Seq(Names) /\ Len(x) = Len(b) + 1
          /\ \A i \in 1 .. Len(b) : x[i] = b[i]
          /\ \A i \in 1 .. Len(b) : x[Len(b) + 1] # b[i]
      BY ONLY <2>5, <3>1, <3>2, NextNamesTyped, ZenonT(30)
    <3> QED
      BY ONLY <3>1, <3>3
  <2>7. ASSUME NEW i \in 1 .. n + 1, NEW j \in 1 .. n + 1, x[i] = x[j] PROVE i = j
    <3>1. (i \in 1 .. n \/ i = n + 1) /\ (j \in 1 .. n \/ j = n + 1)
      BY <2>1
    <3> QED
      BY <2>6, <2>7, <3>1
  <2>8. Good(x, n + 1)
    BY <2>6, <2>7
  <2> HIDE DEF Good
  <2> QED
    BY <2>3, <2>4, <2>5, <2>8
<1>10. good = Nat
  <2>1. good \in SUBSET Nat
    OBVIOUS
  <2> HIDE DEF good
  <2> QED
    BY <1>8, <1>9, <2>1, EveryNumber
<1>11. Good(u[N], N)
  <2>1. N <= N => Good(u[N], N)
    BY <1>1, <1>10
  <2> HIDE DEF Good
  <2> QED
    BY <1>1, <2>1
<1> QED
  BY <1>a, <1>6, <1>11

(* Nothing but the name changes.                                           *)
LEMMA RenamedKeeps ==
  ASSUME NEW hosts \in Seq(Host)
  PROVE  /\ Renamed(hosts) \in Seq(Host) /\ DOMAIN Renamed(hosts) = DOMAIN hosts
         /\ \A i \in DOMAIN hosts :
              /\ Renamed(hosts)[i].id = hosts[i].id /\ Renamed(hosts)[i].ip = hosts[i].ip
              /\ Renamed(hosts)[i].services = hosts[i].services
         /\ \A i, j \in DOMAIN hosts :
              Renamed(hosts)[i].name = Renamed(hosts)[j].name => i = j
<1>1. PICK names \in Seq(Names) :
        /\ Len(names) = Len(hosts)
        /\ \A i, j \in 1 .. Len(hosts) : names[i] = names[j] => i = j
        /\ Renamed(hosts) = [i \in DOMAIN hosts |-> [hosts[i] EXCEPT !.name = names[i]]]
  BY NamesDiffer
<1>2. PICK new : new = Renamed(hosts)
  OBVIOUS
<1>3. Len(hosts) \in Nat /\ DOMAIN hosts = 1 .. Len(hosts) /\ DOMAIN new = 1 .. Len(hosts)
  BY <1>1, <1>2
<1>4. ASSUME NEW i \in 1 .. Len(hosts)
      PROVE  /\ new[i] \in Host /\ new[i].name = names[i]
             /\ new[i].id = hosts[i].id /\ new[i].ip = hosts[i].ip
             /\ new[i].services = hosts[i].services
  <2>1. hosts[i] \in Host /\ names[i] \in Names /\ new[i] = [hosts[i] EXCEPT !.name = names[i]]
    BY <1>1, <1>2, <1>3
  <2> QED
    BY <2>1 DEF Host
<1>5. new \in [1 .. Len(hosts) -> Host]
  BY <1>1, <1>2, <1>3, <1>4
<1>6. new \in Seq(Host)
  BY <1>3, <1>5
<1> QED
  BY <1>1, <1>2, <1>3, <1>4, <1>6, SMTT(20)
-----------------------------------------------------------------------------
(* A merge of a range with one captured host.                              *)
CapturedHost(c, id) ==
  [id |-> id, name |-> c.name, ip |-> c.ip, services |-> {c.service}]

LEMMA CapturedTyped ==
  ASSUME NEW c \in Captures, NEW id \in HostIds
  PROVE  /\ CapturedHost(c, id) \in Host /\ OnePerPort(CapturedHost(c, id))
         /\ Captured(c, id).hosts = <<CapturedHost(c, id)>>
         /\ Captured(c, id).gateway = NoGateway
         /\ Captured(c, id) \in RangeFile
<1>1. c.name \in Names /\ c.ip \in Addresses /\ c.service \in Service
  BY MergeAssumption DEF Capture
<1>2. CapturedHost(c, id) \in Host
  BY <1>1 DEF CapturedHost, Host
<1>3. OnePerPort(CapturedHost(c, id))
  BY DEF CapturedHost, OnePerPort
<1>4. SubnetBits \in 0 .. AddressBits
  BY MergeAssumption
<1>5. Block(c.ip, SubnetBits) \in Subnet
  BY <1>1, <1>4, BlockIsSubnet
<1>6. Captured(c, id) = [net |-> Block(c.ip, SubnetBits), gateway |-> NoGateway,
                         hosts |-> <<CapturedHost(c, id)>>]
  BY DEF Captured, CapturedHost
<1>7. <<CapturedHost(c, id)>> \in Seq(Host)
  BY <1>2
<1> QED
  BY <1>2, <1>3, <1>5, <1>6, <1>7 DEF RangeFile

(* What a merge keeps of a range, in the range that comes of it.           *)
Grown(r, c, id, new) ==
  /\ new \in RangeFile /\ new.hosts # <<>>
  /\ new.net.size > 2 => Valid(new)
  /\ DOMAIN r.hosts \subseteq DOMAIN new.hosts
  /\ \A i \in DOMAIN r.hosts :
       LET old == r.hosts[i].ip
       IN  /\ new.hosts[i].id = r.hosts[i].id
           /\ r.hosts[i].services \subseteq new.hosts[i].services
           /\ \/ new.hosts[i].ip = old
              \/ old \in {Placeholder, new.net.base, new.gateway}
              \/ ~In(old, new.net)
              \/ c.ip = old
  /\ \E i \in DOMAIN new.hosts :
       new.hosts[i].id = id /\ c.service \in new.hosts[i].services

LEMMA MergedGrows ==
  ASSUME NEW r \in RangeFile, Valid(r), NEW c \in Captures, NEW id \in HostIds,
         NEW subnets \in SUBSET Subnet,
         Merged(r, Captured(c, id), subnets).outcome = "written"
  PROVE  /\ Grown(r, c, id, Merged(r, Captured(c, id), subnets).range)
         /\ \/ Merged(r, Captured(c, id), subnets).range.net \in subnets
            \/ Merged(r, Captured(c, id), subnets).range.net.size > 2
<1>a. PICK a : a = r.hosts
  OBVIOUS
<1>b. PICK h : h = CapturedHost(c, id)
  OBVIOUS
<1>c. PICK union : union = UnionById(a \o Captured(c, id).hosts)
  OBVIOUS
<1>d. PICK net : net = IF subnets # {} THEN CHOOSE n \in subnets : TRUE
                       ELSE Covering({union.hosts[i].ip : i \in DOMAIN union.hosts})
  OBVIOUS
<1>e. PICK gw : gw = LET given == IF r.gateway # NoGateway THEN r.gateway
                                  ELSE Captured(c, id).gateway
                     IN  IF given # NoGateway /\ In(given, net) THEN given ELSE NoGateway
  OBVIOUS
<1>f. PICK all : all = union.hosts
  OBVIOUS
<1>g. PICK placed : placed = Assigned(all, net, gw)
  OBVIOUS
<1>h. PICK named : named = Renamed(placed)
  OBVIOUS
<1>i. PICK merged : merged = Merged(r, Captured(c, id), subnets)
  OBVIOUS
<1>0. merged = IF ~union.ok THEN [outcome |-> "conflict"]
               ELSE IF ~Fits(all, net, gw) THEN [outcome |-> "too small"]
               ELSE [outcome |-> "written",
                     range |-> [net |-> net, gateway |-> gw, hosts |-> named]]
  BY <1>a, <1>c, <1>d, <1>e, <1>f, <1>g, <1>h, <1>i DEF Merged
<1>1. /\ union.ok /\ Fits(all, net, gw)
      /\ merged.range = [net |-> net, gateway |-> gw, hosts |-> named]
  <2>1. merged.outcome = "written"
    BY <1>i
  <2>2. union.ok
    <3> SUFFICES ASSUME ~union.ok PROVE FALSE
      OBVIOUS
    <3>1. merged = [outcome |-> "conflict"]
      BY ONLY <1>0, ~union.ok
    <3> QED
      BY ONLY <2>1, <3>1
  <2>3. Fits(all, net, gw)
    <3> SUFFICES ASSUME ~Fits(all, net, gw) PROVE FALSE
      OBVIOUS
    <3>1. merged = [outcome |-> "too small"]
      BY ONLY <1>0, <2>2, ~Fits(all, net, gw)
    <3> QED
      BY ONLY <2>1, <3>1
  <2>4. merged = [outcome |-> "written",
                  range |-> [net |-> net, gateway |-> gw, hosts |-> named]]
    BY ONLY <1>0, <2>2, <2>3
  <2> QED
    BY ONLY <2>2, <2>3, <2>4
<1>2. /\ a \in Seq(Host) /\ r.gateway \in Addresses \cup {NoGateway}
      /\ DistinctIds(a) /\ \A i \in DOMAIN a : OnePerPort(a[i])
      /\ \A i, j \in DOMAIN a : a[i].ip = a[j].ip => i = j
  BY <1>a DEF RangeFile, Valid, DistinctIds, OnePerPort
<1>3. /\ h \in Host /\ OnePerPort(h) /\ Captured(c, id).hosts = <<h>>
      /\ Captured(c, id).gateway = NoGateway
      /\ h.id = id /\ h.ip = c.ip /\ h.services = {c.service}
  BY <1>b, CapturedTyped DEF CapturedHost
<1>4. union = Gathered(Whole(a), h)
  <2>1. a \o <<h>> = Append(a, h)
    BY <1>2, <1>3
  <2> QED
    BY <1>2, <1>3, <1>c, <2>1, UnionOfOne, ZenonT(30)
<1>5. Keeps(a, h, all)
  BY <1>1, <1>2, <1>3, <1>4, <1>f, GatheredKeeps
<1>6. net \in Subnet /\ (net \in subnets \/ net.size > 2)
  <2>1. CASE subnets # {}
    BY <1>d, <2>1
  <2>2. CASE subnets = {}
    <3>1. PICK ips : ips = {all[i].ip : i \in DOMAIN all}
      OBVIOUS
    <3>2. all \in Seq(Host) /\ all # <<>>
      BY <1>5 DEF Keeps
    <3>3. \A i \in DOMAIN all : all[i].ip \in Addresses
      <4>1. \A i \in DOMAIN all : all[i] \in Host
        BY <3>2
      <4>2. \A x \in Host : x.ip \in Addresses
        BY DEF Host
      <4> QED
        BY <4>1, <4>2
    <3>4. DOMAIN all # {}
      BY <3>2
    <3>5. ips \in SUBSET Addresses /\ ips # {}
      BY <3>1, <3>3, <3>4
    <3>6. net = Covering(ips)
      BY <1>d, <1>f, <2>2, <3>1
    <3> QED
      BY <3>5, <3>6, CoveringIsSubnet
  <2> QED
    BY <2>1, <2>2
<1>7. gw \in Addresses \cup {NoGateway} /\ (gw # NoGateway => In(gw, net))
  BY <1>2, <1>3, <1>e
<1>8. Placed(all, net, gw, placed)
  BY <1>1, <1>5, <1>6, <1>7, <1>g, AssignedPlaces DEF Keeps
<1>9. /\ named \in Seq(Host) /\ DOMAIN named = DOMAIN all
      /\ \A i \in DOMAIN all :
           /\ named[i].id = placed[i].id /\ named[i].ip = placed[i].ip
           /\ named[i].services = placed[i].services
      /\ \A i, j \in DOMAIN all : named[i].name = named[j].name => i = j
  BY <1>8, <1>h, RenamedKeeps DEF Placed
<1>10. PICK new : new = merged.range
  OBVIOUS
<1>11. new.net = net /\ new.gateway = gw /\ new.hosts = named
  BY <1>1, <1>10
<1>12. new \in RangeFile
  BY <1>1, <1>6, <1>7, <1>9, <1>10 DEF RangeFile
<1>13. new.hosts # <<>>
  <2>1. DOMAIN all # {}
    BY <1>5 DEF Keeps
  <2> QED
    BY <1>9, <1>11, <2>1
<1>14. ASSUME net.size > 2 PROVE Valid(new)
  <2>1. new.gateway # NoGateway => In(new.gateway, new.net)
    BY <1>7, <1>11
  <2>2. ASSUME NEW i \in DOMAIN named, NEW j \in DOMAIN named, i # j
        PROVE  /\ named[i].id # named[j].id /\ named[i].name # named[j].name
               /\ named[i].ip # named[j].ip
    BY <1>5, <1>8, <1>9, <2>2 DEF Keeps, DistinctIds, Placed
  <2>3. ASSUME NEW i \in DOMAIN named
        PROVE  /\ In(named[i].ip, net) /\ named[i].ip # net.base /\ named[i].ip # gw
               /\ \A s, t \in named[i].services : s.port = t.port => s = t
    BY <1>5, <1>8, <1>9, <1>14 DEF Keeps, OnePerPort, Placed
  <2> QED
    BY <1>11, <2>1, <2>2, <2>3 DEF Valid
<1>15. ASSUME NEW i \in DOMAIN a
       PROVE  /\ named[i].id = a[i].id /\ a[i].services \subseteq named[i].services
              /\ \/ named[i].ip = a[i].ip
                 \/ a[i].ip \in {Placeholder, net.base, gw}
                 \/ ~In(a[i].ip, net)
                 \/ c.ip = a[i].ip
  <2>1. /\ i \in DOMAIN all /\ all[i].id = a[i].id /\ a[i].services \subseteq all[i].services
        /\ all[i].ip = a[i].ip \/ a[i].ip = Placeholder
    BY <1>5 DEF Keeps
  <2>2. /\ named[i].id = all[i].id /\ named[i].services = all[i].services
        /\ i \in Pinned(all, net, gw) => named[i].ip = all[i].ip
    BY <1>8, <1>9, <2>1 DEF Placed
  <2>3. ASSUME i \notin Pinned(all, net, gw), all[i].ip = a[i].ip,
               a[i].ip \notin {net.base, gw}, In(a[i].ip, net)
        PROVE  c.ip = a[i].ip
    <3>1. PICK j \in DOMAIN all : all[j].ip = a[i].ip /\ j # i
      BY <2>1, <2>3 DEF Pinned
    <3>2. CASE j \in DOMAIN a
      <4>1. a[j].ip # a[i].ip
        BY <1>2, <3>1, <3>2
      <4>2. all[j].ip = h.ip
        BY <1>5, <3>1, <3>2, <4>1 DEF Keeps
      <4> QED
        BY <1>3, <3>1, <4>2
    <3>3. CASE j \notin DOMAIN a
      BY <1>3, <1>5, <3>1, <3>3 DEF Keeps
    <3> QED
      BY <3>2, <3>3
  <2> QED
    BY <2>1, <2>2, <2>3
<1>16. \E i \in DOMAIN named : named[i].id = id /\ c.service \in named[i].services
  BY <1>3, <1>5, <1>8, <1>9, SMTT(20) DEF Keeps, Placed
<1>17. Grown(r, c, id, new)
  <2>1. DOMAIN a \subseteq DOMAIN named
    BY <1>5, <1>9 DEF Keeps
  <2> QED
    BY <1>a, <1>11, <1>12, <1>13, <1>14, <1>15, <1>16, <2>1 DEF Grown
<1> QED
  BY <1>6, <1>10, <1>11, <1>17, <1>i
-----------------------------------------------------------------------------
(* Before an append, what the capture makes stale is dropped.              *)
LEMMA Reconciles ==
  ASSUME NEW r \in RangeFile, Valid(r), NEW c \in Captures
  PROVE  /\ IdFor(r, c) \in HostIds
         /\ Reconciled(r, c) \in RangeFile /\ Valid(Reconciled(r, c))
         /\ Reconciled(r, c).net = r.net
         /\ DOMAIN Reconciled(r, c).hosts = DOMAIN r.hosts
         /\ \A i \in DOMAIN r.hosts :
              /\ Reconciled(r, c).hosts[i].id = r.hosts[i].id
              /\ Reconciled(r, c).hosts[i].ip = r.hosts[i].ip
              /\ \A s \in r.hosts[i].services :
                   \/ s \in Reconciled(r, c).hosts[i].services
                   \/ r.hosts[i].id = IdFor(r, c) /\ IsStale(s, c)
<1>a. PICK at : at = Targets(r.hosts, c)
  OBVIOUS
<1>b. PICK new : new = Reconciled(r, c)
  OBVIOUS
<1>c. PICK id : id = IdFor(r, c)
  OBVIOUS
<1>0. /\ r.hosts \in Seq(Host) /\ c.id \in HostIds
      /\ Len(r.hosts) \in Nat /\ DOMAIN r.hosts = 1 .. Len(r.hosts)
      /\ \A i \in DOMAIN r.hosts : r.hosts[i] \in Host
  BY MergeAssumption DEF RangeFile, Capture
<1>1. at \subseteq DOMAIN r.hosts /\ \A i, j \in at : i = j
  <2>1. CASE c.id \in Ids(r.hosts)
    BY <1>a, <2>1 DEF Targets, Valid
  <2>2. CASE c.id \notin Ids(r.hosts)
    BY <1>a, <2>2 DEF Targets, Valid
  <2> QED
    BY <2>1, <2>2
<1>2. id \in HostIds /\ \A i \in at : r.hosts[i].id = id
  <2>1. id = IF at = {} THEN c.id ELSE r.hosts[CHOOSE i \in at : TRUE].id
    BY <1>a, <1>c DEF IdFor
  <2>2. \A i \in at : r.hosts[i].id \in HostIds
    <3>1. \A h \in Host : h.id \in HostIds
      BY DEF Host
    <3> QED
      BY <1>0, <1>1, <3>1
  <2>3. ASSUME NEW i \in at PROVE (CHOOSE j \in at : TRUE) = i
    BY <1>1
  <2> QED
    BY <1>0, <2>1, <2>2, <2>3
<1>d. PICK fresh : fresh = [i \in DOMAIN r.hosts |->
         IF i \notin at THEN r.hosts[i]
         ELSE [r.hosts[i] EXCEPT !.services = {s \in @ : ~IsStale(s, c)}]]
  OBVIOUS
<1>3. new = [r EXCEPT !.hosts = fresh]
  BY <1>a, <1>b, <1>d DEF Reconciled
<1>4. new.hosts = fresh /\ new.net = r.net /\ new.gateway = r.gateway
  BY <1>3 DEF RangeFile
<1>5. ASSUME NEW i \in DOMAIN r.hosts
      PROVE  /\ fresh[i] \in Host
             /\ fresh[i].id = r.hosts[i].id /\ fresh[i].ip = r.hosts[i].ip
             /\ fresh[i].name = r.hosts[i].name
             /\ fresh[i].services \subseteq r.hosts[i].services
             /\ \A s \in r.hosts[i].services :
                  s \in fresh[i].services \/ (i \in at /\ IsStale(s, c))
  <2>1. r.hosts[i] \in Host
    BY <1>0
  <2>2. CASE i \notin at
    <3>1. fresh[i] = r.hosts[i]
      BY <1>d, <2>2
    <3> QED
      BY <2>1, <3>1
  <2>3. CASE i \in at
    <3>1. fresh[i] = [r.hosts[i] EXCEPT !.services = {s \in r.hosts[i].services : ~IsStale(s, c)}]
      BY <1>d, <2>3
    <3> QED
      BY <2>1, <2>3, <3>1 DEF Host
  <2> QED
    BY <2>2, <2>3
<1>6. fresh \in Seq(Host) /\ DOMAIN fresh = DOMAIN r.hosts
  <2>1. DOMAIN fresh = 1 .. Len(r.hosts) /\ fresh \in [1 .. Len(r.hosts) -> Host]
    BY <1>0, <1>5, <1>d
  <2> QED
    BY <1>0, <2>1
<1>7. new \in RangeFile
  BY <1>3, <1>6 DEF RangeFile
<1>8. Valid(new)
  BY <1>4, <1>5, <1>6 DEF Valid
<1> QED
  BY <1>1, <1>2, <1>4, <1>5, <1>6, <1>7, <1>8, <1>b, <1>c
-----------------------------------------------------------------------------
(* The invariant: the range file loads, and of the captures that no later  *)
(* one of the same service has replaced, each is served by its host.       *)
Taken == [capture : Captures, host : HostIds]

Alike(x, y) ==
  /\ y.host = x.host
  /\ y.capture.service.port = x.capture.service.port
  /\ y.capture.service.type = x.capture.service.type

Served(x, hosts) ==
  \E h \in DOMAIN hosts : hosts[h].id = x.host /\ x.capture.service \in hosts[h].services

EstateInv ==
  /\ range \in RangeFile /\ Valid(range)
  /\ taken \in Seq(Taken)
  /\ range.hosts = <<>> => taken = <<>>
  /\ \A i \in DOMAIN taken :
       (\A k \in i + 1 .. Len(taken) : ~Alike(taken[i], taken[k])) =>
         Served(taken[i], range.hosts)

LEMMA NoRangeLoads ==
  NoRange \in RangeFile /\ Valid(NoRange) /\ NoRange.hosts = <<>>
<1>1. 0 \in Addresses /\ SubnetBits \in 0 .. AddressBits
  <2>1. AddressBits \in 0 .. AddressBits /\ SubnetBits \in 0 .. AddressBits
    BY MergeAssumption
  <2>2. BlockSize[AddressBits] \in Nat \ {0}
    BY <2>1, BlockSizes
  <2> QED
    BY <2>1, <2>2 DEF Addresses
<1>2. Block(0, SubnetBits) \in Subnet
  BY <1>1, BlockIsSubnet
<1>3. NoRange = [net |-> Block(0, SubnetBits), gateway |-> NoGateway, hosts |-> <<>>]
  BY DEF NoRange
<1>4. <<>> \in Seq(Host) /\ DOMAIN NoRange.hosts = {}
  BY <1>3
<1> QED
  BY <1>2, <1>3, <1>4 DEF RangeFile, Valid

LEMMA EstateInit == MergeInit => EstateInv
<1> SUFFICES ASSUME MergeInit PROVE EstateInv
  OBVIOUS
<1>1. range \in RangeFile /\ Valid(range)
  BY NoRangeLoads, MergeAssumption DEF MergeInit
<1>2. taken = <<>> /\ taken \in Seq(Taken) /\ DOMAIN taken = {}
  BY DEF MergeInit
<1> QED
  BY <1>1, <1>2 DEF EstateInv

(* A command that has written the range file.                              *)
Wrote(c, id) ==
  /\ taken' = Took(c, id) /\ outcome' = "written"
  /\ range' \in RangeFile /\ Valid(range') /\ range'.hosts # <<>>
  /\ DOMAIN range.hosts \subseteq DOMAIN range'.hosts
  /\ \A i \in DOMAIN range.hosts :
       LET old == range.hosts[i].ip
       IN  /\ range'.hosts[i].id = range.hosts[i].id
           /\ \A s \in range.hosts[i].services :
                \/ s \in range'.hosts[i].services
                \/ range.hosts[i].id = id /\ IsStale(s, c)
           /\ \/ range'.hosts[i].ip = old
              \/ old \in {Placeholder, range'.net.base, range'.gateway}
              \/ ~In(old, range'.net)
              \/ c.ip = old
  /\ \E i \in DOMAIN range'.hosts :
       range'.hosts[i].id = id /\ c.service \in range'.hosts[i].services

(* One that has not, and when what it would have written does not load.    *)
Refused ==
  /\ UNCHANGED <<range, taken>>
  /\ outcome' = "invalid" =>
       range = NoRange \/ \E n \in Subnets \cup {range.net} : n.size <= 2

LEMMA Step ==
  ASSUME EstateInv, MergeNext
  PROVE  Refused \/ \E c \in Captures, id \in HostIds : Wrote(c, id)
<1>1. PICK c \in Captures :
        \/ CaptureNew(c)
        \/ CaptureAppend(c)
        \/ \E subnets \in {{}} \cup {{n} : n \in Subnets} : MergeFile(c, subnets)
  BY DEF MergeNext
<1>2. range \in RangeFile /\ Valid(range) /\ c.id \in HostIds
  BY MergeAssumption DEF EstateInv, Capture
<1>3. CASE CaptureNew(c)
  <2>1. range = NoRange /\ DOMAIN range.hosts = {}
    BY <1>3, NoRangeLoads DEF CaptureNew
  <2>2. PICK new : new = Captured(c, c.id)
    OBVIOUS
  <2>3. /\ new \in RangeFile /\ new.hosts = <<CapturedHost(c, c.id)>>
    BY <1>2, <2>2, CapturedTyped
  <2>4. IF Valid(new) THEN range' = new /\ taken' = Took(c, c.id) /\ outcome' = "written"
        ELSE UNCHANGED <<range, taken>>
    BY <1>3, <2>2 DEF CaptureNew, Write
  <2>5. CASE Valid(new)
    <3>1. /\ 1 \in DOMAIN new.hosts /\ new.hosts # <<>>
          /\ new.hosts[1].id = c.id /\ c.service \in new.hosts[1].services
      BY <2>3 DEF CapturedHost
    <3>2. Wrote(c, c.id)
      BY <2>1, <2>3, <2>4, <2>5, <3>1 DEF Wrote
    <3> QED
      BY <1>2, <3>2
  <2> QED
    BY <2>1, <2>4, <2>5 DEF Refused
<1>4. CASE CaptureAppend(c)
  <2>1. PICK id : id = IdFor(range, c)
    OBVIOUS
  <2>2. PICK r : r = Reconciled(range, c)
    OBVIOUS
  <2>3. PICK m : m = Merged(r, Captured(c, id), {range.net})
    OBVIOUS
  <2>4. Write(m, c, id)
    BY <1>4, <2>1, <2>2, <2>3 DEF CaptureAppend
  <2>5. /\ id \in HostIds /\ r \in RangeFile /\ Valid(r) /\ r.net = range.net
        /\ DOMAIN r.hosts = DOMAIN range.hosts
        /\ \A i \in DOMAIN range.hosts :
             /\ r.hosts[i].id = range.hosts[i].id /\ r.hosts[i].ip = range.hosts[i].ip
             /\ \A s \in range.hosts[i].services :
                  s \in r.hosts[i].services \/ (range.hosts[i].id = id /\ IsStale(s, c))
    BY <1>2, <2>1, <2>2, Reconciles
  <2>6. CASE m.outcome = "written"
    <3>1. {range.net} \in SUBSET Subnet
      BY <1>2 DEF RangeFile
    <3>2. Grown(r, c, id, m.range) /\ (m.range.net = range.net \/ m.range.net.size > 2)
      BY <2>3, <2>5, <2>6, <3>1, MergedGrows
    <3>3. CASE Valid(m.range)
      <4>1. range' = m.range /\ taken' = Took(c, id) /\ outcome' = "written"
        BY <2>4, <2>6, <3>3 DEF Write
      <4>2. Wrote(c, id)
        BY <2>5, <3>2, <3>3, <4>1 DEF Grown, Wrote
      <4> QED
        BY <2>5, <4>2
    <3>4. CASE ~Valid(m.range)
      <4>1. UNCHANGED <<range, taken>>
        BY <2>4, <2>6, <3>4 DEF Write
      <4>2. m.range.net = range.net /\ ~(m.range.net.size > 2)
        BY <3>2, <3>4 DEF Grown
      <4>3. range.net.size \in Nat
        BY <1>2 DEF RangeFile, Subnet
      <4> QED
        BY <4>1, <4>2, <4>3 DEF Refused
    <3> QED
      BY <3>3, <3>4
  <2>7. CASE m.outcome # "written"
    <3>1. UNCHANGED <<range, taken>> /\ outcome' = m.outcome
      BY <2>4, <2>7 DEF Write
    <3>2. m.outcome # "invalid"
      BY <2>3 DEF Merged
    <3> QED
      BY <3>1, <3>2 DEF Refused
  <2> QED
    BY <2>6, <2>7
<1>5. CASE \E subnets \in {{}} \cup {{n} : n \in Subnets} : MergeFile(c, subnets)
  <2>1. PICK subnets \in {{}} \cup {{n} : n \in Subnets} : MergeFile(c, subnets)
    BY <1>5
  <2>2. subnets \in SUBSET Subnet /\ \A n \in subnets : n \in Subnets
    BY MergeAssumption
  <2>3. PICK m : m = Merged(range, Captured(c, c.id), subnets)
    OBVIOUS
  <2>4. Write(m, c, c.id)
    BY <2>1, <2>3 DEF MergeFile
  <2>5. CASE m.outcome = "written"
    <3>1. Grown(range, c, c.id, m.range) /\ (m.range.net \in subnets \/ m.range.net.size > 2)
      BY <1>2, <2>2, <2>3, <2>5, MergedGrows
    <3>2. CASE Valid(m.range)
      <4>1. range' = m.range /\ taken' = Took(c, c.id) /\ outcome' = "written"
        BY <2>4, <2>5, <3>2 DEF Write
      <4>2. Wrote(c, c.id)
        BY <3>1, <3>2, <4>1 DEF Grown, Wrote
      <4> QED
        BY <1>2, <4>2
    <3>3. CASE ~Valid(m.range)
      <4>1. UNCHANGED <<range, taken>>
        BY <2>4, <2>5, <3>3 DEF Write
      <4>2. m.range.net \in Subnets /\ ~(m.range.net.size > 2)
        BY <2>2, <3>1, <3>3 DEF Grown
      <4>3. m.range.net.size \in Nat
        BY <4>2, MergeAssumption DEF Subnet
      <4> QED
        BY <4>1, <4>2, <4>3 DEF Refused
    <3> QED
      BY <3>2, <3>3
  <2>6. CASE m.outcome # "written"
    <3>1. UNCHANGED <<range, taken>> /\ outcome' = m.outcome
      BY <2>4, <2>6 DEF Write
    <3>2. m.outcome # "invalid"
      BY <2>3 DEF Merged
    <3> QED
      BY <3>1, <3>2 DEF Refused
  <2> QED
    BY <2>5, <2>6
<1> QED
  BY <1>1, <1>3, <1>4, <1>5

LEMMA WroteKeeps ==
  ASSUME EstateInv, NEW c \in Captures, NEW id \in HostIds, Wrote(c, id)
  PROVE  EstateInv'
<1>a. PICK x : x = [capture |-> c, host |-> id]
  OBVIOUS
<1>1. /\ x \in Taken /\ x.capture = c /\ x.host = id
      /\ taken \in Seq(Taken) /\ Len(taken) \in Nat
      /\ taken' = Append(taken, x)
  BY <1>a DEF EstateInv, Wrote, Took, Taken
<1>2. /\ taken' \in Seq(Taken) /\ Len(taken') = Len(taken) + 1
      /\ DOMAIN taken' = 1 .. (Len(taken) + 1)
      /\ taken'[Len(taken) + 1] = x
      /\ \A i \in 1 .. Len(taken) : taken'[i] = taken[i]
  BY <1>1
<1>3. /\ range' \in RangeFile /\ Valid(range') /\ range'.hosts # <<>>
  BY DEF Wrote
<1>4. ASSUME NEW i \in DOMAIN taken',
             \A k \in i + 1 .. Len(taken') : ~Alike(taken'[i], taken'[k])
      PROVE  Served(taken'[i], range'.hosts)
  <2>1. CASE i = Len(taken) + 1
    BY <1>1, <1>2, <2>1 DEF Wrote, Served
  <2>2. CASE i # Len(taken) + 1
    <3>1. i \in 1 .. Len(taken) /\ taken'[i] = taken[i] /\ i \in DOMAIN taken
      BY <1>1, <1>2, <2>2
    <3>2. ~Alike(taken[i], x)
      <4>1. Len(taken) + 1 \in i + 1 .. Len(taken')
        BY <1>1, <1>2, <3>1
      <4> QED
        BY <1>2, <1>4, <3>1, <4>1
    <3>3. \A k \in i + 1 .. Len(taken) : ~Alike(taken[i], taken[k])
      <4> SUFFICES ASSUME NEW k \in i + 1 .. Len(taken) PROVE ~Alike(taken[i], taken[k])
        OBVIOUS
      <4>1. k \in i + 1 .. Len(taken') /\ k \in 1 .. Len(taken)
        BY <1>1, <1>2, <3>1
      <4> QED
        BY <1>2, <1>4, <3>1, <4>1
    <3>4. PICK h \in DOMAIN range.hosts :
            /\ range.hosts[h].id = taken[i].host
            /\ taken[i].capture.service \in range.hosts[h].services
      BY <3>1, <3>3 DEF EstateInv, Served
    <3>5. ~(range.hosts[h].id = id /\ IsStale(taken[i].capture.service, c))
      BY <1>1, <3>2, <3>4 DEF Alike, IsStale
    <3>6. /\ h \in DOMAIN range'.hosts
          /\ range'.hosts[h].id = taken[i].host
          /\ taken[i].capture.service \in range'.hosts[h].services
      BY <3>4, <3>5 DEF Wrote
    <3> QED
      BY <3>1, <3>6 DEF Served
  <2> QED
    BY <2>1, <2>2
<1> QED
  BY <1>2, <1>3, <1>4 DEF EstateInv

LEMMA EstateInvariant == MergeSpec => []EstateInv
<1>1. EstateInv /\ [MergeNext]_mergeVars => EstateInv'
  <2> SUFFICES ASSUME EstateInv, [MergeNext]_mergeVars PROVE EstateInv'
    OBVIOUS
  <2>1. CASE UNCHANGED <<range, taken>>
    BY <2>1 DEF EstateInv
  <2>2. CASE \E c \in Captures, id \in HostIds : Wrote(c, id)
    BY <2>2, WroteKeeps
  <2> QED
    BY <2>1, <2>2, Step DEF mergeVars, Refused
<1> QED
  BY <1>1, EstateInit, PTL DEF MergeSpec

(* Whatever captures are appended and merged, in any order, the host that  *)
(* one went to serves what was captured there last of that service.        *)
THEOREM NothingIsLost == MergeSpec => []NothingLost
<1>1. EstateInv => NothingLost
  <2> SUFFICES ASSUME EstateInv, NEW i \in DOMAIN taken
               PROVE  \E last \in i .. Len(taken) :
                        /\ last = CHOOSE j \in i .. Len(taken) :
                             /\ Alike(taken[i], taken[j])
                             /\ \A k \in j + 1 .. Len(taken) : ~Alike(taken[i], taken[k])
                        /\ \E h \in DOMAIN range.hosts :
                             /\ range.hosts[h].id = taken[i].host
                             /\ taken[last].capture.service \in range.hosts[h].services
    BY DEF NothingLost, Alike
  <2>0. Len(taken) \in Nat /\ DOMAIN taken = 1 .. Len(taken)
    BY DEF EstateInv
  <2> DEFINE alike == {j \in i .. Len(taken) : Alike(taken[i], taken[j])}
  <2>1. alike \in SUBSET Nat /\ i \in alike /\ \A j \in alike : j <= Len(taken)
    BY <2>0 DEF Alike
  <2>2. PICK j \in alike : \A k \in alike : k <= j
    <3> HIDE DEF alike
    <3> QED
      BY <2>0, <2>1, GreatestExists
  <2>3. ASSUME NEW k \in j + 1 .. Len(taken) PROVE ~Alike(taken[i], taken[k])
    <3>1. k \in i .. Len(taken) /\ ~(k <= j)
      BY <2>0
    <3> QED
      BY <2>2, <3>1
  <2>4. PICK last : last = CHOOSE m \in i .. Len(taken) :
                      /\ Alike(taken[i], taken[m])
                      /\ \A k \in m + 1 .. Len(taken) : ~Alike(taken[i], taken[k])
    OBVIOUS
  <2>5. /\ last \in i .. Len(taken) /\ Alike(taken[i], taken[last])
        /\ \A k \in last + 1 .. Len(taken) : ~Alike(taken[i], taken[k])
    BY <2>3, <2>4
  <2>6. last \in DOMAIN taken
    BY <2>0, <2>5
  <2>7. \A k \in last + 1 .. Len(taken) : ~Alike(taken[last], taken[k])
    BY <2>5 DEF Alike
  <2>8. Served(taken[last], range.hosts) /\ taken[last].host = taken[i].host
    BY <2>5, <2>6, <2>7 DEF EstateInv, Alike
  <2> QED
    BY <2>4, <2>5, <2>8 DEF Served
<1> QED
  BY <1>1, EstateInvariant, PTL

(* What appends and merges write loads again, whatever collided.           *)
THEOREM LoadsAgain == MergeSpec => []WrittenLoads
<1>1. MergeInit => WrittenLoads
  BY DEF MergeInit, WrittenLoads
<1>2. EstateInv /\ WrittenLoads /\ [MergeNext]_mergeVars => WrittenLoads'
  <2> SUFFICES ASSUME EstateInv, WrittenLoads, [MergeNext]_mergeVars PROVE WrittenLoads'
    OBVIOUS
  <2>1. CASE UNCHANGED mergeVars
    BY <2>1 DEF mergeVars, WrittenLoads
  <2>2. CASE Refused
    BY <2>2 DEF Refused, WrittenLoads
  <2>3. CASE \E c \in Captures, id \in HostIds : Wrote(c, id)
    BY <2>3 DEF Wrote, WrittenLoads
  <2> QED
    BY <2>1, <2>2, <2>3, Step
<1> QED
  BY <1>1, <1>2, EstateInvariant, PTL DEF MergeSpec

(* No host is moved off an address without one of the reasons there are.   *)
THEOREM AddressesKept == MergeSpec => AddressKept
<1>1. ASSUME EstateInv, [MergeNext]_mergeVars
      PROVE  [\A h \in DOMAIN range.hosts :
                LET old == range.hosts[h].ip
                IN  \/ range'.hosts[h].ip = old
                    \/ old \in {Placeholder, range'.net.base, range'.gateway}
                    \/ ~In(old, range'.net)
                    \/ taken'[Len(taken')].capture.ip = old]_mergeVars
  <2>1. CASE UNCHANGED <<range, taken>>
    BY <2>1
  <2>2. CASE \E c \in Captures, id \in HostIds : Wrote(c, id)
    <3>1. PICK c \in Captures, id \in HostIds : Wrote(c, id)
      BY <2>2
    <3>2. taken'[Len(taken')].capture = c
      <4>1. PICK x : x = [capture |-> c, host |-> id]
        OBVIOUS
      <4>2. taken \in Seq(Taken) /\ taken' = Append(taken, x) /\ x.capture = c
        <5>1. taken \in Seq(Taken)
          BY <1>1 DEF EstateInv
        <5>2. taken' = Took(c, id)
          BY <3>1 DEF Wrote
        <5> QED
          BY <4>1, <5>1, <5>2 DEF Took
      <4>3. Len(taken') = Len(taken) + 1 /\ taken'[Len(taken) + 1] = x
        BY <4>2
      <4> QED
        BY <4>2, <4>3
    <3> QED
      BY <3>1, <3>2 DEF Wrote
  <2> QED
    BY <1>1, <2>1, <2>2, Step DEF mergeVars, Refused
<1> QED
  BY <1>1, EstateInvariant, PTL DEF MergeSpec, AddressKept
=============================================================================
