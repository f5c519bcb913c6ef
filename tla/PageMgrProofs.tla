--------------------------- MODULE PageMgrProofs ---------------------------
(***************************************************************************)
(* Theorems about the page manager, for any memory map, page size and      *)
(* width of an unsigned int.                                               *)
(***************************************************************************)
EXTENDS PageMgr, FiniteSetTheorems, WellFoundedInduction, SequenceTheorems, TLAPS

(***************************************************************************)
(* Numbers.                                                                *)
(***************************************************************************)

(* A set of numbers has a least one.  The initial segments below its       *)
(* members are finite sets, which strict inclusion orders well: this is    *)
(* where every induction below comes from.                                 *)
LEMMA LeastNumber ==
  ASSUME NEW T \in SUBSET Nat, T # {}
  PROVE  \E x \in T : \A y \in T : x <= y
<1> DEFINE TT == {0 .. n : n \in T}
<1>1. TT \subseteq FiniteSubsetsOf(Nat) /\ TT # {}
  <2>1. \A n \in T : IsFiniteSet(0 .. n)
    BY FS_Interval
  <2>2. TT \subseteq FiniteSubsetsOf(Nat)
    BY <2>1 DEF FiniteSubsetsOf
  <2>3. TT # {}
    OBVIOUS
  <2>4. QED
    BY <2>2, <2>3
<1> HIDE DEF TT
<1>2. PICK x \in TT : \A y \in TT : <<y, x>> \notin StrictSubsetOrdering(Nat)
  <2>1. IsWellFoundedOn(StrictSubsetOrdering(Nat), FiniteSubsetsOf(Nat))
    BY FS_StrictSubsetOrderingWellFounded
  <2>2. QED
    BY <1>1, <2>1, WFMin, Zenon
<1>3. PICK n \in T : x = 0 .. n
  BY DEF TT
<1>4. ASSUME NEW m \in T, m < n
      PROVE  FALSE
  <2>1. 0 .. m \in TT
    BY DEF TT
  <2>2. /\ 0 .. m \in SUBSET Nat /\ 0 .. n \in SUBSET Nat
        /\ 0 .. m \subseteq 0 .. n
    BY <1>4
  <2>3. n \in 0 .. n /\ n \notin 0 .. m
    BY <1>4
  <2>4. <<0 .. m, 0 .. n>> \in StrictSubsetOrdering(Nat)
    BY <2>2, <2>3, Zenon DEF StrictSubsetOrdering
  <2>5. QED
    BY <1>2, <1>3, <2>1, <2>4
<1>5. QED
  BY <1>4

(* Min, which is defined by CHOOSE, of a set of numbers that is not empty. *)
LEMMA MinIsLeast ==
  ASSUME NEW T \in SUBSET Nat, T # {}
  PROVE  Min(T) \in T /\ \A y \in T : Min(T) <= y
BY LeastNumber DEF Min

(* What the remainder leaves.                                              *)
LEMMA Division ==
  ASSUME NEW a \in Nat, NEW b \in Nat \ {0}
  PROVE  /\ a \div b \in Nat /\ a % b \in Nat /\ a % b < b
         /\ a = (a \div b) * b + (a % b)
OBVIOUS

(* A multiple of b between -b and b is 0.                                  *)
LEMMA MultipleNotSmall ==
  ASSUME NEW x \in Int, NEW b \in Nat \ {0}, x * b > -b, x * b < b
  PROVE  x = 0
<1>1. CASE x >= 1
  <2>1. (x - 1) * b >= 0 /\ (x - 1) * b = x * b - b
    BY <1>1
  <2>2. x * b \in Int
    OBVIOUS
  <2>3. QED
    BY <2>1, <2>2
<1>2. CASE x <= -1
  <2>1. (-x - 1) * b >= 0 /\ (-x - 1) * b = -(x * b) - b
    BY <1>2
  <2>2. x * b \in Int
    OBVIOUS
  <2>3. QED
    BY <2>1, <2>2
<1>3. QED
  BY <1>1, <1>2

(* The multiples of a number are those that leave no remainder. *)
LEMMA Multiples ==
  ASSUME NEW a \in Nat, NEW b \in Nat \ {0}
  PROVE  a % b = 0 <=> \E q \in Int : a = q * b
<1>1. ASSUME a % b = 0
      PROVE  \E q \in Int : a = q * b
  <2>1. a \div b \in Int /\ a = (a \div b) * b
    BY <1>1, Division
  <2>2. QED
    BY <2>1
<1>2. ASSUME NEW q \in Int, a = q * b
      PROVE  a % b = 0
  <2> DEFINE d == a \div b
             r == a % b
  <2>1. d \in Nat /\ r \in Nat /\ r < b /\ a = d * b + r
    BY Division
  <2> HIDE DEF d, r
  <2>2. (q - d) * b = q * b - d * b /\ q * b \in Int /\ d * b \in Int /\ q - d \in Int
    BY <2>1
  <2>3. (q - d) * b = r
    BY <1>2, <2>1, <2>2
  <2>4. q - d = 0
    BY <2>1, <2>2, <2>3, MultipleNotSmall
  <2>5. r = 0
    BY <2>1, <2>3, <2>4
  <2>6. QED
    BY <2>5 DEF r
<1>3. QED
  BY <1>1, <1>2

(* Taking a multiple of a number away leaves the remainder as it is.       *)
LEMMA RemainderMinus ==
  ASSUME NEW a \in Nat, NEW c \in Nat, NEW b \in Nat \ {0}, c % b = 0, c <= a
  PROVE  (a - c) % b = a % b
<1>1. PICK q \in Int : c = q * b
  BY Multiples
<1>2. PICK x \in Nat : x = a - c
  OBVIOUS
<1> DEFINE d == a \div b
           r == a % b
           e == x \div b
           s == x % b
<1>3. d \in Nat /\ r \in Nat /\ r < b /\ a = d * b + r
  BY Division
<1>4. e \in Nat /\ s \in Nat /\ s < b /\ x = e * b + s
  BY Division
<1> HIDE DEF d, r, e, s
<1>5. /\ (d - q - e) * b = d * b - q * b - e * b /\ d - q - e \in Int
      /\ d * b \in Int /\ q * b \in Int /\ e * b \in Int
  BY <1>3, <1>4
<1>6. (d - q - e) * b = s - r
  BY <1>1, <1>2, <1>3, <1>4, <1>5
<1>7. d - q - e = 0
  BY <1>3, <1>4, <1>5, <1>6, MultipleNotSmall
<1>8. s = r
  BY <1>3, <1>4, <1>6, <1>7
<1>9. QED
  BY <1>2, <1>8 DEF s, r

(* ... and so does adding one: what is left of a region after a split      *)
(* starts in a page where the region did.                                  *)
LEMMA RemainderPlus ==
  ASSUME NEW a \in Nat, NEW c \in Nat, NEW b \in Nat \ {0}, c % b = 0
  PROVE  (a + c) % b = a % b
<1>1. PICK x \in Nat : x = a + c
  OBVIOUS
<1>2. x - c = a /\ c <= x
  BY <1>1
<1>3. (x - c) % b = x % b
  BY <1>2, RemainderMinus
<1>4. QED
  BY <1>1, <1>2, <1>3

(* Whether it overflows or not, a request is a whole number of pages. *)
LEMMA WholePages ==
  ASSUME NEW sz \in Nat
  PROVE  /\ InBytes(sz) \in Nat /\ InBytes(sz) % PageSize = 0
         /\ sz * PageSize \in Nat
<1> USE PageMgrAssumption DEF PageMgrAssumption
<1>1. PICK u \in Int : UIntRange = u * PageSize
  BY Multiples
<1>2. PICK a \in Nat : a = sz * PageSize
  OBVIOUS
<1> DEFINE d == a \div UIntRange
           r == a % UIntRange
<1>3. d \in Nat /\ r \in Nat /\ a = d * UIntRange + r
  BY Division
<1>4. r = InBytes(sz)
  BY <1>2 DEF InBytes
<1> HIDE DEF d, r
<1>5. d * (u * PageSize) = (d * u) * PageSize /\ d * u \in Int
  BY <1>3
<1>6. (sz - d * u) * PageSize = sz * PageSize - (d * u) * PageSize /\ sz - d * u \in Int
  BY <1>5
<1>7. r = (sz - d * u) * PageSize
  BY <1>1, <1>2, <1>3, <1>5, <1>6
<1>8. r % PageSize = 0
  BY <1>3, <1>6, <1>7, Multiples
<1>9. QED
  BY <1>2, <1>3, <1>4, <1>8

(***************************************************************************)
(* The list made of the memory map.                                        *)
(***************************************************************************)

NextListed(g, n) ==
  IF n = 0 THEN <<>>
  ELSE IF MemoryMap[n].addr # 0 THEN Append(g[n - 1], MemoryMap[n])
  ELSE g[n - 1]

(* The recursive function is defined: there is such a function for every   *)
(* first part of the map.                                                  *)
LEMMA ListedDefined ==
  /\ Listed \in [0 .. Len(MemoryMap) -> Seq(Regions)]
  /\ \A n \in 0 .. Len(MemoryMap) : Listed[n] = NextListed(Listed, n)
<1> DEFINE N == Len(MemoryMap)
           Holds(m) == \E g \in [0 .. m -> Seq(Regions)] :
                         \A n \in 0 .. m : g[n] = NextListed(g, n)
           T == {m \in 0 .. N : ~Holds(m)}
<1>1. N \in Nat /\ \A n \in 1 .. N : MemoryMap[n] \in Regions
  BY PageMgrAssumption DEF PageMgrAssumption
<1>2. Holds(0)
  <2>1. [n \in 0 .. 0 |-> <<>>] \in [0 .. 0 -> Seq(Regions)]
    OBVIOUS
  <2>2. \A n \in 0 .. 0 : [k \in 0 .. 0 |-> <<>>][n] = NextListed([k \in 0 .. 0 |-> <<>>], n)
    BY DEF NextListed
  <2>3. QED
    BY <2>1, <2>2
<1>3. ASSUME NEW m \in 0 .. N, m # 0, Holds(m - 1)
      PROVE  Holds(m)
  <2>1. PICK g \in [0 .. m - 1 -> Seq(Regions)] :
               \A n \in 0 .. m - 1 : g[n] = NextListed(g, n)
    BY <1>3
  <2> DEFINE f == [n \in 0 .. m |-> IF n = m THEN NextListed(g, m) ELSE g[n]]
  <2>2. m - 1 \in 0 .. m - 1 /\ m \in 1 .. N /\ m \in Nat
    BY <1>1, <1>3
  <2>3. NextListed(g, m) \in Seq(Regions)
    BY <1>1, <2>2 DEF NextListed
  <2>4. f \in [0 .. m -> Seq(Regions)]
    BY <2>2, <2>3
  <2>5. ASSUME NEW n \in 0 .. m
        PROVE  f[n] = NextListed(f, n)
    <3>1. n = 0 \/ (n - 1 \in 0 .. m - 1 /\ n - 1 # m /\ n - 1 \in 0 .. m)
      BY <2>2
    <3>2. NextListed(f, n) = NextListed(g, n)
      BY <3>1 DEF NextListed
    <3>3. n = m \/ n \in 0 .. m - 1
      BY <2>2
    <3>4. QED
      BY <2>1, <3>2, <3>3
  <2>6. QED
    BY <2>4, <2>5
<1> HIDE DEF Holds
<1>4. Holds(N)
  <2>1. CASE T = {}
    BY <1>1, <2>1
  <2>2. CASE T # {}
    <3>1. T \in SUBSET Nat
      OBVIOUS
    <3>2. PICK m \in T : \A k \in T : m <= k
      BY <2>2, <3>1, LeastNumber
    <3>3. m \in 0 .. N /\ ~Holds(m)
      OBVIOUS
    <3>4. m # 0
      BY <1>2, <3>3
    <3>5. m - 1 \in 0 .. N /\ ~(m <= m - 1)
      BY <1>1, <3>3, <3>4
    <3>6. Holds(m - 1)
      BY <3>2, <3>5
    <3>7. QED
      BY <1>3, <3>3, <3>4, <3>6
  <2>3. QED
    BY <2>1, <2>2
<1>5. PICK g \in [0 .. N -> Seq(Regions)] : \A n \in 0 .. N : g[n] = NextListed(g, n)
  BY <1>4 DEF Holds
<1>6. g = [n \in 0 .. N |-> NextListed(g, n)]
  BY <1>5
<1>7. Listed = [n \in 0 .. N |-> NextListed(Listed, n)]
  <2>1. Listed = CHOOSE h : h = [n \in 0 .. N |-> NextListed(h, n)]
    BY DEF Listed, NextListed
  <2>2. QED
    BY <1>6, <2>1
<1>8. \A n \in 0 .. N : Listed[n] = NextListed(Listed, n)
  BY <1>7
<1>9. \A n \in 0 .. N : Listed[n] = g[n]
  <2> DEFINE D == {n \in 0 .. N : Listed[n] # g[n]}
  <2>1. CASE D = {}
    BY <2>1
  <2>2. CASE D # {}
    <3>1. D \in SUBSET Nat
      OBVIOUS
    <3>2. PICK m \in D : \A k \in D : m <= k
      BY <2>2, <3>1, LeastNumber
    <3>3. m \in 0 .. N /\ Listed[m] # g[m]
      OBVIOUS
    <3>4. m = 0 \/ (m - 1 \in 0 .. N /\ ~(m <= m - 1))
      BY <1>1, <3>3
    <3>5. m = 0 \/ Listed[m - 1] = g[m - 1]
      BY <3>2, <3>4
    <3>6. NextListed(Listed, m) = NextListed(g, m)
      BY <3>5 DEF NextListed
    <3>7. QED
      BY <1>5, <1>8, <3>3, <3>6
  <2>3. QED
    BY <2>1, <2>2
<1>10. Listed = g
  BY <1>5, <1>7, <1>9
<1>11. QED
  BY <1>5, <1>10

(* Regions of which at least one is empty, or that one ends before the     *)
(* other starts.                                                           *)
Apart(r, s) ==
  r.size = 0 \/ s.size = 0 \/ r.addr + r.size <= s.addr \/ s.addr + s.size <= r.addr

ApartIn(list) == \A i, j \in 1 .. Len(list) : i # j => Apart(list[i], list[j])

(* An address that is whole pages away from where memory to be handed out  *)
(* started at first.                                                       *)
StartsWhole(ty, a) ==
  IF ty = PHYS_PAGES
  THEN \E i \in UsableEntries : a % PageSize = MemoryMap[i].addr % PageSize
  ELSE a % PageSize = 0

(* A region fit to be handed out from, and a chunk fit to be used. *)
Sound(ty, r) ==
  /\ ty = PHYS_PAGES => r.addr # 0
  /\ r.usable \/ ty # PHYS_PAGES => StartsWhole(ty, r.addr)

SoundChunk(h) == (h.ty = PHYS_PAGES => h.addr # 0) /\ StartsWhole(h.ty, h.addr)

(* The entries of the map's first n that are on the list. *)
Kept(n) == {MemoryMap[j] : j \in {k \in 1 .. n : MemoryMap[k].addr # 0}}

(* The list holds the map's entries that are not at address 0, each once.  *)
LEMMA ListedApart ==
  LET list == Listed[Len(MemoryMap)]
  IN  /\ list \in Seq(Regions)
      /\ ApartIn(list)
      /\ Len(list) <= Len(MemoryMap)
      /\ {list[i] : i \in 1 .. Len(list)} = Kept(Len(MemoryMap))
<1> DEFINE N == Len(MemoryMap)
           Elems(n) == {Listed[n][i] : i \in 1 .. Len(Listed[n])}
           Good(n) == ApartIn(Listed[n]) /\ Len(Listed[n]) <= n /\ Elems(n) = Kept(n)
           T == {n \in 0 .. N : ~Good(n)}
<1>1. N \in Nat /\ \A n \in 1 .. N : MemoryMap[n] \in Regions
  BY PageMgrAssumption DEF PageMgrAssumption
<1>2. Good(0)
  <2>1. Listed[0] = <<>>
    BY <1>1, ListedDefined DEF NextListed
  <2>2. Kept(0) = {}
    BY DEF Kept
  <2>3. QED
    BY <2>1, <2>2 DEF ApartIn
<1>3. ASSUME NEW n \in 1 .. N, Good(n - 1)
      PROVE  Good(n)
  <2>1. n - 1 \in 0 .. N /\ n \in 0 .. N /\ n # 0
    BY <1>1
  <2>2. PICK l \in Seq(Regions) : l = Listed[n - 1]
    BY <2>1, ListedDefined
  <2>3. MemoryMap[n] \in Regions
    BY <1>1
  <2>4. Kept(n) = Kept(n - 1) \cup (IF MemoryMap[n].addr # 0 THEN {MemoryMap[n]} ELSE {})
    <3>1. 1 .. n = (1 .. n - 1) \cup {n}
      BY <1>1
    <3>2. QED
      BY <3>1 DEF Kept
  <2>5. CASE MemoryMap[n].addr = 0
    <3>1. Listed[n] = Listed[n - 1]
      BY <2>1, <2>5, ListedDefined DEF NextListed
    <3>2. QED
      BY <1>3, <2>4, <2>5, <3>1
  <2>6. CASE MemoryMap[n].addr # 0
    <3>1. Listed[n] = Append(l, MemoryMap[n])
      BY <2>1, <2>2, <2>6, ListedDefined DEF NextListed
    <3>2. PICK m \in Seq(Regions) : m = Listed[n]
      BY <2>1, ListedDefined
    <3>3. /\ Len(m) = Len(l) + 1 /\ m[Len(l) + 1] = MemoryMap[n]
          /\ \A i \in 1 .. Len(l) : m[i] = l[i]
      BY <2>3, <3>1, <3>2
    <3>4. 1 .. Len(m) = (1 .. Len(l)) \cup {Len(l) + 1}
      BY <3>3
    <3>5. Elems(n) = Elems(n - 1) \cup {MemoryMap[n]}
      <4>1. Elems(n) = {m[i] : i \in 1 .. Len(m)} /\ Elems(n - 1) = {l[i] : i \in 1 .. Len(l)}
        BY <2>2, <3>2
      <4>2. {m[i] : i \in 1 .. Len(m)} = {m[i] : i \in 1 .. Len(l)} \cup {m[Len(l) + 1]}
        BY <3>4
      <4>3. {m[i] : i \in 1 .. Len(l)} = {l[i] : i \in 1 .. Len(l)}
        BY <3>3
      <4>4. QED
        BY <3>3, <4>1, <4>2, <4>3
    <3>6. ASSUME NEW i \in 1 .. Len(l)
          PROVE  Apart(m[i], MemoryMap[n]) /\ Apart(MemoryMap[n], m[i])
      <4>1. m[i] \in Kept(n - 1)
        BY <1>3, <2>2, <3>3
      <4>2. PICK j \in 1 .. n - 1 : MemoryMap[j].addr # 0 /\ m[i] = MemoryMap[j]
        BY <4>1 DEF Kept
      <4>3. j \in DOMAIN MemoryMap /\ n \in DOMAIN MemoryMap /\ j # n
        BY <1>1, PageMgrAssumption DEF PageMgrAssumption
      <4>4. QED
        BY <2>6, <4>2, <4>3, MapAssumption DEF MapAssumption, Apart
    <3>7. ApartIn(m)
      <4>1. ASSUME NEW i \in 1 .. Len(m), NEW j \in 1 .. Len(m), i # j
            PROVE  Apart(m[i], m[j])
        <5>1. CASE i \in 1 .. Len(l) /\ j \in 1 .. Len(l)
          BY <1>3, <2>2, <3>3, <4>1, <5>1 DEF ApartIn
        <5>2. CASE i = Len(l) + 1
          BY <3>3, <3>4, <3>6, <4>1, <5>2
        <5>3. CASE j = Len(l) + 1
          BY <3>3, <3>4, <3>6, <4>1, <5>3
        <5>4. QED
          BY <3>4, <5>1, <5>2, <5>3
      <4>2. QED
        BY <4>1 DEF ApartIn
    <3>8. Len(m) <= n
      BY <1>3, <2>1, <2>2, <3>3
    <3>9. QED
      BY <1>3, <2>4, <2>6, <3>2, <3>5, <3>7, <3>8
  <2>7. QED
    BY <2>5, <2>6
<1> HIDE DEF Good
<1>4. Good(N)
  <2>1. CASE T = {}
    BY <1>1, <2>1
  <2>2. CASE T # {}
    <3>1. T \in SUBSET Nat
      OBVIOUS
    <3>2. PICK m \in T : \A k \in T : m <= k
      BY <2>2, <3>1, LeastNumber
    <3>3. m \in 0 .. N /\ ~Good(m)
      OBVIOUS
    <3>4. m # 0
      BY <1>2, <3>3
    <3>5. m \in 1 .. N /\ m - 1 \in 0 .. N /\ ~(m <= m - 1)
      BY <1>1, <3>3, <3>4
    <3>6. Good(m - 1)
      BY <3>2, <3>5
    <3>7. QED
      BY <1>3, <3>3, <3>5, <3>6
  <2>3. QED
    BY <2>1, <2>2
<1>5. Listed[N] \in Seq(Regions)
  BY <1>1, ListedDefined
<1>6. QED
  BY <1>4, <1>5 DEF Good

(***************************************************************************)
(* The operations on a list.                                               *)
(***************************************************************************)

(* The walk from the head stops at a usable region that is large enough.   *)
LEMMA FirstFitFits ==
  ASSUME NEW list \in Seq(Regions), NEW n \in Nat, Fits(list, n) # {}
  PROVE  /\ FirstFit(list, n) \in 1 .. Len(list)
         /\ list[FirstFit(list, n)].usable /\ list[FirstFit(list, n)].size >= n
<1>1. Fits(list, n) \in SUBSET Nat /\ Fits(list, n) \subseteq 1 .. Len(list)
  BY DEF Fits
<1>2. FirstFit(list, n) \in Fits(list, n)
  BY <1>1, MinIsLeast DEF FirstFit
<1>3. QED
  BY <1>1, <1>2 DEF Fits

(* A list without its i-th region. *)
LEMMA RemovedPlaces ==
  ASSUME NEW S, NEW list \in Seq(S), NEW i \in 1 .. Len(list)
  PROVE  /\ RemoveAt(list, i) \in Seq(S)
         /\ Len(RemoveAt(list, i)) = Len(list) - 1
         /\ \A k \in 1 .. Len(list) - 1 :
              RemoveAt(list, i)[k] = IF k < i THEN list[k] ELSE list[k + 1]
<1>1. Len(list) \in Nat /\ i \in Nat
  OBVIOUS
<1>2. PICK a \in Seq(S) :
        /\ a = SubSeq(list, 1, i - 1) /\ Len(a) = i - 1
        /\ \A k \in 1 .. i - 1 : a[k] = list[k]
  <2> DEFINE b == SubSeq(list, 1, i - 1)
  <2>1. \A k \in 1 .. i - 1 : list[k] \in S
    BY <1>1
  <2>2. /\ b \in Seq(S)
        /\ Len(b) = IF 1 <= i - 1 THEN i - 1 - 1 + 1 ELSE 0
        /\ \A k \in 1 .. i - 1 - 1 + 1 : b[k] = list[1 + k - 1]
    BY <1>1, <2>1, SubSeqProperties
  <2>3. i - 1 - 1 + 1 = i - 1 /\ \A k \in 1 .. i - 1 : 1 + k - 1 = k
    BY <1>1
  <2>4. PICK c \in Seq(S) : c = b
    BY <2>2
  <2>5. Len(c) = i - 1
    BY <1>1, <2>2, <2>3, <2>4
  <2>6. QED
    BY <2>2, <2>3, <2>4, <2>5
<1>3. PICK b \in Seq(S) :
        /\ b = SubSeq(list, i + 1, Len(list)) /\ Len(b) = Len(list) - i
        /\ \A k \in 1 .. Len(list) - i : b[k] = list[k + i]
  <2> DEFINE a2 == SubSeq(list, i + 1, Len(list))
  <2>1. \A k \in i + 1 .. Len(list) : list[k] \in S
    BY <1>1
  <2>2. /\ a2 \in Seq(S)
        /\ Len(a2) = IF i + 1 <= Len(list) THEN Len(list) - (i + 1) + 1 ELSE 0
        /\ \A k \in 1 .. Len(list) - (i + 1) + 1 : a2[k] = list[i + 1 + k - 1]
    BY <1>1, <2>1, SubSeqProperties
  <2>3. /\ Len(list) - (i + 1) + 1 = Len(list) - i
        /\ \A k \in 1 .. Len(list) - i : i + 1 + k - 1 = k + i
    BY <1>1
  <2>4. PICK c \in Seq(S) : c = a2
    BY <2>2
  <2>5. Len(c) = Len(list) - i
    <3>1. CASE i + 1 <= Len(list)
      BY <2>2, <2>3, <2>4, <3>1
    <3>2. CASE ~(i + 1 <= Len(list))
      <4>1. Len(list) - i = 0
        BY <1>1, <3>2
      <4>2. QED
        BY <2>2, <2>4, <3>2, <4>1
    <3>3. QED
      BY <3>1, <3>2
  <2>6. QED
    BY <2>2, <2>3, <2>4, <2>5
<1>4. PICK s \in Seq(S) : s = a \o b
  <2>1. a \o b \in Seq(S)
    BY <1>2, <1>3
  <2>2. QED
    BY <2>1
<1>5. s = RemoveAt(list, i)
  BY <1>2, <1>3, <1>4 DEF RemoveAt
<1>6. /\ Len(s) = Len(list) - 1
      /\ \A k \in 1 .. Len(list) - 1 : s[k] = IF k <= i - 1 THEN a[k] ELSE b[k - (i - 1)]
  <2>1. /\ Len(a \o b) = Len(a) + Len(b)
        /\ \A k \in 1 .. Len(a) + Len(b) :
             (a \o b)[k] = IF k <= Len(a) THEN a[k] ELSE b[k - Len(a)]
    BY ConcatProperties
  <2>2. Len(a) + Len(b) = Len(list) - 1
    <3>1. Len(a) = i - 1 /\ Len(b) = Len(list) - i
      BY <1>2, <1>3
    <3>2. i - 1 + (Len(list) - i) = Len(list) - 1
      BY <1>1
    <3>3. QED
      BY <3>1, <3>2
  <2>3. QED
    BY <1>2, <1>4, <2>1, <2>2
<1>7. ASSUME NEW k \in 1 .. Len(list) - 1
      PROVE  s[k] = IF k < i THEN list[k] ELSE list[k + 1]
  <2>1. CASE k < i
    <3>1. k \in 1 .. i - 1 /\ s[k] = a[k]
      BY <1>1, <1>6, <2>1
    <3>2. QED
      BY <1>2, <2>1, <3>1
  <2>2. CASE ~(k < i)
    <3>1. s[k] = b[k - (i - 1)]
      <4>1. ~(k <= i - 1)
        BY <1>1, <2>2
      <4>2. QED
        BY <1>6, <4>1
    <3>2. k - (i - 1) \in 1 .. Len(list) - i /\ k - (i - 1) + i = k + 1
      BY <1>1, <2>2
    <3>3. QED
      BY <1>3, <2>2, <3>1, <3>2
  <2>3. QED
    BY <2>1, <2>2
<1>8. QED
  BY <1>5, <1>6, <1>7

(* A list with one region more in front. *)
LEMMA PrependedPlaces ==
  ASSUME NEW S, NEW list \in Seq(S), NEW r \in S
  PROVE  /\ <<r>> \o list \in Seq(S)
         /\ Len(<<r>> \o list) = Len(list) + 1
         /\ \A k \in 1 .. Len(list) + 1 :
              (<<r>> \o list)[k] = IF k = 1 THEN r ELSE list[k - 1]
<1>1. PICK a \in Seq(S) : a = <<r>> /\ Len(a) = 1 /\ a[1] = r
  <2>1. <<r>> \in Seq(S) /\ Len(<<r>>) = 1 /\ <<r>>[1] = r
    OBVIOUS
  <2>2. QED
    BY <2>1
<1>2. PICK s \in Seq(S) : s = a \o list
  <2>1. a \o list \in Seq(S)
    OBVIOUS
  <2>2. QED
    BY <2>1
<1>3. Len(list) \in Nat /\ Len(s) = Len(list) + 1
  BY <1>1, <1>2
<1>4. ASSUME NEW k \in 1 .. Len(list) + 1
      PROVE  s[k] = IF k = 1 THEN r ELSE list[k - 1]
  BY <1>1, <1>2, <1>3
<1>5. QED
  BY <1>1, <1>2, <1>3, <1>4

(* A region with another start, and with another size. *)
LEMMA RegionFields ==
  ASSUME NEW r \in Regions, NEW x \in Int
  PROVE  /\ [r EXCEPT !.addr = x] = [addr |-> x, size |-> r.size, usable |-> r.usable]
         /\ [r EXCEPT !.size = x] = [addr |-> r.addr, size |-> x, usable |-> r.usable]
<1>1. [r EXCEPT !.addr = x] = [addr |-> x, size |-> r.size, usable |-> r.usable]
  BY DEF Regions
<1>2. [r EXCEPT !.size = x] = [addr |-> r.addr, size |-> x, usable |-> r.usable]
  BY DEF Regions
<1>3. QED
  BY <1>1, <1>2

(* What is left of a region when n bytes are taken from its front. *)
Rest(r, n) == [addr |-> r.addr + n, size |-> r.size - n, usable |-> r.usable]

(* Where the regions of a list are once a request was served: the region   *)
(* it was taken from is gone or begins behind it, the others are the same. *)
LEMMA TakenPlaces ==
  ASSUME NEW list \in Seq(Regions), NEW n \in Nat, Fits(list, n) # {},
         NEW i, i = FirstFit(list, n)
  PROVE  /\ i \in 1 .. Len(list) /\ list[i].usable /\ list[i].size >= n
         /\ Taken(list, n) \in Seq(Regions)
         /\ Len(Taken(list, n)) = IF Exact(list, n) THEN Len(list) - 1 ELSE Len(list)
         /\ Exact(list, n) => \A k \in 1 .. Len(list) - 1 :
              Taken(list, n)[k] = IF k < i THEN list[k] ELSE list[k + 1]
         /\ ~Exact(list, n) =>
              /\ Rest(list[i], n) \in Regions
              /\ \A k \in 1 .. Len(list) :
                   Taken(list, n)[k] = IF k = i THEN Rest(list[i], n) ELSE list[k]
<1>1. i \in 1 .. Len(list) /\ list[i].usable /\ list[i].size >= n
  BY FirstFitFits
<1>2. CASE Exact(list, n)
  <2>1. Taken(list, n) = RemoveAt(list, i)
    BY <1>2 DEF Taken
  <2>2. QED
    BY <1>1, <1>2, <2>1, RemovedPlaces
<1>3. CASE ~Exact(list, n)
  <2>1. Taken(list, n) = [list EXCEPT ![i].addr = @ + n, ![i].size = @ - n]
    BY <1>3 DEF Taken
  <2>2. PICK r \in Regions : r = list[i]
    BY <1>1
  <2>3. /\ r.addr \in Nat /\ r.size \in Nat \ {0} /\ r.usable \in BOOLEAN
        /\ r = [addr |-> r.addr, size |-> r.size, usable |-> r.usable]
    BY DEF Regions
  <2>4. r.size # n /\ r.size >= n
    BY <1>1, <1>3, <2>2 DEF Exact
  <2>5. Rest(r, n) \in Regions
    BY <2>3, <2>4 DEF Rest, Regions
  <2>6. Taken(list, n) = [list EXCEPT ![i] = Rest(r, n)]
    <3>1. PICK q \in Regions : q = [r EXCEPT !.addr = @ + n]
      <4>1. [addr |-> r.addr + n, size |-> r.size, usable |-> r.usable] \in Regions
        BY <2>3 DEF Regions
      <4>2. [r EXCEPT !.addr = @ + n]
              = [addr |-> r.addr + n, size |-> r.size, usable |-> r.usable]
        <5>1. r.addr + n \in Int
          BY <2>3
        <5>2. QED
          BY <5>1, RegionFields
      <4>3. QED
        BY <4>1, <4>2
    <3>2. q.addr = r.addr + n /\ q.size = r.size /\ q.usable = r.usable
      BY <3>1 DEF Regions
    <3>3. [q EXCEPT !.size = @ - n] = Rest(r, n)
      <4>1. q.size - n \in Int
        BY DEF Regions
      <4>2. QED
        BY <3>2, <4>1, RegionFields DEF Rest
    <3>4. [list EXCEPT ![i].addr = @ + n, ![i].size = @ - n]
            = [list EXCEPT ![i] = [[list[i] EXCEPT !.addr = @ + n] EXCEPT !.size = @ - n]]
      BY <1>1
    <3>5. QED
      BY <2>1, <2>2, <3>1, <3>3, <3>4
  <2>7. PICK t \in Seq(Regions) : t = Taken(list, n)
    <3>1. [list EXCEPT ![i] = Rest(r, n)] \in Seq(Regions)
      BY <1>1, <2>5
    <3>2. QED
      BY <2>6, <3>1
  <2>8. /\ Len(t) = Len(list)
        /\ \A k \in 1 .. Len(list) : t[k] = IF k = i THEN Rest(r, n) ELSE list[k]
    BY <1>1, <2>5, <2>6, <2>7
  <2>9. QED
    BY <1>1, <1>3, <2>2, <2>5, <2>7, <2>8
<1>4. QED
  BY <1>2, <1>3

(* What a region becomes when bytes next to it are given back. *)
Merged(r, addr, size) ==
  [addr   |-> IF r.addr + r.size = addr THEN r.addr ELSE addr,
   size   |-> r.size + size,
   usable |-> r.usable]

(* The loop of free_pages changes one region of the list, the first that   *)
(* touches the bytes given back, and leaves the others.                    *)
LEMMA GrownPlaces ==
  ASSUME NEW list \in Seq(Regions), NEW addr \in Nat, NEW size \in Nat \ {0},
         Neighbours(list, addr, size) # {},
         NEW j, j = Min(Neighbours(list, addr, size))
  PROVE  /\ j \in 1 .. Len(list)
         /\ list[j].addr + list[j].size = addr \/ addr + size = list[j].addr
         /\ Merged(list[j], addr, size) \in Regions
         /\ Grown(list, addr, size) \in Seq(Regions)
         /\ Len(Grown(list, addr, size)) = Len(list)
         /\ \A k \in 1 .. Len(list) :
              Grown(list, addr, size)[k] =
                IF k = j THEN Merged(list[j], addr, size) ELSE list[k]
<1> DEFINE m == Merged(list[j], addr, size)
<1>1. /\ j \in 1 .. Len(list)
      /\ list[j].addr + list[j].size = addr \/ addr + size = list[j].addr
  <2>1. /\ Neighbours(list, addr, size) \in SUBSET Nat
        /\ Neighbours(list, addr, size) \subseteq 1 .. Len(list)
    BY DEF Neighbours
  <2>2. j \in Neighbours(list, addr, size)
    BY <2>1, MinIsLeast
  <2>3. QED
    BY <2>1, <2>2 DEF Neighbours
<1>2. PICK r \in Regions : r = list[j]
  BY <1>1
<1>3. /\ r.addr \in Nat /\ r.size \in Nat \ {0} /\ r.usable \in BOOLEAN
      /\ r = [addr |-> r.addr, size |-> r.size, usable |-> r.usable]
  BY DEF Regions
<1>4. Merged(r, addr, size) \in Regions
  BY <1>3 DEF Merged, Regions
<1>5. Grown(list, addr, size) = [list EXCEPT ![j] = Merged(r, addr, size)]
  <2>1. CASE r.addr + r.size = addr
    <3>1. Grown(list, addr, size) = [list EXCEPT ![j].size = @ + size]
      BY <1>2, <2>1 DEF Grown
    <3>2. [r EXCEPT !.size = @ + size] = Merged(r, addr, size)
      <4>1. r.size + size \in Int
        BY <1>3
      <4>2. QED
        BY <2>1, <4>1, RegionFields DEF Merged
    <3>3. [list EXCEPT ![j].size = @ + size]
            = [list EXCEPT ![j] = [list[j] EXCEPT !.size = @ + size]]
      BY <1>1
    <3>4. QED
      BY <1>2, <3>1, <3>2, <3>3
  <2>2. CASE r.addr + r.size # addr
    <3>1. Grown(list, addr, size) = [list EXCEPT ![j].size = @ + size, ![j].addr = addr]
      BY <1>2, <2>2 DEF Grown
    <3>2. PICK q \in Regions : q = [r EXCEPT !.size = @ + size]
      <4>1. [addr |-> r.addr, size |-> r.size + size, usable |-> r.usable] \in Regions
        BY <1>3 DEF Regions
      <4>2. [r EXCEPT !.size = @ + size]
              = [addr |-> r.addr, size |-> r.size + size, usable |-> r.usable]
        <5>1. r.size + size \in Int
          BY <1>3
        <5>2. QED
          BY <5>1, RegionFields
      <4>3. QED
        BY <4>1, <4>2
    <3>3. q.addr = r.addr /\ q.size = r.size + size /\ q.usable = r.usable
      BY <3>2 DEF Regions
    <3>4. [q EXCEPT !.addr = addr] = Merged(r, addr, size)
      <4>1. addr \in Int
        OBVIOUS
      <4>2. QED
        BY <2>2, <3>3, <4>1, RegionFields DEF Merged
    <3>5. [list EXCEPT ![j].size = @ + size, ![j].addr = addr]
            = [list EXCEPT ![j] = [[list[j] EXCEPT !.size = @ + size] EXCEPT !.addr = addr]]
      BY <1>1
    <3>6. QED
      BY <1>2, <3>1, <3>2, <3>4, <3>5
  <2>3. QED
    BY <2>1, <2>2
<1>6. PICK t \in Seq(Regions) : t = Grown(list, addr, size)
  <2>1. [list EXCEPT ![j] = Merged(r, addr, size)] \in Seq(Regions)
    BY <1>1, <1>4
  <2>2. QED
    BY <1>5, <2>1
<1>7. /\ Len(t) = Len(list)
      /\ \A k \in 1 .. Len(list) : t[k] = IF k = j THEN Merged(r, addr, size) ELSE list[k]
  BY <1>1, <1>4, <1>5, <1>6
<1>8. QED
  BY <1>1, <1>2, <1>4, <1>6, <1>7

(***************************************************************************)
(* Bytes.                                                                  *)
(***************************************************************************)

IsRange(r) == r.addr \in Nat /\ r.size \in Nat

Inside(r, s) == s.addr <= r.addr /\ r.addr + r.size <= s.addr + s.size

(* What is apart from a range is apart from every part of it.              *)
LEMMA InsideApart ==
  ASSUME NEW r, NEW s, NEW t, IsRange(r), IsRange(s), IsRange(t),
         Inside(r, s), Apart(s, t) \/ Apart(t, s)
  PROVE  Apart(r, t) /\ Apart(t, r)
BY DEF IsRange, Inside, Apart

(* Two adjacent ranges together are apart from what each is apart from. *)
LEMMA MergedApart ==
  ASSUME NEW r, NEW addr \in Nat, NEW size \in Nat \ {0}, NEW t,
         IsRange(r), r.size # 0, IsRange(t),
         r.addr + r.size = addr \/ addr + size = r.addr,
         Apart(r, t) \/ Apart(t, r),
         t.size = 0 \/ addr + size <= t.addr \/ t.addr + t.size <= addr
  PROVE  Apart(Merged(r, addr, size), t) /\ Apart(t, Merged(r, addr, size))
BY DEF IsRange, Apart, Merged

(* Ranges that are apart share no byte, and the other way round. *)
LEMMA ApartDisjoint ==
  ASSUME NEW r, NEW s, IsRange(r), IsRange(s)
  PROVE  Apart(r, s) <=> RegionSpan(r) \cap RegionSpan(s) = {}
<1>1. Apart(r, s) => RegionSpan(r) \cap RegionSpan(s) = {}
  BY DEF IsRange, Apart, RegionSpan, Span
<1>2. ASSUME ~Apart(r, s)
      PROVE  RegionSpan(r) \cap RegionSpan(s) # {}
  <2>1. CASE r.addr <= s.addr
    <3>1. s.addr \in RegionSpan(r) /\ s.addr \in RegionSpan(s)
      BY <1>2, <2>1 DEF IsRange, Apart, RegionSpan, Span
    <3>2. QED
      BY <3>1
  <2>2. CASE s.addr <= r.addr
    <3>1. r.addr \in RegionSpan(r) /\ r.addr \in RegionSpan(s)
      BY <1>2, <2>2 DEF IsRange, Apart, RegionSpan, Span
    <3>2. QED
      BY <3>1
  <2>3. QED
    BY <2>1, <2>2 DEF IsRange
<1>3. QED
  BY <1>1, <1>2

(***************************************************************************)
(* What the operations keep.                                               *)
(***************************************************************************)

SoundIn(ty, list) == \A i \in 1 .. Len(list) : Sound(ty, list[i])
Clear(list, c)    == \A i \in 1 .. Len(list) : Apart(list[i], c)

(* The range of a region that can be handed out; the lists are looked at   *)
(* as such ranges.                                                         *)
Cut(ty, r) == [addr |-> r.addr, size |-> Offered(ty, r)]

OffersApart(ty, list) ==
  \A i, j \in 1 .. Len(list) : i # j => Apart(Cut(ty, list[i]), Cut(ty, list[j]))
OffersClear(ty, list, c) == \A i \in 1 .. Len(list) : Apart(Cut(ty, list[i]), c)

(* Regions are ranges that are not empty, with numbers for ends.           *)
LEMMA RegionsAreRanges ==
  ASSUME NEW list \in Seq(Regions), NEW i \in 1 .. Len(list)
  PROVE  /\ list[i] \in Regions /\ IsRange(list[i])
         /\ list[i].addr \in Nat /\ list[i].size \in Nat \ {0} /\ list[i].size # 0
<1>1. list[i] \in Regions
  OBVIOUS
<1>2. QED
  BY <1>1 DEF Regions, IsRange

(* The place that a region of the list left by a request had before it.    *)
Origin(list, n, k) ==
  IF Exact(list, n) /\ k >= FirstFit(list, n) THEN k + 1 ELSE k

(* Each region after an allocation is a region of before, or what is left  *)
(* of the first that fits.                                                 *)
LEMMA TakenFrom ==
  ASSUME NEW list \in Seq(Regions), NEW n \in Nat, Fits(list, n) # {},
         NEW k \in 1 .. Len(Taken(list, n))
  PROVE  /\ Origin(list, n, k) \in 1 .. Len(list)
         /\ Origin(list, n, k) # FirstFit(list, n) =>
              Taken(list, n)[k] = list[Origin(list, n, k)]
         /\ Origin(list, n, k) = FirstFit(list, n) =>
              Taken(list, n)[k] = Rest(list[Origin(list, n, k)], n)
<1> DEFINE o == Origin(list, n, k)
           i == FirstFit(list, n)
<1>1. /\ i \in 1 .. Len(list) /\ Len(list) \in Nat /\ Taken(list, n) \in Seq(Regions)
      /\ Len(Taken(list, n)) = IF Exact(list, n) THEN Len(list) - 1 ELSE Len(list)
  BY TakenPlaces
<1>2. CASE Exact(list, n)
  <2>1. k \in 1 .. Len(list) - 1
    BY <1>1, <1>2
  <2>2. Taken(list, n)[k] = IF k < i THEN list[k] ELSE list[k + 1]
    BY <1>2, <2>1, TakenPlaces
  <2>3. CASE k < i
    <3>1. o = k
      BY <1>1, <1>2, <2>1, <2>3 DEF Origin
    <3>2. QED
      BY <1>1, <2>1, <2>2, <2>3, <3>1
  <2>4. CASE ~(k < i)
    <3>1. o = k + 1
      BY <1>1, <1>2, <2>1, <2>4 DEF Origin
    <3>2. QED
      BY <1>1, <2>1, <2>2, <2>4, <3>1
  <2>5. QED
    BY <2>3, <2>4
<1>3. CASE ~Exact(list, n)
  <2>1. k \in 1 .. Len(list) /\ o = k
    BY <1>1, <1>3 DEF Origin
  <2>2. Taken(list, n)[k] = IF k = i THEN Rest(list[i], n) ELSE list[k]
    BY <1>3, <2>1, TakenPlaces
  <2>3. QED
    BY <1>1, <1>3, <2>1, <2>2
<1>4. QED
  BY <1>2, <1>3

(* Different regions come from different regions. *)
LEMMA OriginsDiffer ==
  ASSUME NEW list \in Seq(Regions), NEW n \in Nat, Fits(list, n) # {},
         NEW k \in Nat, NEW m \in Nat, k # m
  PROVE  Origin(list, n, k) # Origin(list, n, m)
<1>1. FirstFit(list, n) \in Nat
  BY FirstFitFits
<1>2. QED
  BY <1>1 DEF Origin

(* What of a region can be handed out is a range inside it.                *)
LEMMA CutRange ==
  ASSUME NEW r \in Regions, NEW ty
  PROVE  /\ Cut(ty, r).addr = r.addr /\ Cut(ty, r).size = Offered(ty, r)
         /\ IsRange(Cut(ty, r)) /\ Offered(ty, r) <= r.size
<1>1. r.addr \in Nat /\ r.size \in Nat
  BY DEF Regions
<1>2. r.size % PageSize \in Nat /\ r.size % PageSize <= r.size
  <2>1. PageSize \in Nat \ {0}
    BY PageMgrAssumption DEF PageMgrAssumption
  <2>2. PICK d \in Nat, e \in Nat : e = r.size % PageSize /\ r.size = d * PageSize + e
    BY <1>1, <2>1, Division
  <2>3. d * PageSize \in Nat
    BY <2>1
  <2>4. QED
    BY <1>1, <2>2, <2>3
<1>3. Offered(ty, r) \in Nat /\ Offered(ty, r) <= r.size
  BY <1>1, <1>2 DEF Offered
<1>4. QED
  BY <1>1, <1>3 DEF Cut, IsRange

(* Of physical memory that is all of the region.                           *)
LEMMA CutPhysical ==
  ASSUME NEW list \in Seq(Regions)
  PROVE  /\ OffersApart(PHYS_PAGES, list) <=> ApartIn(list)
         /\ \A c : OffersClear(PHYS_PAGES, list, c) <=> Clear(list, c)
<1>1. \A i \in 1 .. Len(list) :
        /\ Cut(PHYS_PAGES, list[i]).addr = list[i].addr
        /\ Cut(PHYS_PAGES, list[i]).size = list[i].size
  BY DEF Cut, Offered
<1>2. \A i, j \in 1 .. Len(list) :
        Apart(Cut(PHYS_PAGES, list[i]), Cut(PHYS_PAGES, list[j])) <=> Apart(list[i], list[j])
  BY <1>1 DEF Apart
<1>3. \A c : \A i \in 1 .. Len(list) : Apart(Cut(PHYS_PAGES, list[i]), c) <=> Apart(list[i], c)
  BY <1>1 DEF Apart
<1>4. QED
  BY <1>2, <1>3 DEF OffersApart, OffersClear, ApartIn, Clear

(* Whole pages are taken from what can be handed out of a region, and what *)
(* can be handed out of the rest is the rest of that.                      *)
LEMMA CutRest ==
  ASSUME NEW r \in Regions, NEW ty, NEW n \in Nat, n % PageSize = 0, n <= r.size
  PROVE  /\ n <= Offered(ty, r)
         /\ Cut(ty, Rest(r, n)).addr = r.addr + n
         /\ Cut(ty, Rest(r, n)).size = Offered(ty, r) - n
<1>1. r.addr \in Nat /\ r.size \in Nat /\ PageSize \in Nat \ {0}
  BY PageMgrAssumption DEF PageMgrAssumption, Regions
<1>2. PICK x \in Nat : x = r.size - n
  BY <1>1
<1>3. x % PageSize = r.size % PageSize
  BY <1>1, <1>2, RemainderMinus
<1>4. PICK d \in Nat, e \in Nat : e = x % PageSize /\ x = d * PageSize + e
  BY <1>1, Division
<1>5. e <= x
  <2>1. d * PageSize \in Nat
    BY <1>1
  <2>2. QED
    BY <1>4, <2>1
<1>6. Rest(r, n).addr = r.addr + n /\ Rest(r, n).size = x
  BY <1>2 DEF Rest
<1>7. CASE ty = PHYS_PAGES
  BY <1>1, <1>2, <1>6, <1>7 DEF Cut, Offered
<1>8. CASE ty # PHYS_PAGES
  <2>1. Offered(ty, r) = r.size - e
    BY <1>3, <1>4, <1>8 DEF Offered
  <2>2. Offered(ty, Rest(r, n)) = x - e
    BY <1>4, <1>6, <1>8 DEF Offered
  <2>3. QED
    BY <1>1, <1>2, <1>5, <1>6, <2>1, <2>2 DEF Cut
<1>9. QED
  BY <1>7, <1>8

(* Allocating only makes regions smaller.                                  *)
LEMMA TakenInside ==
  ASSUME NEW list \in Seq(Regions), NEW n \in Nat, Fits(list, n) # {},
         n % PageSize = 0, NEW ty, NEW k \in 1 .. Len(Taken(list, n))
  PROVE  /\ Origin(list, n, k) \in 1 .. Len(list)
         /\ IsRange(Cut(ty, Taken(list, n)[k]))
         /\ Inside(Cut(ty, Taken(list, n)[k]), Cut(ty, list[Origin(list, n, k)]))
<1> DEFINE o == Origin(list, n, k)
<1>1. o \in 1 .. Len(list)
  BY TakenFrom
<1>2. PICK r \in Regions : r = list[o]
  BY <1>1
<1>3. r.addr \in Nat /\ r.size \in Nat
  BY DEF Regions
<1>4. Cut(ty, r).addr = r.addr /\ Cut(ty, r).size = Offered(ty, r) /\ IsRange(Cut(ty, r))
  BY CutRange
<1>5. CASE o # FirstFit(list, n)
  <2>1. Taken(list, n)[k] = r
    BY <1>2, <1>5, TakenFrom
  <2>2. Inside(Cut(ty, r), Cut(ty, r))
    BY <1>4 DEF Inside, IsRange
  <2>3. QED
    BY <1>1, <1>2, <1>4, <2>1, <2>2
<1>6. CASE o = FirstFit(list, n)
  <2>1. Taken(list, n)[k] = Rest(r, n)
    BY <1>2, <1>6, TakenFrom
  <2>2. n <= r.size
    BY <1>2, <1>3, <1>6, FirstFitFits
  <2>3. /\ n <= Offered(ty, r) /\ Cut(ty, Rest(r, n)).addr = r.addr + n
        /\ Cut(ty, Rest(r, n)).size = Offered(ty, r) - n
    BY <2>2, CutRest
  <2>4. IsRange(Cut(ty, Rest(r, n))) /\ Inside(Cut(ty, Rest(r, n)), Cut(ty, r))
    BY <1>3, <1>4, <2>3 DEF Inside, IsRange
  <2>5. QED
    BY <1>1, <1>2, <2>1, <2>4
<1>7. QED
  BY <1>5, <1>6

(* A request for whole pages leaves whole the alignment of the regions.    *)
LEMMA TakenSound ==
  ASSUME NEW list \in Seq(Regions), NEW n \in Nat, Fits(list, n) # {},
         n % PageSize = 0, NEW ty, SoundIn(ty, list)
  PROVE  SoundIn(ty, Taken(list, n))
<1>1. SUFFICES ASSUME NEW k \in 1 .. Len(Taken(list, n))
               PROVE  Sound(ty, Taken(list, n)[k])
  BY DEF SoundIn
<1>2. PICK o \in 1 .. Len(list) : o = Origin(list, n, k)
  BY TakenFrom
<1>3. Sound(ty, list[o])
  BY <1>2 DEF SoundIn
<1>4. CASE o # FirstFit(list, n)
  BY <1>2, <1>3, <1>4, TakenFrom
<1>5. CASE o = FirstFit(list, n)
  <2>1. Taken(list, n)[k] = Rest(list[o], n)
    BY <1>2, <1>5, TakenFrom
  <2>2. PICK a \in Nat : a = list[o].addr
    BY RegionsAreRanges
  <2>3. (a + n) % PageSize = a % PageSize
    BY RemainderPlus, PageMgrAssumption DEF PageMgrAssumption
  <2>4. Rest(list[o], n).addr = a + n /\ Rest(list[o], n).usable = list[o].usable
    BY <2>2 DEF Rest
  <2>5. StartsWhole(ty, a) => StartsWhole(ty, a + n)
    BY <2>3 DEF StartsWhole
  <2>6. ty = PHYS_PAGES => a + n # 0
    BY <1>3, <2>2 DEF Sound
  <2>7. list[o].usable \/ ty # PHYS_PAGES => StartsWhole(ty, a)
    BY <1>3, <2>2 DEF Sound
  <2>8. QED
    BY <2>1, <2>4, <2>5, <2>6, <2>7 DEF Sound
<1>6. QED
  BY <1>4, <1>5

(* Allocating keeps the regions of a list apart.                           *)
LEMMA TakenApart ==
  ASSUME NEW list \in Seq(Regions), NEW n \in Nat, Fits(list, n) # {},
         n % PageSize = 0, NEW ty, OffersApart(ty, list)
  PROVE  OffersApart(ty, Taken(list, n))
<1>1. SUFFICES ASSUME NEW k \in 1 .. Len(Taken(list, n)),
                      NEW m \in 1 .. Len(Taken(list, n)), k # m
               PROVE  Apart(Cut(ty, Taken(list, n)[k]), Cut(ty, Taken(list, n)[m]))
  BY DEF OffersApart
<1>2. PICK o \in 1 .. Len(list) : o = Origin(list, n, k)
  BY TakenFrom
<1>3. PICK p \in 1 .. Len(list) : p = Origin(list, n, m)
  BY TakenFrom
<1>4. o # p
  <2>1. k \in Nat /\ m \in Nat
    OBVIOUS
  <2>2. QED
    BY <1>1, <1>2, <1>3, <2>1, OriginsDiffer
<1>5. Apart(Cut(ty, list[o]), Cut(ty, list[p]))
  BY <1>4 DEF OffersApart
<1>6. IsRange(Cut(ty, list[o])) /\ IsRange(Cut(ty, list[p]))
  BY CutRange
<1>7. /\ IsRange(Cut(ty, Taken(list, n)[k]))
      /\ Inside(Cut(ty, Taken(list, n)[k]), Cut(ty, list[o]))
  BY <1>2, TakenInside
<1>8. /\ IsRange(Cut(ty, Taken(list, n)[m]))
      /\ Inside(Cut(ty, Taken(list, n)[m]), Cut(ty, list[p]))
  BY <1>3, TakenInside
<1>9. Apart(Cut(ty, Taken(list, n)[k]), Cut(ty, list[p]))
  BY <1>5, <1>6, <1>7, InsideApart
<1>10. QED
  BY <1>6, <1>7, <1>8, <1>9, InsideApart

(* What the regions were clear of, what is left of them is clear of.       *)
LEMMA TakenClear ==
  ASSUME NEW list \in Seq(Regions), NEW n \in Nat, Fits(list, n) # {},
         n % PageSize = 0, NEW ty, NEW c, IsRange(c), OffersClear(ty, list, c)
  PROVE  OffersClear(ty, Taken(list, n), c)
<1>1. SUFFICES ASSUME NEW k \in 1 .. Len(Taken(list, n))
               PROVE  Apart(Cut(ty, Taken(list, n)[k]), c)
  BY DEF OffersClear
<1>2. PICK o \in 1 .. Len(list) : o = Origin(list, n, k)
  BY TakenFrom
<1>3. Apart(Cut(ty, list[o]), c) /\ IsRange(Cut(ty, list[o]))
  BY CutRange DEF OffersClear
<1>4. /\ IsRange(Cut(ty, Taken(list, n)[k]))
      /\ Inside(Cut(ty, Taken(list, n)[k]), Cut(ty, list[o]))
  BY <1>2, TakenInside
<1>5. QED
  BY <1>3, <1>4, InsideApart

(* The chunk taken is part of the region it is taken from, and nothing of  *)
(* it stays on the list.                                                   *)
LEMMA ChunkTaken ==
  ASSUME NEW list \in Seq(Regions), NEW n \in Nat, Fits(list, n) # {},
         n % PageSize = 0, NEW ty,
         NEW c, c.addr = list[FirstFit(list, n)].addr, c.size = n
  PROVE  /\ IsRange(c) /\ Inside(c, Cut(ty, list[FirstFit(list, n)]))
         /\ OffersApart(ty, list) => OffersClear(ty, Taken(list, n), c)
<1> DEFINE i == FirstFit(list, n)
<1>1. i \in 1 .. Len(list) /\ list[i].size >= n
  BY FirstFitFits
<1>2. PICK r \in Regions : r = list[i]
  BY <1>1
<1>3. r.addr \in Nat /\ r.size \in Nat
  BY DEF Regions
<1>4. /\ n <= Offered(ty, r) /\ Cut(ty, Rest(r, n)).addr = r.addr + n
      /\ Cut(ty, r).addr = r.addr /\ Cut(ty, r).size = Offered(ty, r)
      /\ IsRange(Cut(ty, r))
  BY <1>1, <1>2, CutRest, CutRange
<1>5. IsRange(c) /\ Inside(c, Cut(ty, r))
  BY <1>2, <1>3, <1>4 DEF IsRange, Inside
<1>6. ASSUME OffersApart(ty, list), NEW k \in 1 .. Len(Taken(list, n))
      PROVE  Apart(Cut(ty, Taken(list, n)[k]), c)
  <2>1. PICK o \in 1 .. Len(list) :
           /\ o # i => Taken(list, n)[k] = list[o]
           /\ o = i => Taken(list, n)[k] = Rest(list[o], n)
    BY TakenFrom
  <2>2. CASE o = i
    <3>1. Taken(list, n)[k] = Rest(r, n)
      BY <1>2, <2>1, <2>2
    <3>2. c.addr + c.size <= Cut(ty, Rest(r, n)).addr
      BY <1>2, <1>3, <1>4
    <3>3. QED
      BY <3>1, <3>2 DEF Apart
  <2>3. CASE o # i
    <3>1. Taken(list, n)[k] = list[o]
      BY <2>1, <2>3, TakenFrom
    <3>2. Apart(Cut(ty, r), Cut(ty, list[o])) /\ IsRange(Cut(ty, list[o]))
      BY <1>1, <1>2, <1>6, <2>3, CutRange DEF OffersApart
    <3>3. Apart(Cut(ty, list[o]), c)
      BY <1>4, <1>5, <3>2, InsideApart
    <3>4. QED
      BY <3>1, <3>3
  <2>4. QED
    BY <2>2, <2>3
<1>7. QED
  BY <1>2, <1>5, <1>6 DEF OffersClear

(***************************************************************************)
(* Giving back.                                                            *)
(***************************************************************************)

(* A neighbour starts where it did, or where the chunk given back does.    *)
LEMMA GrownSound ==
  ASSUME NEW list \in Seq(Regions), NEW addr \in Nat, NEW size \in Nat \ {0},
         Neighbours(list, addr, size) # {}, NEW ty, SoundIn(ty, list),
         StartsWhole(ty, addr), ty = PHYS_PAGES => addr # 0
  PROVE  SoundIn(ty, Grown(list, addr, size))
<1> DEFINE j == Min(Neighbours(list, addr, size))
<1>1. j \in 1 .. Len(list) /\ Len(Grown(list, addr, size)) = Len(list)
  BY GrownPlaces
<1>2. SUFFICES ASSUME NEW k \in 1 .. Len(list)
               PROVE  Sound(ty, Grown(list, addr, size)[k])
  BY <1>1 DEF SoundIn
<1>3. Sound(ty, list[k])
  BY DEF SoundIn
<1>4. CASE k # j
  <2>1. Grown(list, addr, size)[k] = list[k]
    BY <1>4, GrownPlaces
  <2>2. QED
    BY <1>3, <2>1
<1>5. CASE k = j
  <2>1. Grown(list, addr, size)[k] = Merged(list[k], addr, size)
    <3>1. Grown(list, addr, size)[j] = Merged(list[j], addr, size)
      BY <1>1, GrownPlaces
    <3>2. QED
      BY <1>5, <3>1
  <2>2. /\ \/ Merged(list[k], addr, size).addr = list[k].addr
           \/ Merged(list[k], addr, size).addr = addr
        /\ Merged(list[k], addr, size).usable = list[k].usable
    BY DEF Merged
  <2>3. QED
    BY <1>3, <2>1, <2>2 DEF Sound
<1>6. QED
  BY <1>4, <1>5

(* What both the neighbour and the chunk are apart from, they are together.*)
LEMMA GrownClear ==
  ASSUME NEW list \in Seq(Regions), NEW addr \in Nat, NEW size \in Nat \ {0},
         Neighbours(list, addr, size) # {},
         NEW c, IsRange(c), Clear(list, c),
         c.size = 0 \/ addr + size <= c.addr \/ c.addr + c.size <= addr
  PROVE  Clear(Grown(list, addr, size), c)
<1> DEFINE j == Min(Neighbours(list, addr, size))
<1>1. /\ j \in 1 .. Len(list) /\ Len(Grown(list, addr, size)) = Len(list)
      /\ list[j].addr + list[j].size = addr \/ addr + size = list[j].addr
  BY GrownPlaces
<1>2. SUFFICES ASSUME NEW k \in 1 .. Len(list)
               PROVE  Apart(Grown(list, addr, size)[k], c)
  BY <1>1 DEF Clear
<1>3. Apart(list[k], c) /\ IsRange(list[k]) /\ list[k].size # 0
  BY RegionsAreRanges DEF Clear
<1>4. CASE k # j
  <2>1. Grown(list, addr, size)[k] = list[k]
    BY <1>4, GrownPlaces
  <2>2. QED
    BY <1>3, <2>1
<1>5. CASE k = j
  <2>1. Grown(list, addr, size)[k] = Merged(list[k], addr, size)
    <3>1. Grown(list, addr, size)[j] = Merged(list[j], addr, size)
      BY <1>1, GrownPlaces
    <3>2. QED
      BY <1>5, <3>1
  <2>2. list[k].addr + list[k].size = addr \/ addr + size = list[k].addr
    BY <1>1, <1>5
  <2>3. QED
    BY <1>3, <2>1, <2>2, MergedApart
<1>6. QED
  BY <1>4, <1>5

(* A region that grows by bytes no other region has stays apart from the   *)
(* others.                                                                 *)
LEMMA GrownApart ==
  ASSUME NEW list \in Seq(Regions), NEW addr \in Nat, NEW size \in Nat \ {0},
         Neighbours(list, addr, size) # {}, ApartIn(list),
         \A k \in 1 .. Len(list) :
           addr + size <= list[k].addr \/ list[k].addr + list[k].size <= addr
  PROVE  ApartIn(Grown(list, addr, size))
<1> DEFINE j == Min(Neighbours(list, addr, size))
<1>1. /\ j \in 1 .. Len(list) /\ Len(Grown(list, addr, size)) = Len(list)
      /\ list[j].addr + list[j].size = addr \/ addr + size = list[j].addr
  BY GrownPlaces
<1>2. SUFFICES ASSUME NEW k \in 1 .. Len(list), NEW m \in 1 .. Len(list), k # m
               PROVE  Apart(Grown(list, addr, size)[k], Grown(list, addr, size)[m])
  BY <1>1 DEF ApartIn
<1>3. Apart(list[k], list[m]) /\ Apart(list[m], list[k])
  BY <1>2 DEF ApartIn
<1>4. /\ IsRange(list[k]) /\ list[k].size # 0
      /\ IsRange(list[m]) /\ list[m].size # 0
  BY RegionsAreRanges
<1>5. \A p \in 1 .. Len(list) : p # j => Grown(list, addr, size)[p] = list[p]
  BY GrownPlaces
<1>6. Grown(list, addr, size)[j] = Merged(list[j], addr, size)
  BY <1>1, GrownPlaces
<1>7. CASE k # j /\ m # j
  BY <1>3, <1>5, <1>7
<1>8. CASE k = j
  <2>1. list[k].addr + list[k].size = addr \/ addr + size = list[k].addr
    BY <1>1, <1>8
  <2>2. addr + size <= list[m].addr \/ list[m].addr + list[m].size <= addr
    OBVIOUS
  <2>3. Apart(Merged(list[k], addr, size), list[m])
    BY <1>3, <1>4, <2>1, <2>2, MergedApart
  <2>4. Grown(list, addr, size)[m] = list[m]
    BY <1>2, <1>5, <1>8
  <2>5. QED
    BY <1>6, <1>8, <2>3, <2>4
<1>9. CASE m = j
  <2>1. list[m].addr + list[m].size = addr \/ addr + size = list[m].addr
    BY <1>1, <1>9
  <2>2. addr + size <= list[k].addr \/ list[k].addr + list[k].size <= addr
    OBVIOUS
  <2>3. Apart(list[k], Merged(list[m], addr, size))
    BY <1>3, <1>4, <2>1, <2>2, MergedApart
  <2>4. Grown(list, addr, size)[k] = list[k]
    BY <1>2, <1>5, <1>9
  <2>5. QED
    BY <1>6, <1>9, <2>3, <2>4
<1>10. QED
  BY <1>7, <1>8, <1>9

(* The region made of a chunk that no region of the list is next to.       *)
Returned(addr, size) == [addr |-> addr, size |-> size, usable |-> TRUE]

(* A new region at the head of the list is apart from the rest if what can *)
(* be handed out of it was clear.                                          *)
LEMMA PrependedApart ==
  ASSUME NEW list \in Seq(Regions), NEW r \in Regions, NEW ty,
         OffersApart(ty, list), OffersClear(ty, list, Cut(ty, r))
  PROVE  OffersApart(ty, <<r>> \o list)
<1>1. PICK s \in Seq(Regions) : s = <<r>> \o list
  BY PrependedPlaces
<1>2. /\ Len(list) \in Nat /\ Len(s) = Len(list) + 1
      /\ \A k \in 1 .. Len(list) + 1 : s[k] = IF k = 1 THEN r ELSE list[k - 1]
  BY <1>1, PrependedPlaces
<1>3. SUFFICES ASSUME NEW k \in 1 .. Len(list) + 1, NEW m \in 1 .. Len(list) + 1, k # m
               PROVE  Apart(Cut(ty, s[k]), Cut(ty, s[m]))
  BY <1>1, <1>2 DEF OffersApart
<1>4. CASE k = 1
  <2>1. s[k] = r /\ s[m] = list[m - 1] /\ m - 1 \in 1 .. Len(list)
    BY <1>2, <1>3, <1>4
  <2>2. Apart(Cut(ty, list[m - 1]), Cut(ty, r))
    BY <2>1 DEF OffersClear
  <2>3. QED
    BY <2>1, <2>2 DEF Apart
<1>5. CASE m = 1
  <2>1. s[m] = r /\ s[k] = list[k - 1] /\ k - 1 \in 1 .. Len(list)
    BY <1>2, <1>3, <1>5
  <2>2. QED
    BY <2>1 DEF OffersClear
<1>6. CASE k # 1 /\ m # 1
  <2>1. /\ s[k] = list[k - 1] /\ k - 1 \in 1 .. Len(list)
        /\ s[m] = list[m - 1] /\ m - 1 \in 1 .. Len(list) /\ k - 1 # m - 1
    BY <1>2, <1>3, <1>6
  <2>2. QED
    BY <2>1 DEF OffersApart
<1>7. QED
  BY <1>4, <1>5, <1>6

(* ... and leaves the list clear of what it is apart from,                 *)
LEMMA PrependedClear ==
  ASSUME NEW list \in Seq(Regions), NEW r \in Regions, NEW ty,
         NEW c, OffersClear(ty, list, c), Apart(Cut(ty, r), c)
  PROVE  OffersClear(ty, <<r>> \o list, c)
<1>1. PICK s \in Seq(Regions) : s = <<r>> \o list
  BY PrependedPlaces
<1>2. /\ Len(list) \in Nat /\ Len(s) = Len(list) + 1
      /\ \A k \in 1 .. Len(list) + 1 : s[k] = IF k = 1 THEN r ELSE list[k - 1]
  BY <1>1, PrependedPlaces
<1>3. SUFFICES ASSUME NEW k \in 1 .. Len(list) + 1
               PROVE  Apart(Cut(ty, s[k]), c)
  BY <1>1, <1>2 DEF OffersClear
<1>4. CASE k = 1
  BY <1>2, <1>4
<1>5. CASE k # 1
  <2>1. s[k] = list[k - 1] /\ k - 1 \in 1 .. Len(list)
    BY <1>2, <1>3, <1>5
  <2>2. QED
    BY <2>1 DEF OffersClear
<1>6. QED
  BY <1>4, <1>5

(* ... and sound if it is sound itself.                                    *)
LEMMA PrependedSound ==
  ASSUME NEW list \in Seq(Regions), NEW r \in Regions,
         NEW ty, SoundIn(ty, list), Sound(ty, r)
  PROVE  SoundIn(ty, <<r>> \o list)
<1>1. PICK s \in Seq(Regions) : s = <<r>> \o list
  BY PrependedPlaces
<1>2. /\ Len(list) \in Nat /\ Len(s) = Len(list) + 1
      /\ \A k \in 1 .. Len(list) + 1 : s[k] = IF k = 1 THEN r ELSE list[k - 1]
  BY <1>1, PrependedPlaces
<1>3. SUFFICES ASSUME NEW k \in 1 .. Len(list) + 1
               PROVE  Sound(ty, s[k])
  BY <1>1, <1>2 DEF SoundIn
<1>4. CASE k = 1
  BY <1>2, <1>4
<1>5. CASE k # 1
  <2>1. s[k] = list[k - 1] /\ k - 1 \in 1 .. Len(list)
    BY <1>2, <1>3, <1>5
  <2>2. QED
    BY <2>1 DEF SoundIn
<1>6. QED
  BY <1>4, <1>5

(***************************************************************************)
(* Bytes of a buffer in use.                                               *)
(***************************************************************************)

(* Less than a page that is added to a region of kernel pages, or made one,*)
(* at the start of a buffer changes nothing that can be handed out: both   *)
(* start on page boundaries.                                               *)
LEMMA KeptMerged ==
  ASSUME NEW r \in Regions, NEW addr \in Nat, NEW size \in Nat \ {0}, size < PageSize,
         r.addr % PageSize = 0, addr % PageSize = 0,
         r.addr + r.size = addr \/ addr + size = r.addr
  PROVE  Cut(KVIRT_PAGES, Merged(r, addr, size)) = Cut(KVIRT_PAGES, r)
<1>1. r.addr \in Nat /\ r.size \in Nat \ {0} /\ PageSize \in Nat \ {0}
  BY PageMgrAssumption DEF Regions, PageMgrAssumption
<1>2. size % PageSize = size
  BY <1>1
<1>3. r.addr + r.size = addr
  <2>1. ASSUME addr + size = r.addr
        PROVE  FALSE
    <3>1. (size + addr) % PageSize = size % PageSize
      BY <1>1, RemainderPlus
    <3>2. size + addr = r.addr
      BY <1>1, <2>1
    <3>3. QED
      BY <1>2, <3>1, <3>2
  <2>2. QED
    BY <2>1
<1>4. r.size % PageSize = 0
  <2>1. (r.size + r.addr) % PageSize = r.size % PageSize
    BY <1>1, RemainderPlus
  <2>2. r.size + r.addr = addr
    BY <1>1, <1>3
  <2>3. QED
    BY <2>1, <2>2
<1>5. (size + r.size) % PageSize = size
  BY <1>1, <1>2, <1>4, RemainderPlus
<1>6. Merged(r, addr, size).addr = r.addr /\ Merged(r, addr, size).size = size + r.size
  BY <1>1, <1>3 DEF Merged
<1>7. Offered(KVIRT_PAGES, Merged(r, addr, size)) = r.size
  BY <1>1, <1>5, <1>6 DEF Offered, KVIRT_PAGES, PHYS_PAGES
<1>8. Offered(KVIRT_PAGES, r) = r.size
  BY <1>1, <1>4 DEF Offered
<1>9. QED
  BY <1>6, <1>7, <1>8 DEF Cut

(* The lists of kernel pages offer what they did.                          *)
LEMMA KeptGrown ==
  ASSUME NEW list \in Seq(Regions), NEW addr \in Nat, NEW size \in Nat \ {0},
         size < PageSize, Neighbours(list, addr, size) # {},
         SoundIn(KVIRT_PAGES, list), addr % PageSize = 0
  PROVE  /\ Len(Grown(list, addr, size)) = Len(list)
         /\ \A k \in 1 .. Len(list) :
              /\ Cut(KVIRT_PAGES, Grown(list, addr, size)[k]) = Cut(KVIRT_PAGES, list[k])
              /\ Grown(list, addr, size)[k].usable = list[k].usable
<1> DEFINE j == Min(Neighbours(list, addr, size))
<1>1. /\ j \in 1 .. Len(list) /\ Len(Grown(list, addr, size)) = Len(list)
      /\ list[j].addr + list[j].size = addr \/ addr + size = list[j].addr
  BY GrownPlaces
<1>2. Grown(list, addr, size)[j] = Merged(list[j], addr, size)
  BY <1>1, GrownPlaces
<1>3. PICK r \in Regions : r = list[j]
  BY <1>1
<1>4. r.addr % PageSize = 0
  BY <1>1, <1>3 DEF SoundIn, Sound, StartsWhole, KVIRT_PAGES, PHYS_PAGES
<1>5. Cut(KVIRT_PAGES, Merged(r, addr, size)) = Cut(KVIRT_PAGES, r)
  BY <1>1, <1>3, <1>4, KeptMerged
<1>6. Merged(r, addr, size).usable = r.usable
  BY DEF Merged
<1>7. ASSUME NEW k \in 1 .. Len(list), k # j
      PROVE  Grown(list, addr, size)[k] = list[k]
  BY <1>7, GrownPlaces
<1>8. ASSUME NEW k \in 1 .. Len(list)
      PROVE  /\ Cut(KVIRT_PAGES, Grown(list, addr, size)[k]) = Cut(KVIRT_PAGES, list[k])
             /\ Grown(list, addr, size)[k].usable = list[k].usable
  <2>1. CASE k = j
    BY <1>2, <1>3, <1>5, <1>6, <2>1
  <2>2. CASE k # j
    <3>1. Grown(list, addr, size)[k] = list[k]
      BY <1>7, <2>2
    <3>2. QED
      BY <3>1
  <2>3. QED
    BY <2>1, <2>2
<1>9. QED
  BY <1>1, <1>8

(* A region of less than a page offers nothing.                            *)
LEMMA KeptReturned ==
  ASSUME NEW addr \in Nat, NEW size \in Nat, size < PageSize
  PROVE  Cut(KVIRT_PAGES, Returned(addr, size)).size = 0
<1>1. size % PageSize = size
  BY PageMgrAssumption DEF PageMgrAssumption
<1>2. QED
  BY <1>1 DEF Cut, Offered, Returned, KVIRT_PAGES, PHYS_PAGES

(***************************************************************************)
(* The inductive invariant.  That the lists are apart from each other's    *)
(* regions and from the chunks held is what makes it inductive: a chunk    *)
(* given up lies where nothing else does, so merging it is harmless.       *)
(***************************************************************************)

Chunks == [ty : PageTypes, addr : Nat, size : Nat]

Types ==
  /\ head \in [PageTypes -> Seq(Regions)]
  /\ kobjs \in Nat
  /\ held \subseteq Chunks
  /\ overflowed \in BOOLEAN /\ undercut \in BOOLEAN

AllSound ==
  /\ \A ty \in PageTypes : SoundIn(ty, head[ty])
  /\ \A h \in held : SoundChunk(h)

Separate ==
  ~overflowed /\ ~undercut =>
    /\ \A ty \in PageTypes : OffersApart(ty, head[ty])
    /\ \A h \in held : OffersClear(h.ty, head[h.ty], h)
    /\ \A g, h \in held : g.ty = h.ty /\ g # h => Apart(g, h)

IInv == Types /\ AllSound /\ Separate

(* init_page_mgr: the regions of the map, each on its list, are sound and  *)
(* apart.                                                                  *)
LEMMA InitInv == Init => IInv
<1> SUFFICES ASSUME Init
             PROVE  IInv
  OBVIOUS
<1>1. PICK list \in Seq(Regions) : list = Listed[Len(MemoryMap)]
  BY ListedApart
<1>2. /\ ApartIn(list) /\ Len(list) <= Len(MemoryMap)
      /\ {list[i] : i \in 1 .. Len(list)} = Kept(Len(MemoryMap))
  BY <1>1, ListedApart
<1>3. PICK one \in Seq(Regions) :
        one = <<KernelSpace>> /\ Len(one) = 1 /\ one[1] = KernelSpace
  <2>1. PICK k \in Regions : k = KernelSpace
    BY PageMgrAssumption DEF PageMgrAssumption
  <2>2. <<k>> \in Seq(Regions) /\ Len(<<k>>) = 1 /\ <<k>>[1] = k
    OBVIOUS
  <2>3. QED
    BY <2>1, <2>2
<1>4. head = [ty \in PageTypes |-> IF ty = PHYS_PAGES THEN list ELSE one]
  BY <1>1, <1>3 DEF Init
<1>5. Types
  <2>1. Len(head[PHYS_PAGES]) = Len(list) /\ Len(head[KVIRT_PAGES]) = 1
    BY <1>3, <1>4 DEF PageTypes, PHYS_PAGES, KVIRT_PAGES
  <2>2. kobjs = MaxObjects - (Len(list) + 1)
    BY <2>1 DEF Init, InUse
  <2>3. kobjs \in Nat
    BY <1>2, <2>2, PageMgrAssumption DEF PageMgrAssumption
  <2>4. QED
    BY <1>4, <2>3 DEF Init, Types
<1>6. ASSUME NEW i \in 1 .. Len(list)
      PROVE  Sound(PHYS_PAGES, list[i])
  <2>1. list[i] \in Kept(Len(MemoryMap))
    BY <1>2
  <2>2. PICK j \in 1 .. Len(MemoryMap) : MemoryMap[j].addr # 0 /\ list[i] = MemoryMap[j]
    BY <2>1 DEF Kept
  <2>3. DOMAIN MemoryMap = 1 .. Len(MemoryMap)
    BY PageMgrAssumption DEF PageMgrAssumption
  <2>4. QED
    BY <2>2, <2>3 DEF Sound, StartsWhole, UsableEntries
<1>7. ASSUME NEW ty \in PageTypes
      PROVE  SoundIn(ty, head[ty]) /\ OffersApart(ty, head[ty])
  <2>1. CASE ty = PHYS_PAGES
    <3>1. head[ty] = list
      BY <1>4, <2>1
    <3>2. SoundIn(PHYS_PAGES, list)
      BY <1>6 DEF SoundIn
    <3>3. OffersApart(PHYS_PAGES, list)
      BY <1>2, CutPhysical
    <3>4. QED
      BY <2>1, <3>1, <3>2, <3>3
  <2>2. CASE ty # PHYS_PAGES
    <3>1. head[ty] = one
      BY <1>4, <2>2
    <3>2. \A i \in 1 .. Len(one) : i = 1
      BY <1>3
    <3>3. Sound(ty, KernelSpace)
      BY <2>2, PageMgrAssumption DEF PageMgrAssumption, Sound, StartsWhole
    <3>4. QED
      BY <1>3, <3>1, <3>2, <3>3 DEF SoundIn, OffersApart
  <2>3. QED
    BY <2>1, <2>2
<1>8. held = {}
  BY DEF Init
<1>9. QED
  BY <1>5, <1>7, <1>8 DEF IInv, AllSound, Separate

(* A request takes the front of one region, however many bytes it was cut  *)
(* down to; the chunk is as large as what was asked only if it was not.    *)
LEMMA AllocKeeps ==
  ASSUME IInv, NEW sz \in Requests, NEW ty \in PageTypes, alloc_pages(sz, ty)
  PROVE  IInv'
<1>1. PICK list \in Seq(Regions) : list = head[ty]
  BY DEF IInv, Types
<1>2. sz \in Nat
  BY PageMgrAssumption DEF PageMgrAssumption
<1>3. PICK n \in Nat : n = InBytes(sz) /\ n % PageSize = 0
  BY <1>2, WholePages
<1>4. PICK i \in 1 .. Len(list) : i = FirstFit(list, n) /\ Fits(list, n) # {}
  <2>1. Fits(list, n) # {}
    BY <1>1, <1>3 DEF alloc_pages
  <2>2. QED
    BY <2>1, FirstFitFits
<1>5. PICK c \in Chunks :
        c.ty = ty /\ c.addr = list[i].addr /\ c.size = sz * PageSize
          /\ c = [ty |-> ty, addr |-> list[i].addr, size |-> sz * PageSize]
  <2>1. list[i].addr \in Nat /\ sz * PageSize \in Nat
    BY <1>2, RegionsAreRanges, WholePages
  <2>2. QED
    BY <2>1 DEF Chunks
<1>6. /\ head' = [head EXCEPT ![ty] = Taken(list, n)]
      /\ held' = held \cup {c}
      /\ kobjs' = IF Exact(list, n) THEN kobjs + 1 ELSE kobjs
      /\ overflowed' = (overflowed \/ n # sz * PageSize) /\ undercut' = undercut
  BY <1>1, <1>3, <1>4, <1>5 DEF alloc_pages
<1>7. Taken(list, n) \in Seq(Regions)
  BY <1>4, TakenPlaces
<1>8. Types'
  BY <1>6, <1>7 DEF IInv, Types
<1>9. \A t \in PageTypes : head'[t] = IF t = ty THEN Taken(list, n) ELSE head[t]
  BY <1>6 DEF IInv, Types
<1>10. SoundIn(ty, list)
  BY <1>1 DEF IInv, AllSound
<1>11. AllSound'
  <2>1. SoundIn(ty, Taken(list, n))
    BY <1>3, <1>4, <1>10, TakenSound
  <2>2. ASSUME NEW t \in PageTypes
        PROVE  SoundIn(t, head'[t])
    BY <1>9, <2>1 DEF IInv, AllSound
  <2>3. SoundChunk(c)
    <3>1. list[i].usable /\ Sound(ty, list[i])
      BY <1>4, <1>10, FirstFitFits DEF SoundIn
    <3>2. QED
      BY <1>5, <3>1 DEF Sound, SoundChunk
  <2>4. ASSUME NEW h \in held'
        PROVE  SoundChunk(h)
    BY <1>6, <2>3 DEF IInv, AllSound
  <2>5. QED
    BY <2>2, <2>4 DEF AllSound, SoundIn
<1>12. Separate'
  <2>1. SUFFICES ASSUME ~overflowed', ~undercut'
                 PROVE  /\ \A t \in PageTypes : OffersApart(t, head'[t])
                        /\ \A h \in held' : OffersClear(h.ty, head'[h.ty], h)
                        /\ \A g, h \in held' : g.ty = h.ty /\ g # h => Apart(g, h)
    BY DEF Separate, OffersApart, OffersClear, Cut, Offered
  <2>2. ~overflowed /\ ~undercut /\ c.size = n
    BY <1>5, <1>6, <2>1
  <2>3. /\ OffersApart(ty, list)
        /\ \A h \in held : h.ty = ty => OffersClear(ty, list, h)
        /\ \A g, h \in held : g.ty = h.ty /\ g # h => Apart(g, h)
    BY <1>1, <2>2 DEF IInv, Separate
  <2>4. /\ IsRange(c) /\ Inside(c, Cut(ty, list[i])) /\ IsRange(Cut(ty, list[i]))
        /\ OffersClear(ty, Taken(list, n), c)
    BY <1>3, <1>4, <1>5, <2>2, <2>3, ChunkTaken, CutRange
  <2>5. \A h \in held : IsRange(h) /\ h.ty \in PageTypes
    BY DEF IInv, Types, Chunks, IsRange
  <2>6. ASSUME NEW t \in PageTypes
        PROVE  OffersApart(t, head'[t])
    <3>1. CASE t = ty
      BY <1>3, <1>4, <1>9, <2>3, <3>1, TakenApart
    <3>2. CASE t # ty
      BY <1>9, <2>2, <3>2 DEF IInv, Separate
    <3>3. QED
      BY <3>1, <3>2
  <2>7. ASSUME NEW h \in held'
        PROVE  OffersClear(h.ty, head'[h.ty], h)
    <3>1. CASE h = c
      BY <1>5, <1>9, <2>4, <3>1
    <3>2. CASE h \in held /\ h.ty = ty
      <4>1. OffersClear(ty, list, h) /\ IsRange(h)
        BY <2>3, <2>5, <3>2
      <4>2. OffersClear(ty, Taken(list, n), h)
        BY <1>3, <1>4, <4>1, TakenClear
      <4>3. QED
        BY <1>9, <3>2, <4>2
    <3>3. CASE h \in held /\ h.ty # ty
      BY <1>9, <2>2, <2>5, <3>3 DEF IInv, Separate
    <3>4. QED
      BY <1>6, <3>1, <3>2, <3>3
  <2>8. ASSUME NEW h \in held, h.ty = ty
        PROVE  Apart(c, h) /\ Apart(h, c)
    <3>1. Apart(Cut(ty, list[i]), h) /\ IsRange(h)
      BY <2>3, <2>5, <2>8 DEF OffersClear
    <3>2. QED
      BY <2>4, <3>1, InsideApart
  <2>9. ASSUME NEW g \in held', NEW h \in held', g.ty = h.ty, g # h
        PROVE  Apart(g, h)
    <3>1. CASE g = c
      BY <1>5, <1>6, <2>8, <2>9, <3>1
    <3>2. CASE h = c
      BY <1>5, <1>6, <2>8, <2>9, <3>2
    <3>3. CASE g # c /\ h # c
      BY <1>6, <2>3, <2>9, <3>3
    <3>4. QED
      BY <3>1, <3>2, <3>3
  <2>10. QED
    BY <2>6, <2>7, <2>9
<1>13. QED
  BY <1>8, <1>11, <1>12 DEF IInv

(* What a free does to the list of a type: the bytes are merged with the   *)
(* first neighbour, become a region of their own or, without a kernel      *)
(* object, are lost with the list.                                         *)
FreesTo(list, new, addr, size) ==
  \/ Neighbours(list, addr, size) # {} /\ new = Grown(list, addr, size)
  \/ new = <<Returned(addr, size)>> \o list
  \/ new = <<>>

(* ... whose regions then start where regions may.                         *)
LEMMA FreedSound ==
  ASSUME NEW list \in Seq(Regions), NEW addr \in Nat, NEW size \in Nat \ {0},
         NEW new, FreesTo(list, new, addr, size), NEW ty, SoundIn(ty, list),
         StartsWhole(ty, addr), ty = PHYS_PAGES => addr # 0
  PROVE  new \in Seq(Regions) /\ SoundIn(ty, new)
<1>1. CASE Neighbours(list, addr, size) # {} /\ new = Grown(list, addr, size)
  BY <1>1, GrownPlaces, GrownSound
<1>2. CASE new = <<Returned(addr, size)>> \o list
  <2>1. PICK r \in Regions : r = Returned(addr, size)
    BY DEF Returned, Regions
  <2>2. Sound(ty, r)
    BY <2>1 DEF Sound, Returned
  <2>3. QED
    BY <1>2, <2>1, <2>2, PrependedPlaces, PrependedSound
<1>3. CASE new = <<>>
  <2>1. new \in Seq(Regions) /\ 1 .. Len(new) = {}
    BY <1>3
  <2>2. QED
    BY <2>1 DEF SoundIn
<1>4. QED
  BY <1>1, <1>2, <1>3 DEF FreesTo

(* Physical bytes that nothing on the list and nobody else has can be put  *)
(* on the list.                                                            *)
LEMMA FreedUp ==
  ASSUME NEW list \in Seq(Regions), NEW addr \in Nat, NEW size \in Nat \ {0},
         NEW new, FreesTo(list, new, addr, size), ApartIn(list),
         NEW r \in Regions, r = Returned(addr, size), Clear(list, r),
         NEW others, \A c \in others : IsRange(c) /\ Clear(list, c) /\ Apart(r, c)
  PROVE  OffersApart(PHYS_PAGES, new) /\ \A c \in others : OffersClear(PHYS_PAGES, new, c)
<1>1. r.addr = addr /\ r.size = size
  BY DEF Returned
<1>2. CASE Neighbours(list, addr, size) # {} /\ new = Grown(list, addr, size)
  <2>1. ASSUME NEW k \in 1 .. Len(list)
        PROVE  addr + size <= list[k].addr \/ list[k].addr + list[k].size <= addr
    <3>1. Apart(list[k], r) /\ list[k].size # 0
      BY RegionsAreRanges DEF Clear
    <3>2. QED
      BY <1>1, <3>1 DEF Apart
  <2>2. ApartIn(Grown(list, addr, size))
    BY <1>2, <2>1, GrownApart
  <2>3. ASSUME NEW c \in others
        PROVE  Clear(Grown(list, addr, size), c)
    <3>1. Clear(list, c) /\ IsRange(c) /\ Apart(r, c)
      OBVIOUS
    <3>2. c.size = 0 \/ addr + size <= c.addr \/ c.addr + c.size <= addr
      BY <1>1, <3>1 DEF Apart
    <3>3. QED
      BY <1>2, <3>1, <3>2, GrownClear
  <2>4. PICK g \in Seq(Regions) : g = new
    BY <1>2, GrownPlaces
  <2>5. ApartIn(g) /\ \A c \in others : Clear(g, c)
    BY <1>2, <2>2, <2>3, <2>4
  <2>6. QED
    BY <2>4, <2>5, CutPhysical
<1>3. CASE new = <<Returned(addr, size)>> \o list
  <2>1. /\ Cut(PHYS_PAGES, r).addr = r.addr /\ Cut(PHYS_PAGES, r).size = r.size
    BY DEF Cut, Offered
  <2>2. \A k \in 1 .. Len(list) : Apart(list[k], Cut(PHYS_PAGES, r))
    BY <2>1 DEF Clear, Apart
  <2>3. Clear(list, Cut(PHYS_PAGES, r))
    BY <2>2 DEF Clear
  <2>4. OffersApart(PHYS_PAGES, list) /\ OffersClear(PHYS_PAGES, list, Cut(PHYS_PAGES, r))
    BY <2>3, CutPhysical
  <2>5. OffersApart(PHYS_PAGES, <<r>> \o list)
    BY <2>4, PrependedApart
  <2>6. ASSUME NEW c \in others
        PROVE  OffersClear(PHYS_PAGES, <<r>> \o list, c)
    <3>1. OffersClear(PHYS_PAGES, list, c)
      BY CutPhysical
    <3>2. Apart(Cut(PHYS_PAGES, r), c)
      BY <2>1 DEF Apart
    <3>3. QED
      BY <3>1, <3>2, PrependedClear
  <2>7. QED
    BY <1>3, <2>5, <2>6
<1>4. CASE new = <<>>
  <2>1. 1 .. Len(new) = {}
    BY <1>4
  <2>2. QED
    BY <2>1 DEF OffersApart, OffersClear
<1>5. QED
  BY <1>2, <1>3, <1>4 DEF FreesTo

(* Less than a page of a buffer that stays in use can be put on the list.  *)
LEMMA FreedInUse ==
  ASSUME NEW list \in Seq(Regions), NEW addr \in Nat, NEW size \in Nat \ {0},
         size < PageSize, addr % PageSize = 0,
         NEW new, FreesTo(list, new, addr, size), SoundIn(KVIRT_PAGES, list),
         OffersApart(KVIRT_PAGES, list)
  PROVE  /\ OffersApart(KVIRT_PAGES, new)
         /\ \A c : OffersClear(KVIRT_PAGES, list, c) => OffersClear(KVIRT_PAGES, new, c)
<1>1. CASE Neighbours(list, addr, size) # {} /\ new = Grown(list, addr, size)
  <2>1. /\ Len(new) = Len(list)
        /\ \A k \in 1 .. Len(list) : Cut(KVIRT_PAGES, new[k]) = Cut(KVIRT_PAGES, list[k])
    BY <1>1, KeptGrown
  <2>2. OffersApart(KVIRT_PAGES, new)
    BY <2>1 DEF OffersApart
  <2>3. ASSUME NEW c, OffersClear(KVIRT_PAGES, list, c)
        PROVE  OffersClear(KVIRT_PAGES, new, c)
    BY <2>1, <2>3 DEF OffersClear
  <2>4. QED
    BY <2>2, <2>3
<1>2. CASE new = <<Returned(addr, size)>> \o list
  <2>1. PICK r \in Regions : r = Returned(addr, size)
    BY DEF Returned, Regions
  <2>2. Cut(KVIRT_PAGES, r).size = 0
    BY <2>1, KeptReturned
  <2>3. \A c : Apart(c, Cut(KVIRT_PAGES, r)) /\ Apart(Cut(KVIRT_PAGES, r), c)
    BY <2>2 DEF Apart
  <2>4. OffersClear(KVIRT_PAGES, list, Cut(KVIRT_PAGES, r))
    BY <2>3 DEF OffersClear
  <2>5. OffersApart(KVIRT_PAGES, <<r>> \o list)
    BY <2>4, PrependedApart
  <2>6. ASSUME NEW c, OffersClear(KVIRT_PAGES, list, c)
        PROVE  OffersClear(KVIRT_PAGES, <<r>> \o list, c)
    BY <2>3, <2>6, PrependedClear
  <2>7. QED
    BY <1>2, <2>1, <2>5, <2>6
<1>3. CASE new = <<>>
  <2>1. 1 .. Len(new) = {}
    BY <1>3
  <2>2. QED
    BY <2>1 DEF OffersApart, OffersClear
<1>4. QED
  BY <1>1, <1>2, <1>3 DEF FreesTo

(* free_pages keeps the invariant: who gives bytes up had them alone, and  *)
(* what is freed of a buffer in use is less than a page, or too much.      *)
LEMMA FreeKeeps ==
  ASSUME IInv, NEW b \in held, NEW size \in FreedSizes(b), free_pages(b, size)
  PROVE  IInv'
<1>1. b \in Chunks /\ b.ty \in PageTypes /\ b.addr \in Nat /\ b.size \in Nat
  BY DEF IInv, Types, Chunks
<1>2. PICK list \in Seq(Regions) : list = head[b.ty]
  BY <1>1 DEF IInv, Types
<1>3. size \in Nat \ {0} /\ (GivenUp(b) => size <= b.size)
  BY <1>1 DEF FreedSizes
<1>4. PICK r \in Regions : r = Returned(b.addr, size) /\ r.addr = b.addr /\ r.size = size
  <2>1. Returned(b.addr, size) \in Regions
    BY <1>1, <1>3 DEF Returned, Regions
  <2>2. Returned(b.addr, size).addr = b.addr /\ Returned(b.addr, size).size = size
    BY DEF Returned
  <2>3. QED
    BY <2>1, <2>2
<1>5. /\ held' = (IF GivenUp(b) THEN held \ {b} ELSE held) /\ overflowed' = overflowed
      /\ undercut' = (undercut \/ (~GivenUp(b) /\ size >= PageSize))
  BY DEF free_pages
<1>6. /\ SoundIn(b.ty, list) /\ StartsWhole(b.ty, b.addr)
      /\ b.ty = PHYS_PAGES => b.addr # 0
  BY <1>1, <1>2 DEF IInv, AllSound, SoundChunk
<1>7. \A h \in held : IsRange(h) /\ h.ty \in PageTypes
  BY DEF IInv, Types, Chunks, IsRange
<1>8. PICK new : /\ head' = [head EXCEPT ![b.ty] = new] /\ kobjs' \in Nat
                 /\ FreesTo(list, new, b.addr, size)
  <2>1. CASE /\ Neighbours(list, b.addr, size) # {}
             /\ head' = [head EXCEPT ![b.ty] = Grown(list, b.addr, size)]
             /\ UNCHANGED kobjs
    BY <2>1 DEF FreesTo, IInv, Types
  <2>2. CASE /\ kobjs > 0
             /\ head' = [head EXCEPT ![b.ty] = <<Returned(b.addr, size)>> \o list]
             /\ kobjs' = kobjs - 1
    <3>1. kobjs' \in Nat
      BY <2>2 DEF IInv, Types
    <3>2. QED
      BY <2>2, <3>1 DEF FreesTo
  <2>3. CASE head' = [head EXCEPT ![b.ty] = <<>>] /\ UNCHANGED kobjs
    BY <2>3 DEF FreesTo, IInv, Types
  <2>4. QED
    <3>1. [head EXCEPT ![b.ty] = <<Returned(b.addr, size)>> \o @]
            = [head EXCEPT ![b.ty] = <<Returned(b.addr, size)>> \o list]
      BY <1>2
    <3>2. QED
      BY <1>2, <2>1, <2>2, <2>3, <3>1 DEF free_pages, Returned
<1>9. new \in Seq(Regions) /\ SoundIn(b.ty, new)
  BY <1>1, <1>3, <1>6, <1>8, FreedSound
<1>10. Types'
  <2>1. held' \subseteq Chunks /\ undercut' \in BOOLEAN
    BY <1>5 DEF IInv, Types
  <2>2. QED
    BY <1>5, <1>8, <1>9, <2>1 DEF IInv, Types
<1>11. \A t \in PageTypes : head'[t] = IF t = b.ty THEN new ELSE head[t]
  BY <1>8 DEF IInv, Types
<1>12. AllSound'
  <2>1. ASSUME NEW t \in PageTypes
        PROVE  SoundIn(t, head'[t])
    BY <1>9, <1>11 DEF IInv, AllSound
  <2>2. ASSUME NEW h \in held'
        PROVE  SoundChunk(h)
    BY <1>5 DEF IInv, AllSound
  <2>3. QED
    BY <2>1, <2>2 DEF AllSound, SoundIn
<1>13. Separate'
  <2>1. SUFFICES ASSUME ~overflowed, ~undercut'
                 PROVE  /\ \A t \in PageTypes : OffersApart(t, head'[t])
                        /\ \A h \in held' : OffersClear(h.ty, head'[h.ty], h)
                        /\ \A g, h \in held' : g.ty = h.ty /\ g # h => Apart(g, h)
    BY <1>5 DEF Separate, OffersApart, OffersClear, Cut, Offered
  <2>2. /\ \A t \in PageTypes : OffersApart(t, head[t])
        /\ \A h \in held : OffersClear(h.ty, head[h.ty], h)
        /\ \A g, h \in held : g.ty = h.ty /\ g # h => Apart(g, h)
    BY <1>5, <2>1 DEF IInv, Separate
  <2>3. OffersApart(b.ty, new) /\ \A h \in held' : h.ty = b.ty => OffersClear(b.ty, new, h)
    <3>1. CASE GivenUp(b)
      <4>1. b.ty = PHYS_PAGES /\ held' = held \ {b} /\ size <= b.size
        BY <1>3, <1>5, <3>1 DEF GivenUp
      <4>2. ApartIn(list) /\ Clear(list, b)
        <5>1. OffersApart(PHYS_PAGES, list) /\ OffersClear(PHYS_PAGES, list, b)
          BY <1>1, <1>2, <2>2, <4>1
        <5>2. QED
          BY <5>1, CutPhysical
      <4>3. IsRange(b) /\ IsRange(r) /\ Inside(r, b)
        BY <1>1, <1>3, <1>4, <4>1 DEF IsRange, Inside
      <4>4. ASSUME NEW k \in 1 .. Len(list)
            PROVE  Apart(list[k], r)
        <5>1. Apart(list[k], b) /\ IsRange(list[k])
          BY <4>2, RegionsAreRanges DEF Clear
        <5>2. QED
          BY <4>3, <5>1, InsideApart
      <4>5. Clear(list, r)
        BY <4>4 DEF Clear
      <4>6. PICK others : others = {h \in held' : h.ty = b.ty}
        OBVIOUS
      <4>7. ASSUME NEW h \in others
            PROVE  IsRange(h) /\ Clear(list, h) /\ Apart(r, h)
        <5>1. h \in held /\ h # b /\ h.ty = PHYS_PAGES /\ head[h.ty] = list
          BY <1>2, <4>1, <4>6
        <5>2. OffersClear(PHYS_PAGES, list, h) /\ Apart(b, h) /\ IsRange(h)
          BY <1>7, <2>2, <4>1, <5>1
        <5>3. QED
          BY <4>3, <5>2, InsideApart, CutPhysical
      <4>8. OffersApart(PHYS_PAGES, new) /\ \A c \in others : OffersClear(PHYS_PAGES, new, c)
        BY <1>1, <1>3, <1>4, <1>8, <4>2, <4>5, <4>7, FreedUp
      <4>9. QED
        BY <4>1, <4>6, <4>8
    <3>2. CASE ~GivenUp(b)
      <4>1. b.ty = KVIRT_PAGES /\ held' = held /\ ~(size >= PageSize)
        BY <1>1, <1>5, <2>1, <3>2 DEF GivenUp, PageTypes
      <4>2. size < PageSize
        BY <1>3, <4>1, PageMgrAssumption DEF PageMgrAssumption
      <4>3. b.addr % PageSize = 0
        BY <1>6, <4>1 DEF StartsWhole, KVIRT_PAGES, PHYS_PAGES
      <4>4. OffersApart(KVIRT_PAGES, list) /\ SoundIn(KVIRT_PAGES, list)
        BY <1>1, <1>2, <1>6, <2>2, <4>1
      <4>5. /\ OffersApart(KVIRT_PAGES, new)
            /\ \A c : OffersClear(KVIRT_PAGES, list, c) => OffersClear(KVIRT_PAGES, new, c)
        BY <1>1, <1>3, <1>8, <4>2, <4>3, <4>4, FreedInUse
      <4>6. QED
        BY <1>2, <2>2, <4>1, <4>5
    <3>3. QED
      BY <3>1, <3>2
  <2>4. ASSUME NEW t \in PageTypes
        PROVE  OffersApart(t, head'[t])
    BY <1>11, <2>2, <2>3
  <2>5. ASSUME NEW h \in held'
        PROVE  OffersClear(h.ty, head'[h.ty], h)
    <3>1. h \in held /\ h.ty \in PageTypes
      BY <1>5, <1>7
    <3>2. CASE h.ty = b.ty
      BY <1>11, <2>3, <3>1, <3>2
    <3>3. CASE h.ty # b.ty
      BY <1>11, <2>2, <3>1, <3>3
    <3>4. QED
      BY <3>2, <3>3
  <2>6. \A g, h \in held' : g.ty = h.ty /\ g # h => Apart(g, h)
    BY <1>5, <2>2
  <2>7. QED
    BY <2>4, <2>5, <2>6
<1>14. QED
  BY <1>10, <1>12, <1>13 DEF IInv

(* Other users of kernel objects change only their number.                 *)
LEMMA OthersKeep ==
  ASSUME IInv, OtherObjects
  PROVE  IInv'
<1>1. /\ kobjs' \in Nat /\ head' = head /\ held' = held
      /\ overflowed' = overflowed /\ undercut' = undercut
  <2>1. PICK n : kobjs' \in 0 .. n
    BY DEF OtherObjects
  <2>2. QED
    BY <2>1 DEF OtherObjects
<1>2. Types' /\ AllSound' /\ Separate'
  BY <1>1 DEF IInv, Types, AllSound, Separate, SoundIn, SoundChunk, OffersApart, OffersClear
<1>3. QED
  BY <1>2 DEF IInv

(* Every step keeps the invariant.                                         *)
LEMMA NextInv == IInv /\ [Next]_vars => IInv'
<1> SUFFICES ASSUME IInv, [Next]_vars
             PROVE  IInv'
  OBVIOUS
<1>1. CASE \E sz \in Requests, ty \in PageTypes : alloc_pages(sz, ty)
  BY <1>1, AllocKeeps
<1>2. CASE \E h \in held : \E size \in FreedSizes(h) : free_pages(h, size)
  BY <1>2, FreeKeeps
<1>3. CASE OtherObjects
  BY <1>3, OthersKeep
<1>4. CASE UNCHANGED vars
  BY <1>4 DEF vars, IInv, Types, AllSound, Separate, SoundIn, SoundChunk, OffersApart, OffersClear
<1>5. QED
  BY <1>1, <1>2, <1>3, <1>4 DEF Next

(* The inductive invariant holds in every state the page manager reaches.  *)
THEOREM Invariant == Spec => []IInv
<1>1. Init => IInv
  BY InitInv
<1>2. IInv /\ [Next]_vars => IInv'
  BY NextInv
<1>3. QED
  BY <1>1, <1>2, PTL DEF Spec

(* What holds of every execution holds of those that are followed up to    *)
(* the first request that overflows.                                       *)
LEMMA Followed == SpecToOverflow => Spec
<1>1. [Next /\ (overflowed => OtherObjects)]_vars => [Next]_vars
  OBVIOUS
<1>2. QED
  BY <1>1, PTL DEF Spec, SpecToOverflow

(* Every chunk starts whole pages away from where usable memory started at *)
(* first, on a page boundary if the map's usable entries do, and no        *)
(* physical one at address 0: page_in masks a chunk's address and callers  *)
(* take 0 for a failure.  It holds for any memory map, also behind an      *)
(* overflow, and although free_pages is given odd numbers of bytes, some   *)
(* of buffers that stay in use.                                            *)
THEOREM ChunksSound == Spec => []AlignedNotNull
<1>1. IInv => AlignedNotNull
  BY DEF IInv, AllSound, SoundChunk, StartsWhole, AlignedNotNull
<1>2. QED
  BY <1>1, Invariant, PTL

(* As long as no request was cut down to an unsigned int and less than a   *)
(* page was freed at once of a buffer that stayed in use, no byte is on    *)
(* offer twice, in two chunks in use, or in use and on offer: not even     *)
(* although ports.c frees the first bytes of a buffer time and again.      *)
THEOREM NoSharing == Spec => []NoOverlap
<1>1. ASSUME IInv
      PROVE  NoOverlap
  <2>1. SUFFICES ASSUME ~overflowed, ~undercut, NEW ty \in PageTypes
                 PROVE  LET list == head[ty]
                            mine == {h \in held : h.ty = ty}
                        IN  /\ \A i, j \in DOMAIN list :
                                 i # j => OfferSpan(ty, list[i]) \cap OfferSpan(ty, list[j]) = {}
                            /\ \A g, h \in mine :
                                 g # h => RegionSpan(g) \cap RegionSpan(h) = {}
                            /\ \A i \in DOMAIN list, h \in mine :
                                 OfferSpan(ty, list[i]) \cap RegionSpan(h) = {}
    BY DEF NoOverlap
  <2>2. PICK list \in Seq(Regions) : list = head[ty]
    BY <1>1 DEF IInv, Types
  <2>3. DOMAIN list = 1 .. Len(list)
    OBVIOUS
  <2>4. \A h \in held : IsRange(h)
    BY <1>1 DEF IInv, Types, Chunks, IsRange
  <2>5. \A i \in 1 .. Len(list) :
           IsRange(Cut(ty, list[i])) /\ OfferSpan(ty, list[i]) = RegionSpan(Cut(ty, list[i]))
    BY CutRange DEF OfferSpan, RegionSpan, Cut
  <2>6. ASSUME NEW i \in 1 .. Len(list), NEW j \in 1 .. Len(list), i # j
        PROVE  OfferSpan(ty, list[i]) \cap OfferSpan(ty, list[j]) = {}
    <3>1. Apart(Cut(ty, list[i]), Cut(ty, list[j]))
      BY <1>1, <2>1, <2>2, <2>6 DEF IInv, Separate, OffersApart
    <3>2. QED
      BY <2>5, <3>1, ApartDisjoint
  <2>7. ASSUME NEW g \in held, NEW h \in held, g.ty = ty, h.ty = ty, g # h
        PROVE  RegionSpan(g) \cap RegionSpan(h) = {}
    <3>1. Apart(g, h)
      BY <1>1, <2>1, <2>7 DEF IInv, Separate
    <3>2. QED
      BY <2>4, <3>1, ApartDisjoint
  <2>8. ASSUME NEW i \in 1 .. Len(list), NEW h \in held, h.ty = ty
        PROVE  OfferSpan(ty, list[i]) \cap RegionSpan(h) = {}
    <3>1. Apart(Cut(ty, list[i]), h)
      BY <1>1, <2>1, <2>2, <2>8 DEF IInv, Separate, OffersClear
    <3>2. QED
      BY <2>4, <2>5, <3>1, ApartDisjoint
  <2>9. QED
    BY <2>2, <2>3, <2>6, <2>7, <2>8
<1>2. QED
  BY <1>1, Invariant, PTL

(***************************************************************************)
(* The pool of bytes on offer.                                             *)
(***************************************************************************)

(* A byte is in the span of a list if it is in that of one of its usable   *)
(* regions.                                                                *)
LEMMA OfferedBytes ==
  ASSUME NEW ty, NEW list \in Seq(Regions), NEW x
  PROVE  x \in UsableSpan(ty, list) <=>
           \E i \in 1 .. Len(list) : list[i].usable /\ x \in OfferSpan(ty, list[i])
<1>1. DOMAIN list = 1 .. Len(list)
  OBVIOUS
<1>2. QED
  BY <1>1 DEF UsableSpan

(* The bytes of physical memory that a list offers.                        *)
PhysSpan(list) == UsableSpan(PHYS_PAGES, list)

LEMMA UsableBytes ==
  ASSUME NEW list \in Seq(Regions), NEW x
  PROVE  x \in PhysSpan(list) <=>
           \E i \in 1 .. Len(list) : list[i].usable /\ x \in RegionSpan(list[i])
<1>1. \A r : OfferSpan(PHYS_PAGES, r) = RegionSpan(r)
  BY DEF OfferSpan, Offered, RegionSpan
<1>2. QED
  BY <1>1, OfferedBytes DEF PhysSpan

(* The bytes of a span, by their numbers.                                  *)
LEMMA SpanBytes ==
  ASSUME NEW a \in Nat, NEW n \in Nat, NEW x
  PROVE  x \in Span(a, n) <=> x \in Nat /\ a <= x /\ x < a + n
BY DEF Span

(* Every region left by a request came from one, and all but one that was  *)
(* used up left one.                                                       *)
LEMMA OriginsAll ==
  ASSUME NEW list \in Seq(Regions), NEW n \in Nat, Fits(list, n) # {},
         NEW m \in 1 .. Len(list), Exact(list, n) => m # FirstFit(list, n)
  PROVE  \E k \in 1 .. Len(Taken(list, n)) : Origin(list, n, k) = m
<1> DEFINE i == FirstFit(list, n)
<1>1. /\ i \in 1 .. Len(list) /\ Len(list) \in Nat
      /\ Len(Taken(list, n)) = IF Exact(list, n) THEN Len(list) - 1 ELSE Len(list)
  BY TakenPlaces
<1>2. CASE ~Exact(list, n)
  <2>1. m \in 1 .. Len(Taken(list, n)) /\ Origin(list, n, m) = m
    BY <1>1, <1>2 DEF Origin
  <2>2. QED
    BY <2>1
<1>3. CASE Exact(list, n) /\ m < i
  <2>1. m \in 1 .. Len(Taken(list, n)) /\ Origin(list, n, m) = m
    BY <1>1, <1>3 DEF Origin
  <2>2. QED
    BY <2>1
<1>4. CASE Exact(list, n) /\ m > i
  <2>1. m - 1 \in 1 .. Len(Taken(list, n)) /\ Origin(list, n, m - 1) = m
    BY <1>1, <1>4 DEF Origin
  <2>2. QED
    BY <2>1
<1>5. QED
  BY <1>1, <1>2, <1>3, <1>4

(* A request takes its bytes out of the pool and no others. *)
LEMMA TakenBytes ==
  ASSUME NEW list \in Seq(Regions), NEW n \in Nat, Fits(list, n) # {},
         n % PageSize = 0, NEW ty, OffersApart(ty, list)
  PROVE  /\ Span(list[FirstFit(list, n)].addr, n) \subseteq UsableSpan(ty, list)
         /\ UsableSpan(ty, Taken(list, n))
               = UsableSpan(ty, list) \ Span(list[FirstFit(list, n)].addr, n)
<1> DEFINE i == FirstFit(list, n)
<1>1. i \in 1 .. Len(list) /\ list[i].usable /\ list[i].size >= n
  BY FirstFitFits
<1>2. PICK r \in Regions : r = list[i]
  BY <1>1
<1>3. PICK a \in Nat, z \in Nat :
        a = r.addr /\ z = Offered(ty, r) /\ n <= z /\ z <= r.size /\ r.usable
        /\ OfferSpan(ty, r) = Span(a, z) /\ OfferSpan(ty, Rest(r, n)) = Span(a + n, z - n)
  <2>1. r.addr \in Nat /\ r.size \in Nat /\ n <= r.size
    BY <1>1, <1>2 DEF Regions
  <2>2. Offered(ty, r) \in Nat /\ Offered(ty, r) <= r.size
    BY CutRange DEF IsRange
  <2>3. /\ n <= Offered(ty, r) /\ Rest(r, n).addr = r.addr + n
        /\ Offered(ty, Rest(r, n)) = Offered(ty, r) - n
    BY <2>1, CutRest DEF Cut
  <2>4. QED
    BY <1>1, <1>2, <2>1, <2>2, <2>3 DEF OfferSpan
<1>4. PICK t \in Seq(Regions) : t = Taken(list, n)
  BY TakenPlaces
<1>5. \A x : x \in Span(a, z) => x \in UsableSpan(ty, list)
  BY <1>1, <1>2, <1>3, OfferedBytes
<1>6. Span(a, n) \subseteq Span(a, z)
  BY <1>3, SpanBytes, SMTT(20)
<1>7. ASSUME NEW x \in UsableSpan(ty, t)
      PROVE  x \in UsableSpan(ty, list) \ Span(a, n)
  <2>1. PICK k \in 1 .. Len(t) : t[k].usable /\ x \in OfferSpan(ty, t[k])
    BY OfferedBytes
  <2>2. PICK o \in 1 .. Len(list) :
          (o # i => t[k] = list[o]) /\ (o = i => t[k] = Rest(list[o], n))
    BY <1>4, TakenFrom
  <2>3. CASE o # i
    <3>1. t[k] = list[o]
      BY <2>2, <2>3
    <3>2. x \in OfferSpan(ty, list[o]) /\ x \in UsableSpan(ty, list)
      BY <2>1, <3>1, OfferedBytes
    <3>3. Apart(Cut(ty, list[o]), Cut(ty, r)) /\ IsRange(Cut(ty, list[o])) /\ IsRange(Cut(ty, r))
      BY <1>1, <1>2, <2>3, CutRange DEF OffersApart
    <3>4. RegionSpan(Cut(ty, list[o])) \cap RegionSpan(Cut(ty, r)) = {}
      BY <3>3, ApartDisjoint
    <3>5. OfferSpan(ty, list[o]) \cap Span(a, z) = {}
      BY <1>3, <3>4 DEF OfferSpan, RegionSpan, Cut
    <3>6. QED
      BY <1>6, <3>2, <3>5
  <2>4. CASE o = i
    <3>1. t[k] = Rest(r, n)
      BY <1>2, <2>2, <2>4
    <3>2. x \in Span(a + n, z - n)
      BY <1>3, <2>1, <3>1
    <3>3. a + n \in Nat /\ z - n \in Nat
      BY <1>3
    <3>4. x \in Nat /\ a + n <= x /\ x < a + n + (z - n)
      BY <3>2, <3>3, SpanBytes
    <3>5. a <= x /\ x < a + z /\ ~(x < a + n)
      <4>1. a + n + (z - n) = a + z
        OBVIOUS
      <4>2. QED
        BY <3>4, <4>1
    <3>6. x \in Span(a, z) /\ x \notin Span(a, n)
      BY <3>4, <3>5, SpanBytes
    <3>7. QED
      BY <1>5, <3>6
  <2>5. QED
    BY <2>3, <2>4
<1>8. ASSUME NEW x \in UsableSpan(ty, list), x \notin Span(a, n)
      PROVE  x \in UsableSpan(ty, t)
  <2>1. PICK m \in 1 .. Len(list) : list[m].usable /\ x \in OfferSpan(ty, list[m])
    BY OfferedBytes
  <2>2. Exact(list, n) => m # i
    <3>1. ASSUME Exact(list, n), m = i
          PROVE  FALSE
      <4>1. z = n
        BY <1>2, <1>3, <3>1 DEF Exact, Regions
      <4>2. QED
        BY <1>2, <1>3, <1>8, <2>1, <3>1, <4>1
    <3>2. QED
      BY <3>1
  <2>3. PICK k \in 1 .. Len(t) : Origin(list, n, k) = m
    BY <1>4, <2>2, OriginsAll
  <2>4. CASE m # i
    <3>1. t[k] = list[m]
      BY <1>4, <2>3, <2>4, TakenFrom
    <3>2. QED
      BY <2>1, <3>1, OfferedBytes
  <2>5. CASE m = i
    <3>1. t[k] = Rest(r, n)
      <4>1. t[k] = Rest(list[m], n)
        BY <1>4, <2>3, <2>5, TakenFrom
      <4>2. QED
        BY <1>2, <2>5, <4>1
    <3>2. x \in Span(a, z)
      BY <1>2, <1>3, <2>1, <2>5
    <3>3. a + n \in Nat /\ z - n \in Nat
      BY <1>3
    <3>4. x \in Nat /\ a <= x /\ x < a + z /\ ~(x < a + n)
      BY <1>8, <3>2, SpanBytes
    <3>5. a + n <= x /\ x < a + n + (z - n)
      BY <1>3, <3>4
    <3>6. x \in Span(a + n, z - n)
      BY <3>3, <3>4, <3>5, SpanBytes
    <3>7. t[k].usable /\ x \in OfferSpan(ty, t[k])
      BY <1>3, <3>1, <3>6 DEF Rest
    <3>8. QED
      BY <3>7, OfferedBytes
  <2>6. QED
    BY <2>4, <2>5
<1>9. QED
  BY <1>2, <1>3, <1>4, <1>5, <1>6, <1>7, <1>8

(* The bytes of a neighbour and of the chunk it is merged with.            *)
LEMMA MergedBytes ==
  ASSUME NEW r \in Regions, NEW addr \in Nat, NEW size \in Nat \ {0},
         r.addr + r.size = addr \/ addr + size = r.addr
  PROVE  RegionSpan(Merged(r, addr, size)) = RegionSpan(r) \cup Span(addr, size)
<1>1. r.addr \in Nat /\ r.size \in Nat \ {0}
  BY DEF Regions
<1> DEFINE a == IF r.addr + r.size = addr THEN r.addr ELSE addr
<1>2. RegionSpan(Merged(r, addr, size)) = Span(a, r.size + size) /\ a \in Nat
  BY <1>1 DEF RegionSpan, Merged
<1>3. ASSUME NEW x
      PROVE  x \in Span(a, r.size + size) <=> x \in Span(r.addr, r.size) \cup Span(addr, size)
  <2>1. /\ x \in Span(a, r.size + size) <=> x \in Nat /\ a <= x /\ x < a + (r.size + size)
        /\ x \in Span(r.addr, r.size) <=> x \in Nat /\ r.addr <= x /\ x < r.addr + r.size
        /\ x \in Span(addr, size) <=> x \in Nat /\ addr <= x /\ x < addr + size
    BY <1>1, <1>2, SpanBytes
  <2>2. CASE r.addr + r.size = addr
    BY <1>1, <2>1, <2>2
  <2>3. CASE r.addr + r.size # addr
    BY <1>1, <2>1, <2>3
  <2>4. QED
    BY <2>2, <2>3
<1>4. QED
  BY <1>2, <1>3 DEF RegionSpan

(* What is merged with a usable region is on offer again; what is merged   *)
(* with one that is not is lost.                                           *)
LEMMA GrownBytes ==
  ASSUME NEW list \in Seq(Regions), NEW addr \in Nat, NEW size \in Nat \ {0},
         Neighbours(list, addr, size) # {}
  PROVE  PhysSpan(Grown(list, addr, size))
           = PhysSpan(list) \cup (IF list[Min(Neighbours(list, addr, size))].usable
                                    THEN Span(addr, size) ELSE {})
<1> DEFINE j == Min(Neighbours(list, addr, size))
           back == IF list[j].usable THEN Span(addr, size) ELSE {}
<1>1. /\ j \in 1 .. Len(list)
      /\ list[j].addr + list[j].size = addr \/ addr + size = list[j].addr
  BY GrownPlaces
<1>2. PICK r \in Regions : r = list[j]
  BY <1>1
<1>3. PICK g \in Seq(Regions) : g = Grown(list, addr, size) /\ Len(g) = Len(list)
  BY GrownPlaces
<1>4. g[j] = Merged(r, addr, size) /\ \A k \in 1 .. Len(list) : k # j => g[k] = list[k]
  <2>1. \A k \in 1 .. Len(list) :
          Grown(list, addr, size)[k] = IF k = j THEN Merged(list[j], addr, size) ELSE list[k]
    BY GrownPlaces
  <2>2. QED
    BY <1>1, <1>2, <1>3, <2>1
<1>5. RegionSpan(Merged(r, addr, size)) = RegionSpan(r) \cup Span(addr, size)
  BY <1>1, <1>2, MergedBytes
<1>6. Merged(r, addr, size).usable = r.usable
  BY DEF Merged
<1>7. ASSUME NEW x
      PROVE  x \in PhysSpan(g) <=> x \in PhysSpan(list) \cup back
  <2>1. ASSUME x \in PhysSpan(g)
        PROVE  x \in PhysSpan(list) \cup back
    <3>1. PICK k \in 1 .. Len(list) : g[k].usable /\ x \in RegionSpan(g[k])
      BY <1>3, <2>1, UsableBytes
    <3>2. CASE k # j
      BY <1>4, <3>1, <3>2, UsableBytes
    <3>3. CASE k = j
      <4>1. r.usable /\ x \in RegionSpan(r) \cup Span(addr, size)
        BY <1>4, <1>5, <1>6, <3>1, <3>3
      <4>2. x \in RegionSpan(r) => x \in PhysSpan(list)
        BY <1>1, <1>2, <4>1, UsableBytes
      <4>3. QED
        BY <1>2, <4>1, <4>2
    <3>4. QED
      BY <3>2, <3>3
  <2>2. ASSUME x \in PhysSpan(list)
        PROVE  x \in PhysSpan(g)
    <3>1. PICK k \in 1 .. Len(list) : list[k].usable /\ x \in RegionSpan(list[k])
      BY <2>2, UsableBytes
    <3>2. g[k].usable /\ x \in RegionSpan(g[k])
      BY <1>2, <1>4, <1>5, <1>6, <3>1
    <3>3. QED
      BY <1>3, <3>2, UsableBytes
  <2>3. ASSUME x \in back
        PROVE  x \in PhysSpan(g)
    <3>1. r.usable /\ x \in Span(addr, size)
      BY <1>2, <2>3
    <3>2. g[j].usable /\ x \in RegionSpan(g[j])
      BY <1>4, <1>5, <1>6, <3>1
    <3>3. QED
      BY <1>1, <1>3, <3>2, UsableBytes
  <2>4. QED
    BY <2>1, <2>2, <2>3
<1>8. QED
  BY <1>3, <1>7

(* A new region adds its bytes to the list.                                *)
LEMMA PrependedBytes ==
  ASSUME NEW list \in Seq(Regions), NEW r \in Regions, r.usable
  PROVE  PhysSpan(<<r>> \o list) = PhysSpan(list) \cup RegionSpan(r)
<1>1. PICK s \in Seq(Regions) : s = <<r>> \o list
  BY PrependedPlaces
<1>2. /\ Len(list) \in Nat /\ Len(s) = Len(list) + 1
      /\ \A k \in 1 .. Len(list) + 1 : s[k] = IF k = 1 THEN r ELSE list[k - 1]
  BY <1>1, PrependedPlaces
<1>3. ASSUME NEW x \in PhysSpan(s)
      PROVE  x \in PhysSpan(list) \cup RegionSpan(r)
  <2>1. PICK k \in 1 .. Len(s) : s[k].usable /\ x \in RegionSpan(s[k])
    BY UsableBytes
  <2>2. CASE k = 1
    BY <1>2, <2>1, <2>2
  <2>3. CASE k # 1
    <3>1. s[k] = list[k - 1] /\ k - 1 \in 1 .. Len(list)
      BY <1>2, <2>3
    <3>2. QED
      BY <2>1, <3>1, UsableBytes
  <2>4. QED
    BY <2>2, <2>3
<1>4. ASSUME NEW x \in PhysSpan(list)
      PROVE  x \in PhysSpan(s)
  <2>1. PICK k \in 1 .. Len(list) : list[k].usable /\ x \in RegionSpan(list[k])
    BY UsableBytes
  <2>2. k + 1 \in 1 .. Len(s) /\ s[k + 1] = list[k]
    BY <1>2
  <2>3. QED
    BY <2>1, <2>2, UsableBytes
<1>5. ASSUME NEW x \in RegionSpan(r)
      PROVE  x \in PhysSpan(s)
  <2>1. 1 \in 1 .. Len(s) /\ s[1] = r
    BY <1>2
  <2>2. QED
    BY <1>5, <2>1, UsableBytes
<1>6. QED
  BY <1>1, <1>3, <1>4, <1>5

(* Less than a page of a buffer that stays in use adds nothing.            *)
LEMMA KeptBytes ==
  ASSUME NEW list \in Seq(Regions), NEW addr \in Nat, NEW size \in Nat \ {0},
         size < PageSize, addr % PageSize = 0, NEW new,
         \/ Neighbours(list, addr, size) # {} /\ new = Grown(list, addr, size)
         \/ new = <<Returned(addr, size)>> \o list,
         SoundIn(KVIRT_PAGES, list)
  PROVE  UsableSpan(KVIRT_PAGES, new) = UsableSpan(KVIRT_PAGES, list)
<1>1. \A q, r : Cut(KVIRT_PAGES, q) = Cut(KVIRT_PAGES, r)
                => OfferSpan(KVIRT_PAGES, q) = OfferSpan(KVIRT_PAGES, r)
  <2>1. \A r : OfferSpan(KVIRT_PAGES, r)
               = Span(Cut(KVIRT_PAGES, r).addr, Cut(KVIRT_PAGES, r).size)
    BY DEF OfferSpan, Cut
  <2>2. QED
    BY <2>1
<1>2. CASE Neighbours(list, addr, size) # {} /\ new = Grown(list, addr, size)
  <2>1. PICK g \in Seq(Regions) : g = new /\ Len(g) = Len(list)
    BY <1>2, GrownPlaces
  <2>2. \A k \in 1 .. Len(list) :
           /\ OfferSpan(KVIRT_PAGES, g[k]) = OfferSpan(KVIRT_PAGES, list[k])
           /\ g[k].usable = list[k].usable
    BY <1>1, <1>2, <2>1, KeptGrown
  <2>3. \A x : x \in UsableSpan(KVIRT_PAGES, g) <=> x \in UsableSpan(KVIRT_PAGES, list)
    BY <2>1, <2>2, OfferedBytes
  <2>4. QED
    BY <2>1, <2>3
<1>3. CASE new = <<Returned(addr, size)>> \o list
  <2>1. PICK r \in Regions : r = Returned(addr, size)
    BY DEF Returned, Regions
  <2>2. OfferSpan(KVIRT_PAGES, r) = {}
    <3>1. Offered(KVIRT_PAGES, r) = 0 /\ r.addr \in Nat
      BY <2>1, KeptReturned DEF Cut, Regions
    <3>2. QED
      BY <3>1, SpanBytes DEF OfferSpan
  <2>3. PICK s \in Seq(Regions) : s = new
    BY <1>3, <2>1, PrependedPlaces
  <2>4. /\ Len(list) \in Nat /\ Len(s) = Len(list) + 1
        /\ \A k \in 1 .. Len(list) + 1 : s[k] = IF k = 1 THEN r ELSE list[k - 1]
    BY <1>3, <2>1, <2>3, PrependedPlaces
  <2>5. ASSUME NEW x \in UsableSpan(KVIRT_PAGES, s)
        PROVE  x \in UsableSpan(KVIRT_PAGES, list)
    <3>1. PICK k \in 1 .. Len(s) : s[k].usable /\ x \in OfferSpan(KVIRT_PAGES, s[k])
      BY OfferedBytes
    <3>2. k # 1
      BY <2>2, <2>4, <3>1
    <3>3. k - 1 \in 1 .. Len(list) /\ s[k] = list[k - 1]
      BY <2>4, <3>2
    <3>4. QED
      BY <3>1, <3>3, OfferedBytes
  <2>6. ASSUME NEW x \in UsableSpan(KVIRT_PAGES, list)
        PROVE  x \in UsableSpan(KVIRT_PAGES, s)
    <3>1. PICK k \in 1 .. Len(list) : list[k].usable /\ x \in OfferSpan(KVIRT_PAGES, list[k])
      BY OfferedBytes
    <3>2. k + 1 \in 1 .. Len(s) /\ s[k + 1] = list[k]
      BY <2>4
    <3>3. QED
      BY <3>1, <3>2, OfferedBytes
  <2>7. QED
    BY <2>3, <2>5, <2>6
<1>4. QED
  BY <1>2, <1>3

(* The lists start as the pool of the usable bytes of the map.             *)
LEMMA InitIsPool == Init => Pool!Init
<1> SUFFICES ASSUME Init
             PROVE  Pool!Init
  OBVIOUS
<1> DEFINE N == Len(MemoryMap)
<1>1. PICK list \in Seq(Regions) : list = Listed[N]
  BY ListedApart
<1>2. {list[i] : i \in 1 .. Len(list)} = Kept(N)
  BY <1>1, ListedApart
<1>3. PICK one \in Seq(Regions) :
        one = <<KernelSpace>> /\ Len(one) = 1 /\ one[1] = KernelSpace
  <2>1. PICK k \in Regions : k = KernelSpace
    BY PageMgrAssumption DEF PageMgrAssumption
  <2>2. <<k>> \in Seq(Regions) /\ Len(<<k>>) = 1 /\ <<k>>[1] = k
    OBVIOUS
  <2>3. QED
    BY <2>1, <2>2
<1>4. head = [ty \in PageTypes |-> IF ty = PHYS_PAGES THEN list ELSE one] /\ held = {}
  BY <1>1, <1>3 DEF Init
<1>5. DOMAIN MemoryMap = 1 .. N
  BY PageMgrAssumption DEF PageMgrAssumption
<1>6. ASSUME NEW x
      PROVE  x \in PhysSpan(list) <=> x \in InitialUsable[PHYS_PAGES]
  <2>1. InitialUsable[PHYS_PAGES]
          = UNION {RegionSpan(MemoryMap[i]) :
                     i \in {j \in DOMAIN MemoryMap :
                              MemoryMap[j].usable /\ MemoryMap[j].addr # 0}}
    BY DEF InitialUsable, PageTypes, UsableEntries, OfferSpan, Offered, RegionSpan
  <2>2. ASSUME x \in PhysSpan(list)
        PROVE  x \in InitialUsable[PHYS_PAGES]
    <3>1. PICK i \in 1 .. Len(list) : list[i].usable /\ x \in RegionSpan(list[i])
      BY <2>2, UsableBytes
    <3>2. list[i] \in Kept(N)
      BY <1>2
    <3>3. PICK j \in 1 .. N : MemoryMap[j].addr # 0 /\ list[i] = MemoryMap[j]
      BY <3>2 DEF Kept
    <3>4. QED
      BY <1>5, <2>1, <3>1, <3>3
  <2>3. ASSUME x \in InitialUsable[PHYS_PAGES]
        PROVE  x \in PhysSpan(list)
    <3>1. PICK j \in 1 .. N : /\ MemoryMap[j].usable /\ MemoryMap[j].addr # 0
                              /\ x \in RegionSpan(MemoryMap[j])
      BY <1>5, <2>1, <2>3
    <3>2. MemoryMap[j] \in Kept(N)
      BY <3>1 DEF Kept
    <3>3. PICK i \in 1 .. Len(list) : MemoryMap[j] = list[i]
      BY <1>2, <3>2
    <3>4. QED
      BY <3>1, <3>3, UsableBytes
  <2>4. QED
    BY <2>2, <2>3
<1>7. ASSUME NEW x
      PROVE  x \in UsableSpan(KVIRT_PAGES, one) <=> x \in OfferSpan(KVIRT_PAGES, KernelSpace)
  <2>1. KernelSpace.usable
    BY PageMgrAssumption DEF PageMgrAssumption
  <2>2. \A i : i \in 1 .. Len(one) <=> i = 1
    BY <1>3
  <2>3. QED
    BY <1>3, <2>1, <2>2, OfferedBytes
<1>8. ASSUME NEW ty \in PageTypes
      PROVE  UsableSpan(ty, head[ty]) = InitialUsable[ty]
  <2>1. CASE ty = PHYS_PAGES
    <3>1. head[ty] = list
      BY <1>4, <2>1
    <3>2. PhysSpan(list) = InitialUsable[PHYS_PAGES]
      <4> DEFINE A == PhysSpan(list)
                 B == InitialUsable[PHYS_PAGES]
      <4>1. \A x : x \in A <=> x \in B
        BY <1>6
      <4> HIDE DEF A, B
      <4>2. A = B
        BY <4>1
      <4>3. QED
        BY <4>2 DEF A, B
    <3>3. QED
      BY <2>1, <3>1, <3>2 DEF PhysSpan
  <2>2. CASE ty # PHYS_PAGES
    <3>1. head[ty] = one /\ ty = KVIRT_PAGES
      BY <1>4, <2>2 DEF PageTypes
    <3>2. InitialUsable[ty] = OfferSpan(KVIRT_PAGES, KernelSpace)
      BY <2>2, <3>1 DEF InitialUsable
    <3>3. UsableSpan(KVIRT_PAGES, one) = OfferSpan(KVIRT_PAGES, KernelSpace)
      <4> DEFINE A == UsableSpan(KVIRT_PAGES, one)
                 B == OfferSpan(KVIRT_PAGES, KernelSpace)
      <4>1. \A x : x \in A <=> x \in B
        BY <1>7
      <4> HIDE DEF A, B
      <4>2. A = B
        BY <4>1
      <4>3. QED
        BY <4>2 DEF A, B
    <3>4. QED
      BY <3>1, <3>2, <3>3
  <2>3. QED
    BY <2>1, <2>2
<1>9. [ty \in PageTypes |-> UsableSpan(ty, head[ty])] = InitialUsable
  <2>1. InitialUsable = [ty \in PageTypes |-> InitialUsable[ty]]
    BY DEF InitialUsable
  <2>2. QED
    BY <1>8, <2>1
<1>10. QED
  BY <1>4, <1>9 DEF Pool!Init

(* alloc_pages takes one range from the pool, or fails; a request for no   *)
(* page takes nothing.                                                     *)
LEMMA AllocIsPool ==
  ASSUME IInv, NEW sz \in Requests, NEW ty \in PageTypes, alloc_pages(sz, ty),
         ~overflowed', ~undercut'
  PROVE  Pool!Next
<1> DEFINE P == [t \in PageTypes |-> UsableSpan(t, head[t])]
           Q == [t \in PageTypes |-> UsableSpan(t, head'[t])]
<1>1. PICK list \in Seq(Regions) : list = head[ty]
  BY DEF IInv, Types
<1>2. sz \in Nat
  BY PageMgrAssumption DEF PageMgrAssumption
<1>3. PICK n \in Nat : n = InBytes(sz) /\ n % PageSize = 0
  BY <1>2, WholePages
<1>4. n = sz * PageSize /\ ~overflowed /\ ~undercut
  BY <1>3 DEF alloc_pages
<1>5. Fits(list, n) # {} /\ OffersApart(ty, list)
  BY <1>1, <1>3, <1>4 DEF alloc_pages, IInv, Separate
<1>6. PICK a \in Nat : a = list[FirstFit(list, n)].addr
  BY <1>5, FirstFitFits, RegionsAreRanges
<1>7. /\ Span(a, n) \subseteq UsableSpan(ty, list)
      /\ UsableSpan(ty, Taken(list, n)) = UsableSpan(ty, list) \ Span(a, n)
  BY <1>3, <1>5, <1>6, TakenBytes
<1>8. \A t \in PageTypes : head'[t] = IF t = ty THEN Taken(list, n) ELSE head[t]
  BY <1>1, <1>3 DEF alloc_pages, IInv, Types
<1>9. Q = [P EXCEPT ![ty] = @ \ Span(a, n)]
  BY <1>1, <1>7, <1>8
<1>10. P[ty] = UsableSpan(ty, list)
  BY <1>1
<1>11. held' = held \cup {[ty |-> ty, addr |-> a, size |-> sz * PageSize]}
  BY <1>1, <1>3, <1>6 DEF alloc_pages
<1>12. Pool!Span(a, sz * PageSize) = Span(a, n)
  BY <1>4 DEF Pool!Span, Span
<1>13. CASE n # 0
  <2>1. a \in Span(a, n)
    <3>1. a \in Nat /\ a <= a /\ a < a + n
      BY <1>13
    <3>2. QED
      BY <3>1, SpanBytes
  <2>2. a \in P[ty]
    BY <1>7, <1>10, <2>1
  <2>3. Pool!Alloc(sz, ty)
    BY <1>7, <1>9, <1>10, <1>11, <1>12, <2>2 DEF Pool!Alloc
  <2>4. QED
    BY <2>3 DEF Pool!Next
<1>14. CASE n = 0
  <2>1. Span(a, n) = {}
    BY <1>6, <1>14, SpanBytes
  <2>2. Q = P
    <3>1. \A t \in PageTypes : Q[t] = P[t]
      <4>1. SUFFICES ASSUME NEW t \in PageTypes
                     PROVE  UsableSpan(t, head'[t]) = UsableSpan(t, head[t])
        OBVIOUS
      <4>2. UsableSpan(ty, Taken(list, n)) = UsableSpan(ty, list)
        BY <1>7, <2>1
      <4>3. QED
        BY <1>1, <1>8, <4>2
    <3>2. QED
      BY <3>1
  <2>3. PICK h : h = [ty |-> ty, addr |-> a, size |-> sz * PageSize] /\ h.size = 0
    <3>1. PICK z : z = sz * PageSize /\ z = 0
      BY <1>4, <1>14
    <3>2. [ty |-> ty, addr |-> a, size |-> z].size = 0
      BY <3>1
    <3>3. QED
      BY <3>1, <3>2
  <2>4. h \in held' /\ held' = held \cup {h}
    BY <1>11, <2>3
  <2>5. Pool!AllocNothing
    BY <2>2, <2>3, <2>4 DEF Pool!AllocNothing
  <2>6. QED
    BY <2>5 DEF Pool!Next
<1>15. QED
  BY <1>13, <1>14

(* free_pages gives one range back, loses it for want of an object, or,    *)
(* of a buffer that stays in use, changes nothing of what is offered.      *)
LEMMA FreeIsPool ==
  ASSUME IInv, NEW b \in held, NEW size \in FreedSizes(b), free_pages(b, size),
         ~overflowed', ~undercut'
  PROVE  Pool!Next \/ UNCHANGED Pool!vars
<1> DEFINE P == [t \in PageTypes |-> UsableSpan(t, head[t])]
           Q == [t \in PageTypes |-> UsableSpan(t, head'[t])]
<1>1. b.ty \in PageTypes /\ b.addr \in Nat /\ b.size \in Nat
  BY DEF IInv, Types, Chunks
<1>2. PICK list \in Seq(Regions) : list = head[b.ty]
  BY <1>1 DEF IInv, Types
<1>3. size \in Nat \ {0} /\ (GivenUp(b) => size <= b.size)
  BY <1>1 DEF FreedSizes
<1>4. held' = IF GivenUp(b) THEN held \ {b} ELSE held
  BY DEF free_pages
<1>5. ASSUME head' = [head EXCEPT ![b.ty] = <<>>]
      PROVE  Pool!Next
  <2>1. \A t \in PageTypes : head'[t] = IF t = b.ty THEN <<>> ELSE head[t]
    BY <1>5 DEF IInv, Types
  <2>2. \A t : UsableSpan(t, <<>>) = {}
    BY DEF UsableSpan
  <2>3. Q = [P EXCEPT ![b.ty] = {}]
    BY <2>1, <2>2
  <2>4. Pool!Lose(b.ty)
    BY <1>4, <2>3 DEF Pool!Lose
  <2>5. QED
    BY <1>1, <2>4 DEF Pool!Next
<1>6. CASE GivenUp(b)
  <2>1. b.ty = PHYS_PAGES /\ size <= b.size /\ held' = held \ {b}
    BY <1>3, <1>4, <1>6 DEF GivenUp
  <2>2. ASSUME NEW new, NEW back, back \subseteq Span(b.addr, size),
               PhysSpan(new) = PhysSpan(list) \cup back,
               head' = [head EXCEPT ![b.ty] = new]
        PROVE  Pool!Next
    <3>1. \A t \in PageTypes : head'[t] = IF t = b.ty THEN new ELSE head[t]
      BY <2>2 DEF IInv, Types
    <3>2. Q = [P EXCEPT ![b.ty] = @ \cup back]
      <4>1. P[b.ty] = PhysSpan(list)
        BY <1>1, <1>2, <2>1 DEF PhysSpan
      <4>2. ASSUME NEW t \in PageTypes
            PROVE  Q[t] = IF t = b.ty THEN P[t] \cup back ELSE P[t]
        <5>1. CASE t = b.ty
          <6>1. Q[t] = PhysSpan(head'[t]) /\ head'[t] = new
            BY <2>1, <3>1, <5>1 DEF PhysSpan
          <6>2. QED
            BY <2>2, <4>1, <5>1, <6>1
        <5>2. CASE t # b.ty
          <6>1. head'[t] = head[t]
            BY <3>1, <5>2
          <6>2. QED
            BY <5>2, <6>1
        <5>3. QED
          BY <5>1, <5>2
      <4>3. QED
        BY <4>1, <4>2
    <3>3. Pool!Span(b.addr, b.size) = Span(b.addr, b.size)
      BY DEF Pool!Span, Span
    <3>4. ASSUME NEW x \in back
          PROVE  x \in Span(b.addr, b.size)
      <4>1. PICK a \in Nat, z \in Nat : a = b.addr /\ z = b.size /\ size <= z
        BY <1>1, <2>1
      <4>2. x \in Nat /\ a <= x /\ x < a + size
        BY <1>3, <2>2, <4>1, SpanBytes
      <4>3. x < a + z
        BY <1>3, <4>1, <4>2
      <4>4. QED
        BY <4>1, <4>2, <4>3, SpanBytes
    <3>5. back \in SUBSET Pool!Span(b.addr, b.size)
      BY <3>3, <3>4
    <3>6. \E more \in SUBSET Pool!Span(b.addr, b.size) : Q = [P EXCEPT ![b.ty] = @ \cup more]
      BY <3>2, <3>5
    <3>7. Pool!Free(b)
      BY <2>1, <3>6 DEF Pool!Free
    <3>8. QED
      BY <3>7 DEF Pool!Next
  <2>3. CASE /\ Neighbours(list, b.addr, size) # {}
             /\ head' = [head EXCEPT ![b.ty] = Grown(list, b.addr, size)]
    <3> DEFINE u == list[Min(Neighbours(list, b.addr, size))].usable
               back == IF u THEN Span(b.addr, size) ELSE {}
    <3>1. PhysSpan(Grown(list, b.addr, size)) = PhysSpan(list) \cup back
      BY <1>1, <1>3, <2>3, GrownBytes
    <3>2. back \subseteq Span(b.addr, size)
      OBVIOUS
    <3> HIDE DEF back
    <3>3. QED
      BY <2>2, <2>3, <3>1, <3>2
  <2>4. CASE head' = [head EXCEPT ![b.ty] = <<Returned(b.addr, size)>> \o list]
    <3>1. PICK r \in Regions : r = Returned(b.addr, size)
      BY <1>1, <1>3 DEF Returned, Regions
    <3>2. r.usable /\ RegionSpan(r) = Span(b.addr, size)
      BY <3>1 DEF Returned, RegionSpan
    <3>3. PhysSpan(<<r>> \o list) = PhysSpan(list) \cup Span(b.addr, size)
      BY <3>2, PrependedBytes
    <3>4. QED
      BY <2>2, <2>4, <3>1, <3>3
  <2>5. QED
    BY <1>2, <1>5, <2>3, <2>4 DEF free_pages, Returned
<1>7. CASE ~GivenUp(b)
  <2>1. b.ty = KVIRT_PAGES /\ held' = held /\ ~(size >= PageSize)
    BY <1>1, <1>4, <1>7 DEF GivenUp, PageTypes, free_pages
  <2>2. size < PageSize
    BY <1>3, <2>1, PageMgrAssumption DEF PageMgrAssumption
  <2>3. SoundIn(KVIRT_PAGES, list) /\ b.addr % PageSize = 0
    BY <1>1, <1>2, <2>1
       DEF IInv, AllSound, SoundChunk, StartsWhole, KVIRT_PAGES, PHYS_PAGES
  <2>4. ASSUME NEW new, head' = [head EXCEPT ![b.ty] = new],
               \/ Neighbours(list, b.addr, size) # {} /\ new = Grown(list, b.addr, size)
               \/ new = <<Returned(b.addr, size)>> \o list
        PROVE  UNCHANGED Pool!vars
    <3>1. UsableSpan(KVIRT_PAGES, new) = UsableSpan(KVIRT_PAGES, list)
      BY <1>1, <1>3, <2>2, <2>3, <2>4, KeptBytes
    <3>2. \A t \in PageTypes : head'[t] = IF t = b.ty THEN new ELSE head[t]
      BY <2>4 DEF IInv, Types
    <3>3. ASSUME NEW t \in PageTypes
          PROVE  UsableSpan(t, head'[t]) = UsableSpan(t, head[t])
      BY <1>2, <2>1, <3>1, <3>2
    <3>4. Q = P
      BY <3>3
    <3>5. QED
      BY <2>1, <3>4 DEF Pool!vars
  <2>5. CASE /\ Neighbours(list, b.addr, size) # {}
             /\ head' = [head EXCEPT ![b.ty] = Grown(list, b.addr, size)]
    BY <2>4, <2>5
  <2>6. CASE head' = [head EXCEPT ![b.ty] = <<Returned(b.addr, size)>> \o list]
    BY <2>4, <2>6
  <2>7. QED
    BY <1>2, <1>5, <2>5, <2>6 DEF free_pages, Returned
<1>8. QED
  BY <1>6, <1>7

(* The lists implement the abstract pool: a chunk handed out is usable     *)
(* memory that was on offer and is not any more, and nothing comes back    *)
(* on offer that its holder did not give up, up to the first request that  *)
(* is cut down to an unsigned int and the first page that is freed at once *)
(* of a buffer in use.                                                     *)
THEOREM ListsArePool == Spec => ImplementsPool
<1>1. Init => Pool!Init
  BY InitIsPool
<1>2. IInv /\ [Next]_vars => [Pool!Next \/ overflowed' \/ undercut']_(Pool!vars)
  <2> SUFFICES ASSUME IInv, [Next]_vars, ~overflowed', ~undercut'
               PROVE  Pool!Next \/ UNCHANGED Pool!vars
    OBVIOUS
  <2>1. CASE \E sz \in Requests, ty \in PageTypes : alloc_pages(sz, ty)
    BY <2>1, AllocIsPool
  <2>2. CASE \E h \in held : \E size \in FreedSizes(h) : free_pages(h, size)
    BY <2>2, FreeIsPool
  <2>3. CASE OtherObjects
    BY <2>3 DEF OtherObjects, Pool!vars
  <2>4. CASE UNCHANGED vars
    BY <2>4 DEF vars, Pool!vars
  <2>5. QED
    BY <2>1, <2>2, <2>3, <2>4 DEF Next
<1>3. QED
  BY <1>1, <1>2, Invariant, PTL DEF Spec, ImplementsPool
=============================================================================
