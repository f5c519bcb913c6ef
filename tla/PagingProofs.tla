---------------------------- MODULE PagingProofs ----------------------------
(***************************************************************************)
(* Theorems about page tables and workspaces: a program's pages are its    *)
(* own, no frame has two uses, the kernel's half of the tree stays.        *)
(*                                                                         *)
(* The argument is about the tree.  Two pages that agree in their leading  *)
(* indexes share the tables of those levels, and no frame is a table twice *)
(* (TreeOk): so an entry that is written concerns one page, a table that   *)
(* is linked in concerns the pages that had none, and the window, whose    *)
(* entry is in a table of the tree itself, no other page.  From there the  *)
(* handlers are followed one by one.  Memory, the trees and the workspaces *)
(* are of any size; Levels, Entries and Frames are any numbers that        *)
(* PagingAssumption allows.                                                *)
(***************************************************************************)
EXTENDS Paging, FiniteSetTheorems, WellFoundedInduction, SequenceTheorems, TLAPS

(***************************************************************************)
(* Numbers.                                                                *)
(***************************************************************************)

(* A set of numbers has a least one.  The initial segments below its       *)
(* members are finite sets, which strict inclusion orders well: this is    *)
(* where every induction below comes from.                                 *)
LEMMA LeastNumber ==
  ASSUME NEW T \in SUBSET Nat, T # {}
  PROVE  \E x \in T : \A y \in T : x <= y
<1> DEFINE TT == {0 .. n : n \in T}
<1>1. TT \subseteq FiniteSubsetsOf(Nat) /\ TT # {}
  <2>1. \A n \in T : IsFiniteSet(0 .. n)
    BY FS_Interval
  <2>2. TT \subseteq FiniteSubsetsOf(Nat)
    BY <2>1 DEF FiniteSubsetsOf
  <2>3. TT # {}
    OBVIOUS
  <2>4. QED
    BY <2>2, <2>3
<1> HIDE DEF TT
<1>2. PICK x \in TT : \A y \in TT : <<y, x>> \notin StrictSubsetOrdering(Nat)
  <2>1. IsWellFoundedOn(StrictSubsetOrdering(Nat), FiniteSubsetsOf(Nat))
    BY FS_StrictSubsetOrderingWellFounded
  <2>2. QED
    BY <1>1, <2>1, WFMin, Zenon
<1>3. PICK n \in T : x = 0 .. n
  BY DEF TT
<1>4. ASSUME NEW m \in T, m < n
      PROVE  FALSE
  <2>1. 0 .. m \in TT
    BY DEF TT
  <2>2. /\ 0 .. m \in SUBSET Nat /\ 0 .. n \in SUBSET Nat
        /\ 0 .. m \subseteq 0 .. n
    BY <1>4
  <2>3. n \in 0 .. n /\ n \notin 0 .. m
    BY <1>4
  <2>4. <<0 .. m, 0 .. n>> \in StrictSubsetOrdering(Nat)
    BY <2>2, <2>3, Zenon DEF StrictSubsetOrdering
  <2>5. QED
    BY <1>2, <1>3, <2>1, <2>4
<1>5. QED
  BY <1>4

(* Induction: what holds of 0 and of each next number holds of all.        *)
LEMMA Upwards ==
  ASSUME NEW N \in Nat, NEW G, 0 \in G, \A m \in 1 .. N : m - 1 \in G => m \in G
  PROVE  \A m \in 0 .. N : m \in G
<1> DEFINE T == {m \in 0 .. N : m \notin G}
<1>1. CASE T = {}
  BY <1>1
<1>2. CASE T # {}
  <2>1. T \in SUBSET Nat
    OBVIOUS
  <2>2. PICK m \in T : \A k \in T : m <= k
    BY <1>2, <2>1, LeastNumber
  <2>3. m \in 1 .. N /\ m - 1 \in 0 .. N /\ ~(m <= m - 1)
    BY <2>2
  <2>4. m - 1 \in G
    BY <2>2, <2>3
  <2>5. QED
    BY <2>2, <2>3, <2>4
<1>3. QED
  BY <1>1, <1>2

(* The numbers of pages under a table.                                     *)
LEMMA ReachIs ==
  /\ Reach[0] = 1
  /\ \A l \in 1 .. Levels : Reach[l] = Entries * Reach[l - 1]
<1> DEFINE Step(g, l) == IF l = 0 THEN 1 ELSE Entries * g[l - 1]
<1> DEFINE G == {m \in 0 .. Levels : \E g : g = [l \in 0 .. m |-> Step(g, l)]}
<1>0. Levels \in Nat
  BY PagingAssumption
<1>1. 0 \in G
  <2> DEFINE g == [l \in 0 .. 0 |-> 1]
  <2>1. \A l \in 0 .. 0 : l = 0
    OBVIOUS
  <2>2. g = [l \in 0 .. 0 |-> Step(g, l)]
    BY <2>1
  <2>3. \E f : f = [l \in 0 .. 0 |-> Step(f, l)]
    BY <2>2
  <2>4. QED
    BY <1>0, <2>3
<1>2. ASSUME NEW m \in 1 .. Levels, m - 1 \in G
      PROVE  m \in G
  <2>1. PICK g : g = [l \in 0 .. m - 1 |-> Step(g, l)]
    BY <1>2
  <2> DEFINE h == [l \in 0 .. m |-> IF l = m THEN Step(g, m) ELSE g[l]]
  <2>2. ASSUME NEW l \in 0 .. m
        PROVE  h[l] = Step(h, l)
    <3>1. m # 0 /\ m - 1 \in 0 .. m /\ m - 1 # m
      OBVIOUS
    <3>2. CASE l = m
      <4>1. h[m - 1] = g[m - 1]
        BY <3>1
      <4>2. QED
        BY <3>1, <3>2, <4>1
    <3>3. CASE l # m
      <4>1. l \in 0 .. m - 1 /\ h[l] = g[l]
        BY <3>3
      <4>2. g[l] = Step(g, l)
        BY <2>1, <4>1
      <4>3. CASE l = 0
        BY <4>1, <4>2, <4>3
      <4>4. CASE l # 0
        <5>1. l - 1 \in 0 .. m /\ l - 1 # m
          BY <4>1, <4>4
        <5>2. h[l - 1] = g[l - 1]
          BY <5>1
        <5>3. QED
          BY <4>1, <4>2, <4>4, <5>2
      <4>5. QED
        BY <4>3, <4>4
    <3>4. QED
      BY <3>2, <3>3
  <2>3. h = [l \in 0 .. m |-> Step(h, l)]
    BY <2>2
  <2>4. \E f : f = [l \in 0 .. m |-> Step(f, l)]
    BY <2>3
  <2>5. QED
    BY <1>0, <2>4
<1>3. Levels \in G
  <2> HIDE DEF G
  <2>1. \A m \in 0 .. Levels : m \in G
    BY <1>0, <1>1, <1>2, Upwards
  <2>2. QED
    BY <1>0, <2>1
<1>4. \E g : g = [l \in 0 .. Levels |-> Step(g, l)]
  BY <1>3
<1>5. Reach = [l \in 0 .. Levels |-> Step(Reach, l)]
  BY <1>4 DEF Reach
<1>6. \A l \in 0 .. Levels : Reach[l] = Step(Reach, l)
  BY <1>5
<1>7. 0 \in 0 .. Levels /\ \A l \in 1 .. Levels : l \in 0 .. Levels /\ l # 0
  BY <1>0
<1>8. QED
  BY <1>6, <1>7

(* Products of numbers.                                                    *)
LEMMA Products ==
  /\ \A a, b \in Nat : a * b \in Nat
  /\ \A a, b \in Nat \ {0} : a * b \in Nat \ {0}
  /\ \A a, b, c \in Int : (a + b) * c = a * c + b * c
  /\ \A a, b, c \in Int : (a * b) * c = a * (b * c)
  /\ \A a, b \in Int : a * b = b * a
  /\ \A a, b, c \in Nat : a <= b => a * c <= b * c
OBVIOUS

(* A number that is q times d and a rest has the quotient q.               *)
LEMMA QuotientIs ==
  ASSUME NEW d \in Nat \ {0}, NEW q \in Nat, NEW r \in 0 .. d - 1
  PROVE  (q * d + r) \div d = q /\ (q * d + r) % d = r
OBVIOUS

(* A number is its quotient times the divisor, and its rest.               *)
LEMMA Quotients ==
  ASSUME NEW n \in Nat, NEW d \in Nat \ {0}
  PROVE  /\ n \div d \in Nat /\ n % d \in 0 .. d - 1
         /\ n = (n \div d) * d + (n % d)
OBVIOUS

(* To divide by a product is to divide by one factor after the other.      *)
LEMMA TwiceDivided ==
  ASSUME NEW n \in Nat, NEW a \in Nat \ {0}, NEW b \in Nat \ {0}
  PROVE  n \div (a * b) = (n \div b) \div a
<1>1. PICK q \in Nat, r \in 0 .. b - 1 : q = n \div b /\ n = q * b + r
  BY Quotients
<1>2. PICK p \in Nat, i \in 0 .. a - 1 : p = q \div a /\ q = p * a + i
  BY Quotients
<1>3. PICK d \in Nat \ {0} : d = a * b
  BY Products
<1>4. PICK x \in Nat : x = i * b
  BY Products
<1>5. n = p * d + (x + r)
  <2>1. q * b = (p * a) * b + i * b
    <3>1. p * a \in Int /\ i \in Int /\ b \in Int
      BY Products
    <3>2. QED
      BY <1>2, <3>1, Products
  <2>2. (p * a) * b = p * d
    BY <1>3, Products
  <2>3. p * d \in Nat
    BY Products
  <2>4. QED
    BY <1>1, <1>4, <2>1, <2>2, <2>3
<1>6. x + r \in 0 .. d - 1
  <2>1. i + 1 \in Nat /\ i + 1 <= a
    OBVIOUS
  <2>2. (i + 1) * b <= a * b
    BY <2>1, Products
  <2>3. (i + 1) * b = x + b
    <3>1. (i + 1) * b = i * b + 1 * b /\ 1 * b = b
      BY Products
    <3>2. QED
      BY <1>4, <3>1
  <2>4. x + b <= d
    BY <1>3, <2>2, <2>3
  <2>5. QED
    BY <2>4
<1>7. n \div d = p
  BY <1>5, <1>6, QuotientIs
<1>8. QED
  BY <1>1, <1>2, <1>3, <1>7

(* What an entry of each level reaches is at least one page.               *)
LEMMA ReachPositive ==
  /\ \A l \in 0 .. Levels : Reach[l] \in Nat \ {0}
  /\ PageCount \in Nat \ {0} /\ Entries \in Nat \ {0} /\ Levels \in Nat
<1>0. Levels \in Nat /\ Entries \in Nat \ {0}
  BY PagingAssumption
<1> DEFINE G == {l \in 0 .. Levels : Reach[l] \in Nat \ {0}}
<1>1. 0 \in G
  BY <1>0, ReachIs
<1>2. ASSUME NEW m \in 1 .. Levels, m - 1 \in G
      PROVE  m \in G
  <2>1. Reach[m] = Entries * Reach[m - 1]
    BY ReachIs
  <2>2. Entries * Reach[m - 1] \in Nat \ {0}
    BY <1>0, <1>2, Products
  <2>3. m \in 0 .. Levels
    BY <1>0
  <2>4. QED
    BY <2>1, <2>2, <2>3
<1>3. \A l \in 0 .. Levels : l \in G
  <2> HIDE DEF G
  <2>1. QED
    BY <1>0, <1>1, <1>2, Upwards
<1>4. \A l \in 0 .. Levels : Reach[l] \in Nat \ {0}
  BY <1>3
<1>5. QED
  BY <1>0, <1>4 DEF PageCount

(***************************************************************************)
(* Where a page is in the tree.                                            *)
(***************************************************************************)

Pages == 0 .. PageCount - 1
Slots == 0 .. Entries - 1
Prefix(v, l) == v \div Reach[Levels - l]

(* A page's prefix at one level is that of the level above and its index.  *)
LEMMA PrefixStep ==
  ASSUME NEW v \in Pages, NEW l \in 1 .. Levels
  PROVE  /\ Prefix(v, l) \in Nat /\ Prefix(v, l - 1) \in Nat /\ Index(v, l) \in Slots
         /\ Prefix(v, l) = Prefix(v, l - 1) * Entries + Index(v, l)
<1>1. v \in Nat /\ Levels \in Nat /\ Entries \in Nat \ {0}
  BY ReachPositive DEF Pages
<1>2. /\ Levels - l \in 0 .. Levels /\ Levels - (l - 1) \in 1 .. Levels
      /\ Levels - (l - 1) \in 0 .. Levels /\ Levels - (l - 1) - 1 = Levels - l
  BY <1>1
<1>3. PICK r \in Nat \ {0} : r = Reach[Levels - l]
  BY <1>2, ReachPositive
<1>4. Reach[Levels - (l - 1)] = Entries * r
  BY <1>2, <1>3, ReachIs
<1>5. Prefix(v, l) = v \div r /\ Prefix(v, l - 1) = (v \div r) \div Entries
  BY <1>1, <1>3, <1>4, TwiceDivided DEF Prefix
<1>6. Index(v, l) = (v \div r) % Entries
  BY <1>3 DEF Index
<1>7. v \div r \in Nat
  BY <1>1, Quotients
<1>8. QED
  BY <1>1, <1>5, <1>6, <1>7, Quotients DEF Slots

(* Two pages agree in more if they agree in less and in the next entry.    *)
LEMMA SamePrefix ==
  ASSUME NEW v \in Pages, NEW w \in Pages, NEW l \in 1 .. Levels
  PROVE  Prefix(v, l) = Prefix(w, l) <=> Prefix(v, l - 1) = Prefix(w, l - 1) /\ Index(v, l) = Index(w, l)
<1>1. PICK p \in Nat, q \in Nat, i \in Slots, j \in Slots :
        p = Prefix(v, l - 1) /\ q = Prefix(w, l - 1) /\ i = Index(v, l) /\ j = Index(w, l)
  BY PrefixStep
<1>2. Prefix(v, l) = p * Entries + i /\ Prefix(w, l) = q * Entries + j
  BY <1>1, PrefixStep
<1>3. Entries \in Nat \ {0}
  BY ReachPositive
<1>4. ASSUME p * Entries + i = q * Entries + j
      PROVE  p = q /\ i = j
  <2>1. (p * Entries + i) \div Entries = p /\ (p * Entries + i) % Entries = i
    BY <1>3, QuotientIs DEF Slots
  <2>2. (q * Entries + j) \div Entries = q /\ (q * Entries + j) % Entries = j
    BY <1>3, QuotientIs DEF Slots
  <2>3. QED
    BY <1>4, <2>1, <2>2
<1>5. QED
  BY <1>1, <1>2, <1>4

(* All pages agree at the root; at the last level the prefix is the page.  *)
LEMMA PrefixEnds ==
  ASSUME NEW v \in Pages
  PROVE  Prefix(v, 0) = 0 /\ Prefix(v, Levels) = v
<1>1. v \in Nat /\ v < PageCount /\ PageCount \in Nat \ {0} /\ Levels \in Nat
  BY ReachPositive DEF Pages
<1>2. Levels - 0 = Levels /\ Levels - Levels = 0
  BY <1>1
<1>3. Reach[Levels] = PageCount /\ Reach[0] = 1
  BY ReachIs DEF PageCount
<1>4. v \div PageCount = 0
  <2>1. v = 0 * PageCount + v /\ v \in 0 .. PageCount - 1
    BY <1>1
  <2>2. (0 * PageCount + v) \div PageCount = 0
    BY <1>1, <2>1, QuotientIs
  <2>3. QED
    BY <2>1, <2>2
<1>5. v \div 1 = v
  BY <1>1
<1>6. QED
  BY <1>2, <1>3, <1>4, <1>5 DEF Prefix

(* Pages that agree in more agree in less.                                 *)
LEMMA ShorterPrefix ==
  ASSUME NEW v \in Pages, NEW w \in Pages, NEW l \in 0 .. Levels, Prefix(v, l) = Prefix(w, l)
  PROVE  \A k \in 0 .. l : Prefix(v, k) = Prefix(w, k)
<1>0. Levels \in Nat
  BY ReachPositive
<1> DEFINE G == {m \in 0 .. l : Prefix(v, l - m) = Prefix(w, l - m)}
<1>1. 0 \in G
  BY <1>0
<1>2. ASSUME NEW m \in 1 .. l, m - 1 \in G
      PROVE  m \in G
  <2>1. PICK k \in 1 .. Levels : k = l - (m - 1) /\ k - 1 = l - m
    BY <1>0
  <2>2. Prefix(v, k) = Prefix(w, k)
    BY <1>2, <2>1
  <2>3. Prefix(v, k - 1) = Prefix(w, k - 1)
    BY <2>2, SamePrefix
  <2>4. QED
    BY <1>0, <2>1, <2>3
<1>3. \A m \in 0 .. l : m \in G
  <2> HIDE DEF G
  <2>1. QED
    BY <1>0, <1>1, <1>2, Upwards
<1>4. ASSUME NEW k \in 0 .. l
      PROVE  Prefix(v, k) = Prefix(w, k)
  <2>1. l - k \in 0 .. l /\ l - (l - k) = k
    BY <1>0
  <2>2. l - k \in G
    BY <1>3, <2>1
  <2>3. QED
    BY <2>1, <2>2
<1>5. QED
  BY <1>4

(***************************************************************************)
(* The recursive functions of the model, unrolled.                         *)
(***************************************************************************)

(* What the handlers' assignments do to a state.                           *)
PutEntry(s, f, i, x) == [s EXCEPT !.mem[f][i] = x]
PutFrame(s, f, x)    == [s EXCEPT !.mem[f] = x]
PutTorn(s, x)        == [s EXCEPT !.torn = x]

(* A walk begins at the root and follows one entry of each level's table.  *)
LEMMA WalkIs ==
  ASSUME NEW c, NEW v
  PROVE  /\ Walk(c, v)[0] = Root
         /\ \A l \in 1 .. Levels : Walk(c, v)[l] = Follow(c, Walk(c, v)[l - 1], v, l)
<1> DEFINE Step(g, l) == IF l = 0 THEN Root ELSE Follow(c, g[l - 1], v, l)
<1> DEFINE G == {m \in 0 .. Levels : \E g : g = [l \in 0 .. m |-> Step(g, l)]}
<1>0. Levels \in Nat
  BY PagingAssumption
<1>1. 0 \in G
  <2> DEFINE g == [l \in 0 .. 0 |-> Root]
  <2>1. \A l \in 0 .. 0 : l = 0
    OBVIOUS
  <2>2. g = [l \in 0 .. 0 |-> Step(g, l)]
    BY <2>1
  <2>3. \E e : e = [l \in 0 .. 0 |-> Step(e, l)]
    BY <2>2
  <2>4. QED
    BY <1>0, <2>3
<1>2. ASSUME NEW m \in 1 .. Levels, m - 1 \in G
      PROVE  m \in G
  <2>1. PICK g : g = [l \in 0 .. m - 1 |-> Step(g, l)]
    BY <1>2
  <2> DEFINE h == [l \in 0 .. m |-> IF l = m THEN Step(g, m) ELSE g[l]]
  <2>2. ASSUME NEW l \in 0 .. m
        PROVE  h[l] = Step(h, l)
    <3>1. m # 0 /\ m - 1 \in 0 .. m /\ m - 1 # m
      OBVIOUS
    <3>2. CASE l = m
      <4>1. h[m - 1] = g[m - 1]
        BY <3>1
      <4>2. QED
        BY <3>1, <3>2, <4>1
    <3>3. CASE l # m
      <4>1. l \in 0 .. m - 1 /\ h[l] = g[l]
        BY <3>3
      <4>2. g[l] = Step(g, l)
        BY <2>1, <4>1
      <4>3. CASE l = 0
        BY <4>1, <4>2, <4>3
      <4>4. CASE l # 0
        <5>1. l - 1 \in 0 .. m /\ l - 1 # m
          BY <4>1, <4>4
        <5>2. h[l - 1] = g[l - 1]
          BY <5>1
        <5>3. QED
          BY <4>1, <4>2, <4>4, <5>2
      <4>5. QED
        BY <4>3, <4>4
    <3>4. QED
      BY <3>2, <3>3
  <2>3. h = [l \in 0 .. m |-> Step(h, l)]
    BY <2>2
  <2>4. \E e : e = [l \in 0 .. m |-> Step(e, l)]
    BY <2>3
  <2>5. m \in 0 .. Levels
    BY <1>0
  <2>6. QED
    BY <2>4, <2>5, Zenon
<1>3. Levels \in G
  <2> HIDE DEF G
  <2>1. \A m \in 0 .. Levels : m \in G
    BY <1>0, <1>1, <1>2, Upwards, Zenon
  <2>2. QED
    BY <1>0, <2>1
<1>4. \E g : g = [l \in 0 .. Levels |-> Step(g, l)]
  BY <1>3
<1>5. Walk(c, v) = [l \in 0 .. Levels |-> Step(Walk(c, v), l)]
  BY <1>4 DEF Walk
<1>6. \A l \in 0 .. Levels : Walk(c, v)[l] = Step(Walk(c, v), l)
  BY <1>5
<1>7. 0 \in 0 .. Levels /\ \A l \in 1 .. Levels : l \in 0 .. Levels /\ l # 0
  BY <1>0
<1>8. QED
  BY <1>6, <1>7

(* set_pt_entry looks at one level's table after the other.                *)
LEMMA SetEntryIs ==
  ASSUME NEW s, NEW v, NEW val
  PROVE  \E t :
           /\ t[0] = s
           /\ \A l \in 1 .. Levels - 1 : t[l] = check_table(t[l - 1], v, l)
           /\ set_pt_entry(s, v, val) =
                PutEntry(t[Levels - 1], Window(t[Levels - 1].mem), Index(v, Levels), val)
<1> DEFINE Step(g, l) == IF l = 0 THEN s ELSE check_table(g[l - 1], v, l)
<1> DEFINE G == {m \in 0 .. (Levels - 1) : \E g : g = [l \in 0 .. m |-> Step(g, l)]}
<1>0. (Levels - 1) \in Nat
  BY PagingAssumption
<1>1. 0 \in G
  <2> DEFINE g == [l \in 0 .. 0 |-> s]
  <2>1. \A l \in 0 .. 0 : l = 0
    OBVIOUS
  <2>2. g = [l \in 0 .. 0 |-> Step(g, l)]
    BY <2>1
  <2>3. \E e : e = [l \in 0 .. 0 |-> Step(e, l)]
    BY <2>2
  <2>4. QED
    BY <1>0, <2>3
<1>2. ASSUME NEW m \in 1 .. (Levels - 1), m - 1 \in G
      PROVE  m \in G
  <2>1. PICK g : g = [l \in 0 .. m - 1 |-> Step(g, l)]
    BY <1>2
  <2> DEFINE h == [l \in 0 .. m |-> IF l = m THEN Step(g, m) ELSE g[l]]
  <2>2. ASSUME NEW l \in 0 .. m
        PROVE  h[l] = Step(h, l)
    <3>1. m # 0 /\ m - 1 \in 0 .. m /\ m - 1 # m
      OBVIOUS
    <3>2. CASE l = m
      <4>1. h[m - 1] = g[m - 1]
        BY <3>1
      <4>2. QED
        BY <3>1, <3>2, <4>1
    <3>3. CASE l # m
      <4>1. l \in 0 .. m - 1 /\ h[l] = g[l]
        BY <3>3
      <4>2. g[l] = Step(g, l)
        BY <2>1, <4>1
      <4>3. CASE l = 0
        BY <4>1, <4>2, <4>3
      <4>4. CASE l # 0
        <5>1. l - 1 \in 0 .. m /\ l - 1 # m
          BY <4>1, <4>4
        <5>2. h[l - 1] = g[l - 1]
          BY <5>1
        <5>3. QED
          BY <4>1, <4>2, <4>4, <5>2
      <4>5. QED
        BY <4>3, <4>4
    <3>4. QED
      BY <3>2, <3>3
  <2>3. h = [l \in 0 .. m |-> Step(h, l)]
    BY <2>2
  <2>4. \E e : e = [l \in 0 .. m |-> Step(e, l)]
    BY <2>3
  <2>5. m \in 0 .. (Levels - 1)
    BY <1>0
  <2>6. QED
    BY <2>4, <2>5, Zenon
<1>3. (Levels - 1) \in G
  <2> HIDE DEF G
  <2>1. \A m \in 0 .. (Levels - 1) : m \in G
    BY <1>0, <1>1, <1>2, Upwards, Zenon
  <2>2. QED
    BY <1>0, <2>1
<1>4. \E g : g = [l \in 0 .. (Levels - 1) |-> Step(g, l)]
  BY <1>3
<1>5. PICK t : t = [l \in 0 .. (Levels - 1) |-> Step(t, l)] /\ set_pt_entry(s, v, val) =
                PutEntry(t[Levels - 1], Window(t[Levels - 1].mem), Index(v, Levels), val)
  BY <1>4 DEF set_pt_entry, PutEntry
<1>6. \A l \in 0 .. (Levels - 1) : t[l] = Step(t, l)
  BY <1>5
<1>7. 0 \in 0 .. (Levels - 1) /\ \A l \in 1 .. (Levels - 1) : l \in 0 .. (Levels - 1) /\ l # 0
  BY <1>0
<1>8. QED
  BY <1>5, <1>6, <1>7

(* The pages of a workspace are listed segment by segment.                 *)
LEMMA ListedIs ==
  ASSUME NEW ws, NEW N \in Nat, N = Len(ws)
  PROVE  \E t :
           /\ t[0] = <<>>
           /\ \A i \in 1 .. N : t[i] = t[i - 1] \o [k \in 1 .. ws[i].n |-> PageOf(ws[i], k)]
           /\ Listed(ws) = t[N]
<1> DEFINE Step(g, l) == IF l = 0 THEN <<>> ELSE g[l - 1] \o [k \in 1 .. ws[l].n |-> PageOf(ws[l], k)]
<1> DEFINE G == {m \in 0 .. N : \E g : g = [l \in 0 .. m |-> Step(g, l)]}
<1>0. N \in Nat
  OBVIOUS
<1>1. 0 \in G
  <2> DEFINE g == [l \in 0 .. 0 |-> <<>>]
  <2>1. \A l \in 0 .. 0 : l = 0
    OBVIOUS
  <2>2. g = [l \in 0 .. 0 |-> Step(g, l)]
    BY <2>1
  <2>3. \E e : e = [l \in 0 .. 0 |-> Step(e, l)]
    BY <2>2
  <2>4. QED
    BY <1>0, <2>3
<1>2. ASSUME NEW m \in 1 .. N, m - 1 \in G
      PROVE  m \in G
  <2>1. PICK g : g = [l \in 0 .. m - 1 |-> Step(g, l)]
    BY <1>2
  <2> DEFINE h == [l \in 0 .. m |-> IF l = m THEN Step(g, m) ELSE g[l]]
  <2>2. ASSUME NEW l \in 0 .. m
        PROVE  h[l] = Step(h, l)
    <3>1. m # 0 /\ m - 1 \in 0 .. m /\ m - 1 # m
      OBVIOUS
    <3>2. CASE l = m
      <4>1. h[m - 1] = g[m - 1]
        BY <3>1
      <4>2. QED
        BY <3>1, <3>2, <4>1
    <3>3. CASE l # m
      <4>1. l \in 0 .. m - 1 /\ h[l] = g[l]
        BY <3>3
      <4>2. g[l] = Step(g, l)
        BY <2>1, <4>1
      <4>3. CASE l = 0
        BY <4>1, <4>2, <4>3
      <4>4. CASE l # 0
        <5>1. l - 1 \in 0 .. m /\ l - 1 # m
          BY <4>1, <4>4
        <5>2. h[l - 1] = g[l - 1]
          BY <5>1
        <5>3. QED
          BY <4>1, <4>2, <4>4, <5>2
      <4>5. QED
        BY <4>3, <4>4
    <3>4. QED
      BY <3>2, <3>3
  <2>3. h = [l \in 0 .. m |-> Step(h, l)]
    BY <2>2
  <2>4. \E e : e = [l \in 0 .. m |-> Step(e, l)]
    BY <2>3
  <2>5. m \in 0 .. N
    BY <1>0
  <2>6. QED
    BY <2>4, <2>5, Zenon
<1>3. N \in G
  <2> HIDE DEF G
  <2>1. \A m \in 0 .. N : m \in G
    BY <1>0, <1>1, <1>2, Upwards, Zenon
  <2>2. QED
    BY <1>0, <2>1
<1>4. \E g : g = [l \in 0 .. N |-> Step(g, l)]
  BY <1>3
<1>5. PICK t : t = [l \in 0 .. N |-> Step(t, l)] /\ Listed(ws) = t[N]
  BY <1>4 DEF Listed
<1>6. \A l \in 0 .. N : t[l] = Step(t, l)
  BY <1>5
<1>7. 0 \in 0 .. N /\ \A l \in 1 .. N : l \in 0 .. N /\ l # 0
  BY <1>0
<1>8. QED
  BY <1>5, <1>6, <1>7

(* The pages of a list are entered one after another.                      *)
LEMMA EnteredIs ==
  ASSUME NEW s, NEW pages, Len(pages) \in Nat
  PROVE  \E t :
           /\ t[0] = s
           /\ \A i \in 1 .. Len(pages) : t[i] = set_pt_entry(t[i - 1], pages[i].v, pages[i].f)
           /\ Entered(s, pages) = t[Len(pages)]
<1> DEFINE Step(g, l) == IF l = 0 THEN s ELSE set_pt_entry(g[l - 1], pages[l].v, pages[l].f)
<1> DEFINE G == {m \in 0 .. Len(pages) : \E g : g = [l \in 0 .. m |-> Step(g, l)]}
<1>0. Len(pages) \in Nat
  OBVIOUS
<1>1. 0 \in G
  <2> DEFINE g == [l \in 0 .. 0 |-> s]
  <2>1. \A l \in 0 .. 0 : l = 0
    OBVIOUS
  <2>2. g = [l \in 0 .. 0 |-> Step(g, l)]
    BY <2>1
  <2>3. \E e : e = [l \in 0 .. 0 |-> Step(e, l)]
    BY <2>2
  <2>4. QED
    BY <1>0, <2>3
<1>2. ASSUME NEW m \in 1 .. Len(pages), m - 1 \in G
      PROVE  m \in G
  <2>1. PICK g : g = [l \in 0 .. m - 1 |-> Step(g, l)]
    BY <1>2
  <2> DEFINE h == [l \in 0 .. m |-> IF l = m THEN Step(g, m) ELSE g[l]]
  <2>2. ASSUME NEW l \in 0 .. m
        PROVE  h[l] = Step(h, l)
    <3>1. m # 0 /\ m - 1 \in 0 .. m /\ m - 1 # m
      OBVIOUS
    <3>2. CASE l = m
      <4>1. h[m - 1] = g[m - 1]
        BY <3>1
      <4>2. QED
        BY <3>1, <3>2, <4>1
    <3>3. CASE l # m
      <4>1. l \in 0 .. m - 1 /\ h[l] = g[l]
        BY <3>3
      <4>2. g[l] = Step(g, l)
        BY <2>1, <4>1
      <4>3. CASE l = 0
        BY <4>1, <4>2, <4>3
      <4>4. CASE l # 0
        <5>1. l - 1 \in 0 .. m /\ l - 1 # m
          BY <4>1, <4>4
        <5>2. h[l - 1] = g[l - 1]
          BY <5>1
        <5>3. QED
          BY <4>1, <4>2, <4>4, <5>2
      <4>5. QED
        BY <4>3, <4>4
    <3>4. QED
      BY <3>2, <3>3
  <2>3. h = [l \in 0 .. m |-> Step(h, l)]
    BY <2>2
  <2>4. \E e : e = [l \in 0 .. m |-> Step(e, l)]
    BY <2>3
  <2>5. m \in 0 .. Len(pages)
    BY <1>0
  <2>6. QED
    BY <2>4, <2>5, Zenon
<1>3. Len(pages) \in G
  <2> HIDE DEF G
  <2>1. \A m \in 0 .. Len(pages) : m \in G
    BY <1>0, <1>1, <1>2, Upwards, Zenon
  <2>2. QED
    BY <1>0, <2>1
<1>4. \E g : g = [l \in 0 .. Len(pages) |-> Step(g, l)]
  BY <1>3
<1>5. PICK t : t = [l \in 0 .. Len(pages) |-> Step(t, l)] /\ Entered(s, pages) = t[Len(pages)]
  BY <1>4 DEF Entered
<1>6. \A l \in 0 .. Len(pages) : t[l] = Step(t, l)
  BY <1>5
<1>7. 0 \in 0 .. Len(pages) /\ \A l \in 1 .. Len(pages) : l \in 0 .. Len(pages) /\ l # 0
  BY <1>0
<1>8. QED
  BY <1>5, <1>6, <1>7

(* The pages of a program are copied one after another.                    *)
LEMMA CopiedIs ==
  ASSUME NEW s, NEW f, NEW from
  PROVE  \E t :
           /\ t[0] = s
           /\ \A i \in 1 .. CodePages : t[i] = CopiedPage(t[i - 1], f + i - 1, from + i - 1)
           /\ Copied(s, f, from) = t[CodePages]
<1> DEFINE Step(g, l) == IF l = 0 THEN s ELSE CopiedPage(g[l - 1], f + l - 1, from + l - 1)
<1> DEFINE G == {m \in 0 .. CodePages : \E g : g = [l \in 0 .. m |-> Step(g, l)]}
<1>0. CodePages \in Nat
  BY PagingAssumption
<1>1. 0 \in G
  <2> DEFINE g == [l \in 0 .. 0 |-> s]
  <2>1. \A l \in 0 .. 0 : l = 0
    OBVIOUS
  <2>2. g = [l \in 0 .. 0 |-> Step(g, l)]
    BY <2>1
  <2>3. \E e : e = [l \in 0 .. 0 |-> Step(e, l)]
    BY <2>2
  <2>4. QED
    BY <1>0, <2>3
<1>2. ASSUME NEW m \in 1 .. CodePages, m - 1 \in G
      PROVE  m \in G
  <2>1. PICK g : g = [l \in 0 .. m - 1 |-> Step(g, l)]
    BY <1>2
  <2> DEFINE h == [l \in 0 .. m |-> IF l = m THEN Step(g, m) ELSE g[l]]
  <2>2. ASSUME NEW l \in 0 .. m
        PROVE  h[l] = Step(h, l)
    <3>1. m # 0 /\ m - 1 \in 0 .. m /\ m - 1 # m
      OBVIOUS
    <3>2. CASE l = m
      <4>1. h[m - 1] = g[m - 1]
        BY <3>1
      <4>2. QED
        BY <3>1, <3>2, <4>1
    <3>3. CASE l # m
      <4>1. l \in 0 .. m - 1 /\ h[l] = g[l]
        BY <3>3
      <4>2. g[l] = Step(g, l)
        BY <2>1, <4>1
      <4>3. CASE l = 0
        BY <4>1, <4>2, <4>3
      <4>4. CASE l # 0
        <5>1. l - 1 \in 0 .. m /\ l - 1 # m
          BY <4>1, <4>4
        <5>2. h[l - 1] = g[l - 1]
          BY <5>1
        <5>3. QED
          BY <4>1, <4>2, <4>4, <5>2
      <4>5. QED
        BY <4>3, <4>4
    <3>4. QED
      BY <3>2, <3>3
  <2>3. h = [l \in 0 .. m |-> Step(h, l)]
    BY <2>2
  <2>4. \E e : e = [l \in 0 .. m |-> Step(e, l)]
    BY <2>3
  <2>5. m \in 0 .. CodePages
    BY <1>0
  <2>6. QED
    BY <2>4, <2>5, Zenon
<1>3. CodePages \in G
  <2> HIDE DEF G
  <2>1. \A m \in 0 .. CodePages : m \in G
    BY <1>0, <1>1, <1>2, Upwards, Zenon
  <2>2. QED
    BY <1>0, <2>1
<1>4. \E g : g = [l \in 0 .. CodePages |-> Step(g, l)]
  BY <1>3
<1>5. PICK t : t = [l \in 0 .. CodePages |-> Step(t, l)] /\ Copied(s, f, from) = t[CodePages]
  BY <1>4 DEF Copied
<1>6. \A l \in 0 .. CodePages : t[l] = Step(t, l)
  BY <1>5
<1>7. 0 \in 0 .. CodePages /\ \A l \in 1 .. CodePages : l \in 0 .. CodePages /\ l # 0
  BY <1>0
<1>8. QED
  BY <1>5, <1>6, <1>7

(* What the assumptions on the constants say of the sizes.                 *)
LEMMA Sizes ==
  /\ Levels \in Nat /\ Levels >= 2 /\ Levels \in 1 .. Levels /\ Levels - 1 \in 0 .. Levels - 1
  /\ Entries \in Nat \ {0} /\ Entries \div 2 \in Slots \ {0} /\ 0 \in Slots
  /\ LastFrame \in Nat /\ FirstFrame \in 4 .. LastFrame + 1
  /\ KPT0_0 = Levels + Levels - 1 /\ FirstFrame = Levels + Levels /\ Root = 1
  /\ KPT0_0 \in 3 .. FirstFrame - 1 /\ KPT0_0 # Root
  /\ UserPages \in Nat /\ UserPages + UserPages <= PageCount /\ UserPages >= 4
  /\ KernelPage = UserPages /\ KernelPage \in Pages /\ KernelPage \in 1 .. PageCount - 1
  /\ CodePages \in Nat \ {0} /\ CodePages + 1 <= UserPages \div 2 /\ UserPages \div 2 \in Nat
<1>1. /\ Levels \in Nat /\ Levels >= 2 /\ Entries \in Nat /\ Entries > 0 /\ Entries % 2 = 0
      /\ Frames \in Nat /\ CodePages \in Nat \ {0} /\ CodePages + 1 <= UserPages \div 2
  BY PagingAssumption DEF UserBottom
<1>2. PageCount \in Nat \ {0}
  BY ReachPositive
<1>3. UserPages \in Nat /\ UserPages + UserPages <= PageCount /\ UserPages < PageCount
  BY <1>2 DEF UserPages
<1>4. UserPages >= 4 /\ UserPages \div 2 \in Nat
  BY <1>1, <1>3
<1>5. /\ KPT0_0 = Levels + Levels - 1 /\ FirstFrame = Levels + Levels
      /\ LastFrame = Levels + Levels - 1 + Frames
  BY <1>1 DEF KPT0_0, HighTable, FirstFrame, LastFrame
<1>6. Entries \div 2 \in 1 .. Entries - 1
  BY <1>1
<1>7. QED
  BY <1>1, <1>2, <1>3, <1>4, <1>5, <1>6 DEF Slots, Pages, Root, KernelPage

(* The window's page is the first of the kernel's half.                    *)
LEMMA KernelIndexes ==
  /\ Index(KernelPage, 1) = Entries \div 2
  /\ \A k \in 2 .. Levels : Index(KernelPage, k) = 0
<1> DEFINE G == {m \in 0 .. Levels - 1 : \E c \in Nat : KernelPage = c * Reach[Levels - 1 - m]}
<1>0. /\ Levels \in Nat /\ Levels >= 2 /\ Entries \in Nat \ {0} /\ Entries % 2 = 0
      /\ Entries \div 2 \in 0 .. Entries - 1
  BY Sizes, PagingAssumption DEF Slots
<1>1. PICK r \in Nat \ {0} : r = Reach[Levels - 1]
  BY <1>0, ReachPositive
<1>2. KernelPage = (Entries \div 2) * r
  <2>1. PageCount = Entries * r
    BY <1>0, <1>1, ReachIs DEF PageCount
  <2>2. PICK h \in Nat : h = Entries \div 2 /\ Entries = 2 * h
    BY <1>0
  <2>3. PICK x \in Nat : x = h * r
    BY Products
  <2>4. PageCount = 2 * x
    <3>1. (2 * h) * r = 2 * (h * r)
      BY Products
    <3>2. QED
      BY <2>1, <2>2, <2>3, <3>1
  <2>5. QED
    BY <2>2, <2>3, <2>4 DEF KernelPage, UserPages
<1>3. Index(KernelPage, 1) = Entries \div 2
  <2>1. ((Entries \div 2) * r + 0) \div r = Entries \div 2
    <3>1. PICK q \in Nat : q = Entries \div 2
      BY <1>0
    <3>2. (q * r + 0) \div r = q
      BY <1>1, QuotientIs
    <3>3. QED
      BY <3>1, <3>2
  <2>2. (Entries \div 2) * r \in Nat
    BY <1>0, <1>1, Products
  <2>3. KernelPage \div r = Entries \div 2
    BY <1>2, <2>1, <2>2
  <2>4. (Entries \div 2) % Entries = Entries \div 2
    BY <1>0
  <2>5. QED
    BY <1>1, <2>3, <2>4 DEF Index
<1>4. 0 \in G
  <2>1. Levels - 1 - 0 = Levels - 1
    BY <1>0
  <2>2. QED
    BY <1>0, <1>1, <1>2, <2>1
<1>5. ASSUME NEW m \in 1 .. Levels - 1, m - 1 \in G
      PROVE  m \in G
  <2>1. PICK j \in 1 .. Levels : j = Levels - 1 - (m - 1) /\ j - 1 = Levels - 1 - m
    BY <1>0
  <2>2. PICK c \in Nat : KernelPage = c * Reach[j]
    BY <1>5, <2>1
  <2>3. PICK d \in Nat \ {0} : d = Reach[j - 1] /\ Reach[j] = Entries * d
    BY <2>1, ReachIs, ReachPositive
  <2>4. c * (Entries * d) = (c * Entries) * d /\ c * Entries \in Nat
    BY <1>0, <2>3, Products
  <2>5. KernelPage = (c * Entries) * Reach[Levels - 1 - m]
    BY <2>1, <2>2, <2>3, <2>4
  <2>6. QED
    BY <1>0, <2>4, <2>5
<1>6. \A m \in 0 .. Levels - 1 : m \in G
  <2>1. Levels - 1 \in Nat
    BY <1>0
  <2> HIDE DEF G
  <2>2. QED
    BY <1>4, <1>5, <2>1, Upwards
<1>7. ASSUME NEW k \in 2 .. Levels
      PROVE  Index(KernelPage, k) = 0
  <2>1. PICK j \in 1 .. Levels : j = Levels - k + 1 /\ j - 1 = Levels - k /\ Levels - 1 - (k - 2) = j
    BY <1>0
  <2>2. k - 2 \in 0 .. Levels - 1
    BY <1>0
  <2>3. PICK c \in Nat : KernelPage = c * Reach[j]
    BY <1>6, <2>1, <2>2
  <2>4. PICK d \in Nat \ {0} : d = Reach[j - 1] /\ Reach[j] = Entries * d
    BY <2>1, ReachIs, ReachPositive
  <2>5. PICK e \in Nat : e = c * Entries
    BY <1>0, Products
  <2>6. KernelPage = e * d /\ e * d \in Nat
    BY <1>0, <2>3, <2>4, <2>5, Products
  <2>7. (e * d + 0) \div d = e
    BY QuotientIs
  <2>8. (c * Entries + 0) % Entries = 0
    BY <1>0, QuotientIs
  <2>9. e % Entries = 0
    BY <1>0, <2>5, <2>8
  <2>10. KernelPage \div d = e
    BY <2>6, <2>7
  <2>11. QED
    BY <2>1, <2>4, <2>9, <2>10 DEF Index
<1>8. QED
  BY <1>3, <1>7

(***************************************************************************)
(* The tree of tables.                                                     *)
(***************************************************************************)

Frame == 0 .. LastFrame
Words == [Slots -> -2 .. LastFrame]
W(m, v, l) == Walk(m, v)[l]

TreeOk(m, n) ==
  /\ n \in FirstFrame .. LastFrame + 1
  /\ m \in [Frame -> Words]
  /\ \A v \in Pages : \A l \in 0 .. Levels - 1 : W(m, v, l) = Absent \/ W(m, v, l) \in 1 .. n - 1
  /\ \A v, w \in Pages : \A k, l \in 0 .. Levels - 1 :
       W(m, v, k) = W(m, w, l) /\ W(m, v, k) # Absent => k = l /\ Prefix(v, k) = Prefix(w, k)
  /\ W(m, KernelPage, Levels - 1) = KPT0_0
  /\ \A v \in Pages : W(m, v, Levels) \in Frame \cup {Absent}
  /\ W(m, KernelPage, Levels) # Absent

(* The tables a page is reached by, level by level.                        *)
LEMMA WStep ==
  ASSUME NEW m, NEW v
  PROVE  /\ W(m, v, 0) = Root
         /\ \A l \in 1 .. Levels : W(m, v, l) = Follow(m, W(m, v, l - 1), v, l)
BY WalkIs DEF W

(* Pages that agree have the same tables.                                  *)
LEMMA SharedTables ==
  ASSUME NEW m, NEW v \in Pages, NEW w \in Pages, NEW l \in 0 .. Levels, Prefix(v, l) = Prefix(w, l)
  PROVE  \A k \in 0 .. l : W(m, v, k) = W(m, w, k)
<1> DEFINE G == {k \in 0 .. l : W(m, v, k) = W(m, w, k)}
<1>0. Levels \in Nat /\ l \in Nat
  BY Sizes
<1>1. 0 \in G
  BY <1>0, WStep
<1>2. ASSUME NEW k \in 1 .. l, k - 1 \in G
      PROVE  k \in G
  <2>1. k \in 1 .. Levels /\ k \in 0 .. l
    BY <1>0
  <2>2. Prefix(v, k) = Prefix(w, k)
    BY <2>1, ShorterPrefix
  <2>3. Index(v, k) = Index(w, k)
    BY <2>1, <2>2, SamePrefix
  <2>4. /\ W(m, v, k) = Follow(m, W(m, v, k - 1), v, k)
        /\ W(m, w, k) = Follow(m, W(m, w, k - 1), w, k)
    BY <2>1, WStep
  <2>5. W(m, v, k - 1) = W(m, w, k - 1)
    BY <1>2
  <2>6. QED
    BY <2>1, <2>3, <2>4, <2>5 DEF Follow
<1>3. \A k \in 0 .. l : k \in G
  <2> HIDE DEF G
  <2>1. QED
    BY <1>0, <1>1, <1>2, Upwards
<1>4. QED
  BY <1>3

(* Below a missing table there is nothing.                                 *)
LEMMA AbsentBelow ==
  ASSUME NEW m, NEW v, NEW l \in 0 .. Levels, W(m, v, l) = Absent
  PROVE  \A k \in l .. Levels : W(m, v, k) = Absent
<1> DEFINE G == {i \in 0 .. Levels - l : W(m, v, l + i) = Absent}
<1>0. Levels \in Nat /\ l \in Nat /\ Levels - l \in Nat
  BY Sizes
<1>1. 0 \in G
  BY <1>0
<1>2. ASSUME NEW i \in 1 .. Levels - l, i - 1 \in G
      PROVE  i \in G
  <2>1. PICK k \in 1 .. Levels : k = l + i /\ k - 1 = l + (i - 1)
    BY <1>0
  <2>2. W(m, v, k) = Follow(m, W(m, v, k - 1), v, k)
    BY <2>1, WStep
  <2>3. W(m, v, k - 1) = Absent
    BY <1>2, <2>1
  <2>4. QED
    BY <2>1, <2>2, <2>3 DEF Follow, Absent
<1>3. \A i \in 0 .. Levels - l : i \in G
  <2> HIDE DEF G
  <2>1. QED
    BY <1>0, <1>1, <1>2, Upwards
<1>4. ASSUME NEW k \in l .. Levels
      PROVE  W(m, v, k) = Absent
  <2>1. PICK i \in 0 .. Levels - l : k = l + i
    BY <1>0
  <2>2. QED
    BY <1>3, <2>1
<1>5. QED
  BY <1>4

(* What changes elsewhere does not change a page's tables.                 *)
LEMMA Elsewhere ==
  ASSUME NEW m, NEW n, TreeOk(m, n), NEW z, NEW v \in Pages, NEW j \in 0 .. Levels,
         \A l \in 1 .. j : W(m, v, l - 1) # Absent =>
           z[W(m, v, l - 1)][Index(v, l)] = m[W(m, v, l - 1)][Index(v, l)]
  PROVE  \A l \in 0 .. j : W(z, v, l) = W(m, v, l)
<1> DEFINE G == {l \in 0 .. j : W(z, v, l) = W(m, v, l)}
<1>0. Levels \in Nat /\ j \in Nat
  BY Sizes
<1>1. 0 \in G
  BY <1>0, WStep
<1>2. ASSUME NEW l \in 1 .. j, l - 1 \in G
      PROVE  l \in G
  <2>1. l \in 1 .. Levels /\ l - 1 \in 0 .. Levels - 1
    BY <1>0
  <2>2. W(m, v, l - 1) = Absent \/ W(m, v, l - 1) \in Nat
    BY <2>1 DEF TreeOk
  <2>3. /\ W(m, v, l) = Follow(m, W(m, v, l - 1), v, l)
        /\ W(z, v, l) = Follow(z, W(m, v, l - 1), v, l)
    BY <1>2, <2>1, WStep
  <2>4. QED
    BY <2>1, <2>2, <2>3 DEF Follow, Absent
<1>3. \A l \in 0 .. j : l \in G
  <2> HIDE DEF G
  <2>1. QED
    BY <1>0, <1>1, <1>2, Upwards
<1>4. QED
  BY <1>3

(* An unchanged tree remains good.                                         *)
LEMMA SameTree ==
  ASSUME NEW m, NEW n, TreeOk(m, n), NEW z \in [Frame -> Words], NEW k \in n .. LastFrame + 1,
         \A v \in Pages : \A l \in 0 .. Levels - 1 : W(z, v, l) = W(m, v, l),
         \A v \in Pages : W(z, v, Levels) \in Frame \cup {Absent},
         W(z, KernelPage, Levels) # Absent
  PROVE  TreeOk(z, k)
<1>1. n \in FirstFrame .. LastFrame + 1 /\ FirstFrame \in Nat /\ LastFrame \in Nat
  BY Sizes DEF TreeOk
<1>2. k \in FirstFrame .. LastFrame + 1
  BY <1>1
<1>3. ASSUME NEW v \in Pages, NEW l \in 0 .. Levels - 1
      PROVE  W(z, v, l) = Absent \/ W(z, v, l) \in 1 .. k - 1
  <2>1. W(m, v, l) = Absent \/ W(m, v, l) \in 1 .. n - 1
    BY DEF TreeOk
  <2>2. QED
    BY <1>1, <2>1
<1>4. W(z, KernelPage, Levels - 1) = KPT0_0
  BY Sizes DEF TreeOk
<1>5. ASSUME NEW v \in Pages, NEW w \in Pages, NEW i \in 0 .. Levels - 1, NEW l \in 0 .. Levels - 1,
             W(z, v, i) = W(z, w, l), W(z, v, i) # Absent
      PROVE  i = l /\ Prefix(v, i) = Prefix(w, i)
  <2>1. W(m, v, i) = W(m, w, l) /\ W(m, v, i) # Absent
    BY <1>5
  <2>2. QED
    BY <2>1 DEF TreeOk
<1>6. QED
  BY <1>2, <1>3, <1>4, <1>5 DEF TreeOk

(* To fill a frame that is no table changes no page.                       *)
LEMMA FillKeeps ==
  ASSUME NEW m, NEW n, TreeOk(m, n), NEW f \in Frame, NEW row \in Words,
         \A v \in Pages : \A l \in 0 .. Levels - 1 : W(m, v, l) # f
  PROVE  /\ TreeOk([m EXCEPT ![f] = row], n)
         /\ \A v \in Pages : \A l \in 0 .. Levels : W([m EXCEPT ![f] = row], v, l) = W(m, v, l)
<1>1. PICK z \in [Frame -> Words] : z = [m EXCEPT ![f] = row]
  BY DEF TreeOk
<1>2. ASSUME NEW v \in Pages
      PROVE  \A l \in 0 .. Levels : W(z, v, l) = W(m, v, l)
  <2>1. ASSUME NEW l \in 1 .. Levels, W(m, v, l - 1) # Absent
        PROVE  z[W(m, v, l - 1)][Index(v, l)] = m[W(m, v, l - 1)][Index(v, l)]
    <3>1. l - 1 \in 0 .. Levels - 1
      BY Sizes
    <3>2. W(m, v, l - 1) \in Frame /\ W(m, v, l - 1) # f
      BY <2>1, <3>1, Sizes DEF TreeOk, Frame
    <3>3. QED
      BY <1>1, <3>2 DEF TreeOk
  <2>2. Levels \in 0 .. Levels
    BY Sizes
  <2>3. QED
    BY <2>1, <2>2, Elsewhere
<1>3. TreeOk(z, n)
  <2>1. n \in n .. LastFrame + 1
    BY Sizes DEF TreeOk
  <2>2. /\ \A l \in 0 .. Levels - 1 : l \in 0 .. Levels
        /\ Levels \in 0 .. Levels /\ KernelPage \in Pages
    BY Sizes
  <2>3. /\ \A v \in Pages : W(z, v, Levels) \in Frame \cup {Absent}
        /\ W(z, KernelPage, Levels) # Absent
    BY <1>2, <2>2 DEF TreeOk
  <2>4. \A v \in Pages : \A l \in 0 .. Levels - 1 : W(z, v, l) = W(m, v, l)
    BY <1>2, <2>2
  <2>5. QED
    BY <2>1, <2>3, <2>4, SameTree
<1>4. QED
  BY <1>1, <1>2, <1>3

(* One entry of one table is set: nothing else differs.                    *)
SetAt(m, f, i, x) == [m EXCEPT ![f][i] = x]
EntrySet(m, z, f, i) ==
  /\ \A g \in Frame \ {f} : z[g] = m[g]
  /\ \A k \in Slots \ {i} : z[f][k] = m[f][k]

(* An entry that is set concerns the pages below it.                       *)
LEMMA OtherPages ==
  ASSUME NEW m, NEW n, TreeOk(m, n), NEW z, NEW v \in Pages, NEW d \in 1 .. Levels,
         W(m, v, d - 1) # Absent,
         EntrySet(m, z, W(m, v, d - 1), Index(v, d)),
         NEW w \in Pages, NEW j \in 0 .. Levels, j < d \/ Prefix(w, d) # Prefix(v, d)
  PROVE  \A l \in 0 .. j : W(z, w, l) = W(m, w, l)
<1>1. ASSUME NEW l \in 1 .. j, W(m, w, l - 1) # Absent
      PROVE  z[W(m, w, l - 1)][Index(w, l)] = m[W(m, w, l - 1)][Index(w, l)]
  <2>1. l - 1 \in 0 .. Levels - 1 /\ l \in 1 .. Levels /\ d - 1 \in 0 .. Levels - 1
    BY Sizes
  <2>2. W(m, w, l - 1) \in Frame
    <3>1. W(m, w, l - 1) \in 1 .. n - 1 /\ n \in FirstFrame .. LastFrame + 1
      BY <1>1, <2>1 DEF TreeOk
    <3>2. QED
      BY <3>1, Sizes DEF Frame
  <2>3. CASE W(m, w, l - 1) # W(m, v, d - 1)
    BY <2>2, <2>3 DEF EntrySet
  <2>4. CASE W(m, w, l - 1) = W(m, v, d - 1)
    <3>1. l - 1 = d - 1 /\ Prefix(w, l - 1) = Prefix(v, d - 1)
      BY <1>1, <2>1, <2>4 DEF TreeOk
    <3>2. l = d /\ Prefix(w, d) # Prefix(v, d)
      BY <2>1, <3>1, Sizes
    <3>3. Index(w, l) # Index(v, d) /\ Index(w, l) \in Slots
      BY <3>1, <3>2, SamePrefix, PrefixStep
    <3>4. QED
      BY <2>4, <3>3 DEF EntrySet
  <2>5. QED
    BY <2>3, <2>4
<1>2. QED
  BY <1>1, Elsewhere

(* To set an entry of a last table changes one page.                       *)
LEMMA LeafSets ==
  ASSUME NEW m, NEW n, TreeOk(m, n), NEW v \in Pages, W(m, v, Levels - 1) # Absent,
         NEW x \in Frame \cup {Absent}, v = KernelPage => x # Absent
  PROVE  \E z :
         /\ z = SetAt(m, W(m, v, Levels - 1), Index(v, Levels), x)
         /\ TreeOk(z, n)
         /\ \A w \in Pages : \A l \in 0 .. Levels - 1 : W(z, w, l) = W(m, w, l)
         /\ \A w \in Pages \ {v} : W(z, w, Levels) = W(m, w, Levels)
         /\ W(z, v, Levels) = x
<1> DEFINE f == W(m, v, Levels - 1)
           i == Index(v, Levels)
<1>1. f \in Frame /\ f \in Nat /\ i \in Slots
  <2>1. n \in Nat /\ n <= LastFrame + 1 /\ f \in 1 .. n - 1
    BY Sizes DEF TreeOk
  <2>2. i \in Slots
    BY Sizes, PrefixStep
  <2>3. QED
    BY <2>1, <2>2, Sizes DEF Frame
<1>2. m \in [Frame -> Words] /\ m[f] \in Words /\ x \in -2 .. LastFrame
  BY <1>1, Sizes DEF TreeOk, Frame, Absent
<1>3. PICK z : z = SetAt(m, f, i, x)
  OBVIOUS
<1> HIDE DEF f, i
<1>4. [m[f] EXCEPT ![i] = x] \in Words
  BY <1>1, <1>2 DEF Words
<1>5. z \in [Frame -> Words] /\ z[f] = [m[f] EXCEPT ![i] = x] /\ \A g \in Frame \ {f} : z[g] = m[g]
  BY <1>1, <1>2, <1>3, <1>4 DEF SetAt
<1>6. z[f][i] = x /\ \A k \in Slots \ {i} : z[f][k] = m[f][k]
  BY <1>1, <1>2, <1>5 DEF Words
<1>7. ASSUME NEW w \in Pages, NEW j \in 0 .. Levels, w # v \/ j < Levels
      PROVE  \A l \in 0 .. j : W(z, w, l) = W(m, w, l)
  <2>1. j < Levels \/ Prefix(w, Levels) # Prefix(v, Levels)
    BY <1>7, PrefixEnds
  <2>2. EntrySet(m, z, W(m, v, Levels - 1), Index(v, Levels))
    BY <1>5, <1>6 DEF f, i, EntrySet
  <2>3. Levels \in 1 .. Levels
    BY Sizes
  <2> HIDE DEF TreeOk
  <2>4. QED
    BY <2>1, <2>2, <2>3, OtherPages
<1>8. /\ \A l \in 0 .. Levels - 1 : l \in 0 .. Levels
      /\ Levels \in 0 .. Levels /\ Levels - 1 \in 0 .. Levels - 1 /\ Levels - 1 < Levels
      /\ Levels - 1 \in 0 .. Levels
  BY Sizes
<1>9. \A w \in Pages : \A l \in 0 .. Levels - 1 : W(z, w, l) = W(m, w, l)
  BY <1>7, <1>8
<1>10. \A w \in Pages \ {v} : W(z, w, Levels) = W(m, w, Levels)
  BY <1>7, <1>8
<1>11. W(z, v, Levels) = x
  <2>1. W(z, v, Levels) = Follow(z, W(z, v, Levels - 1), v, Levels)
    BY WStep, Sizes
  <2>2. W(z, v, Levels - 1) = f
    BY <1>8, <1>9 DEF f
  <2>3. QED
    BY <1>1, <1>6, <2>1, <2>2 DEF Follow, i
<1>12. TreeOk(z, n)
  <2>1. n \in n .. LastFrame + 1
    BY Sizes DEF TreeOk
  <2>2. \A w \in Pages : W(z, w, Levels) \in Frame \cup {Absent}
    BY <1>10, <1>11 DEF TreeOk
  <2>3. W(z, KernelPage, Levels) # Absent
    <3>1. CASE v = KernelPage
      BY <1>11, <3>1
    <3>2. CASE v # KernelPage
      BY <1>10, <3>2, Sizes DEF TreeOk
    <3>3. QED
      BY <3>1, <3>2
  <2>4. QED
    BY <1>5, <1>9, <2>1, <2>2, <2>3, SameTree
<1>13. QED
  BY <1>3, <1>9, <1>10, <1>11, <1>12 DEF f, i

(* The window is an entry of the last table of its page.                   *)
LEMMA WindowIs ==
  ASSUME NEW m, NEW n, TreeOk(m, n)
  PROVE  /\ Window(m) = W(m, KernelPage, Levels)
         /\ \A x \in Frame : \E z :
              /\ z = SetAt(m, KPT0_0, 0, x)
              /\ TreeOk(z, n) /\ Window(z) = x
              /\ \A w \in Pages : \A l \in 0 .. Levels - 1 : W(z, w, l) = W(m, w, l)
              /\ \A w \in Pages \ {KernelPage} : W(z, w, Levels) = W(m, w, Levels)
<1>1. KernelPage \in Pages /\ Index(KernelPage, Levels) = 0 /\ Levels \in 2 .. Levels
  BY Sizes, KernelIndexes
<1>2. \A z : TreeOk(z, n) => Window(z) = W(z, KernelPage, Levels)
  <2>1. SUFFICES ASSUME NEW z, TreeOk(z, n)
                 PROVE  Window(z) = W(z, KernelPage, Levels)
    OBVIOUS
  <2>2. W(z, KernelPage, Levels) = Follow(z, W(z, KernelPage, Levels - 1), KernelPage, Levels)
    BY WStep, Sizes
  <2>3. W(z, KernelPage, Levels - 1) = KPT0_0 /\ ~(KPT0_0 < 0)
    BY <2>1, Sizes DEF TreeOk
  <2>4. QED
    BY <1>1, <2>2, <2>3 DEF Follow, Window
<1>3. ASSUME NEW x \in Frame
      PROVE  \E z :
               /\ z = SetAt(m, KPT0_0, 0, x)
               /\ TreeOk(z, n) /\ Window(z) = x
               /\ \A w \in Pages : \A l \in 0 .. Levels - 1 : W(z, w, l) = W(m, w, l)
               /\ \A w \in Pages \ {KernelPage} : W(z, w, Levels) = W(m, w, Levels)
  <2>1. /\ W(m, KernelPage, Levels - 1) = KPT0_0 /\ W(m, KernelPage, Levels - 1) # Absent
        /\ x # Absent /\ x \in Frame \cup {Absent}
    BY Sizes DEF TreeOk, Absent, Frame
  <2>2. PICK z :
          /\ z = SetAt(m, W(m, KernelPage, Levels - 1), Index(KernelPage, Levels), x)
          /\ TreeOk(z, n) /\ W(z, KernelPage, Levels) = x
          /\ \A w \in Pages : \A l \in 0 .. Levels - 1 : W(z, w, l) = W(m, w, l)
          /\ \A w \in Pages \ {KernelPage} : W(z, w, Levels) = W(m, w, Levels)
    BY <1>1, <2>1, LeafSets
  <2>3. Window(z) = x /\ z = SetAt(m, KPT0_0, 0, x)
    BY <1>1, <1>2, <2>1, <2>2
  <2>4. QED
    BY <2>2, <2>3
<1>4. QED
  BY <1>2, <1>3

(* A table that is made is found by the pages below it, and nothing else   *)
(* is.                                                                     *)
LEMMA LinkSets ==
  ASSUME NEW m, NEW n, TreeOk(m, n), n <= LastFrame, m[n] = Filled(Absent),
         NEW v \in Pages, NEW d \in 1 .. Levels - 1,
         W(m, v, d - 1) # Absent, W(m, v, d) = Absent
  PROVE  \E z :
         /\ z = SetAt(m, W(m, v, d - 1), Index(v, d), n)
         /\ TreeOk(z, n + 1) /\ W(z, v, d) = n
         /\ \A w \in Pages : \A l \in 0 .. Levels - 1 : W(z, w, l) = W(m, w, l) \/ W(z, w, l) = n
         /\ \A w \in Pages : W(z, w, Levels) = W(m, w, Levels)
<1> DEFINE f == W(m, v, d - 1)
           i == Index(v, d)
<1>0. /\ n \in 4 .. LastFrame /\ n \in Frame /\ LastFrame \in Nat /\ Levels \in Nat /\ Levels >= 2
      /\ d \in 1 .. Levels /\ d - 1 \in 0 .. Levels - 1 /\ d \in 0 .. Levels - 1
      /\ Levels \in 0 .. Levels /\ Levels \in 1 .. Levels
      /\ KernelPage \in Pages /\ Levels - 1 \in 0 .. Levels - 1
  BY Sizes DEF TreeOk, Frame
<1>1. f \in Frame /\ f \in Nat /\ i \in Slots /\ f # n
  <2>1. f \in 1 .. n - 1
    BY <1>0 DEF TreeOk
  <2>2. i \in Slots
    BY <1>0, PrefixStep
  <2>3. QED
    BY <1>0, <2>1, <2>2 DEF Frame
<1>2. m \in [Frame -> Words] /\ m[f] \in Words /\ n \in -2 .. LastFrame
  BY <1>0, <1>1 DEF TreeOk
<1>3. PICK z : z = SetAt(m, f, i, n)
  OBVIOUS
<1> HIDE DEF f, i
<1>4. [m[f] EXCEPT ![i] = n] \in Words
  BY <1>1, <1>2 DEF Words
<1>5. z \in [Frame -> Words] /\ z[f] = [m[f] EXCEPT ![i] = n] /\ \A g \in Frame \ {f} : z[g] = m[g]
  BY <1>1, <1>2, <1>3, <1>4 DEF SetAt
<1>6. z[f][i] = n /\ \A k \in Slots \ {i} : z[f][k] = m[f][k]
  BY <1>1, <1>2, <1>5 DEF Words
<1>7. ASSUME NEW w \in Pages, NEW j \in 0 .. Levels, j < d \/ Prefix(w, d) # Prefix(v, d)
      PROVE  \A l \in 0 .. j : W(z, w, l) = W(m, w, l)
  <2>1. EntrySet(m, z, W(m, v, d - 1), Index(v, d))
    BY <1>5, <1>6 DEF f, i, EntrySet
  <2>2. d \in 1 .. Levels /\ W(m, v, d - 1) # Absent
    BY <1>0
  <2>3. QED
    BY <1>7, <2>1, <2>2, OtherPages
<1>8. ASSUME NEW w \in Pages, Prefix(w, d) = Prefix(v, d)
      PROVE  /\ \A l \in 0 .. d - 1 : W(z, w, l) = W(m, w, l)
             /\ W(z, w, d) = n
             /\ \A l \in d + 1 .. Levels : W(z, w, l) = Absent
             /\ \A l \in d .. Levels : W(m, w, l) = Absent
  <2>1. \A l \in 0 .. d - 1 : W(z, w, l) = W(m, w, l)
    <3>1. d - 1 \in 0 .. Levels /\ d - 1 < d
      BY <1>0
    <3>2. QED
      BY <1>7, <3>1
  <2>2. d \in 0 .. Levels /\ d \in 0 .. d /\ d - 1 \in 0 .. d /\ d - 1 \in 0 .. d - 1
    BY <1>0
  <2>3. W(m, w, d - 1) = f /\ W(m, w, d) = Absent
    BY <1>8, <2>2, SharedTables DEF f
  <2>4. Index(w, d) = i
    BY <1>0, <1>8, SamePrefix DEF i
  <2>5. W(z, w, d) = n
    <3>1. W(z, w, d) = Follow(z, W(z, w, d - 1), w, d)
      BY <1>0, WStep
    <3>2. W(z, w, d - 1) = f
      BY <2>1, <2>2, <2>3
    <3>3. QED
      BY <1>1, <1>6, <2>4, <3>1, <3>2 DEF Follow
  <2>6. W(z, w, d + 1) = Absent
    <3>1. d + 1 \in 1 .. Levels /\ d + 1 - 1 = d
      BY <1>0
    <3>2. W(z, w, d + 1) = Follow(z, n, w, d + 1)
      <4>1. PICK e \in 1 .. Levels : e = d + 1 /\ e - 1 = d
        BY <3>1
      <4>2. W(z, w, e) = Follow(z, W(z, w, e - 1), w, e)
        BY WStep
      <4>3. QED
        BY <2>5, <4>1, <4>2
    <3>3. z[n] = Filled(Absent) /\ Index(w, d + 1) \in 0 .. Entries - 1
      BY <1>0, <1>1, <1>5, <3>1, PrefixStep DEF Slots
    <3>4. z[n][Index(w, d + 1)] = Absent
      BY <3>3 DEF Filled
    <3>5. ~(n < 0)
      BY <1>0
    <3>6. QED
      BY <3>2, <3>4, <3>5 DEF Follow
  <2>7. \A l \in d + 1 .. Levels : W(z, w, l) = Absent
    <3>1. d + 1 \in 0 .. Levels
      BY <1>0
    <3>2. QED
      BY <2>6, <3>1, AbsentBelow
  <2>8. \A l \in d .. Levels : W(m, w, l) = Absent
    BY <2>2, <2>3, AbsentBelow
  <2>9. QED
    BY <2>1, <2>5, <2>7, <2>8
<1>9. ASSUME NEW w \in Pages, NEW l \in 0 .. Levels - 1
      PROVE  \/ W(z, w, l) = W(m, w, l)
             \/ W(z, w, l) = n /\ l = d /\ Prefix(w, d) = Prefix(v, d)
  <2>1. CASE Prefix(w, d) = Prefix(v, d)
    <3>1. l \in 0 .. d - 1 \/ l = d \/ (l \in d + 1 .. Levels /\ l \in d .. Levels)
      BY <1>0
    <3>2. QED
      BY <1>8, <2>1, <3>1
  <2>2. CASE Prefix(w, d) # Prefix(v, d)
    <3>1. l \in 0 .. Levels
      BY <1>0
    <3>2. QED
      BY <1>0, <1>7, <2>2, <3>1
  <2>3. QED
    BY <2>1, <2>2
<1>10. ASSUME NEW w \in Pages
       PROVE  W(z, w, Levels) = W(m, w, Levels)
  <2>1. CASE Prefix(w, d) = Prefix(v, d)
    <3>1. Levels \in d + 1 .. Levels /\ Levels \in d .. Levels
      BY <1>0
    <3>2. QED
      BY <1>8, <2>1, <3>1
  <2>2. CASE Prefix(w, d) # Prefix(v, d)
    BY <1>0, <1>7, <2>2
  <2>3. QED
    BY <2>1, <2>2
<1>11. TreeOk(z, n + 1)
  <2>1. n + 1 \in FirstFrame .. LastFrame + 1
    BY <1>0, Sizes DEF TreeOk
  <2>2. ASSUME NEW w \in Pages, NEW l \in 0 .. Levels - 1
        PROVE  W(z, w, l) = Absent \/ W(z, w, l) \in 1 .. n + 1 - 1
    <3>1. W(m, w, l) = Absent \/ W(m, w, l) \in 1 .. n - 1
      BY DEF TreeOk
    <3>2. QED
      BY <1>0, <1>9, <3>1
  <2>3. ASSUME NEW u \in Pages, NEW w \in Pages, NEW k \in 0 .. Levels - 1, NEW l \in 0 .. Levels - 1,
               W(z, u, k) = W(z, w, l), W(z, u, k) # Absent
        PROVE  k = l /\ Prefix(u, k) = Prefix(w, k)
    <3>1. /\ W(m, u, k) = Absent \/ W(m, u, k) \in 1 .. n - 1
          /\ W(m, w, l) = Absent \/ W(m, w, l) \in 1 .. n - 1
          /\ n \notin 1 .. n - 1 /\ n # Absent
      BY <1>0 DEF TreeOk, Absent
    <3>2. CASE W(z, u, k) = n
      <4>1. k = d /\ Prefix(u, d) = Prefix(v, d)
        BY <1>9, <3>1, <3>2
      <4>2. l = d /\ Prefix(w, d) = Prefix(v, d)
        BY <1>9, <2>3, <3>1, <3>2
      <4>3. QED
        BY <4>1, <4>2
    <3>3. CASE W(z, u, k) # n
      <4>1. W(m, u, k) = W(m, w, l) /\ W(m, u, k) # Absent
        BY <1>9, <2>3, <3>3
      <4>2. QED
        BY <4>1 DEF TreeOk
    <3>4. QED
      BY <3>2, <3>3
  <2>4. W(z, KernelPage, Levels - 1) = KPT0_0
    <3>1. W(m, KernelPage, Levels - 1) = KPT0_0 /\ KPT0_0 # Absent
      BY Sizes DEF TreeOk, Absent
    <3>2. Levels - 1 \in d .. Levels
      BY <1>0
    <3>3. Prefix(KernelPage, d) # Prefix(v, d)
      BY <1>0, <1>8, <3>1, <3>2
    <3>4. QED
      BY <1>0, <1>9, <3>1, <3>3
  <2>5. \A w \in Pages : W(z, w, Levels) \in Frame \cup {Absent}
    BY <1>10 DEF TreeOk
  <2>6. W(z, KernelPage, Levels) # Absent
    BY <1>0, <1>10 DEF TreeOk
  <2>7. QED
    BY <1>5, <2>1, <2>2, <2>3, <2>4, <2>5, <2>6 DEF TreeOk
<1>12. W(z, v, d) = n
  BY <1>8
<1>13. QED
  BY <1>3, <1>9, <1>10, <1>11, <1>12 DEF f, i

(***************************************************************************)
(* The handlers' states.                                                   *)
(***************************************************************************)

State(m, n, c, k, o, b, t) ==
  [mem |-> m, next |-> n, code |-> c, stack |-> k, kobjs |-> o, short |-> b, torn |-> t]
IsState(s) == s = State(s.mem, s.next, s.code, s.stack, s.kobjs, s.short, s.torn)

(* A handler leaves what is not its own; a shortage is not forgotten.      *)
Kept(s, r) ==
  /\ IsState(r)
  /\ r.code = s.code /\ r.stack = s.stack /\ r.kobjs = s.kobjs /\ r.torn = s.torn
  /\ ~r.short => ~s.short

(* The tree only grows, into frames that were not handed out before.       *)
Grown(s, r) ==
  /\ TreeOk(r.mem, r.next) /\ r.next \in s.next .. LastFrame + 1
  /\ \A w \in Pages : \A l \in 0 .. Levels - 1 :
       W(r.mem, w, l) = W(s.mem, w, l) \/ W(r.mem, w, l) \in s.next .. r.next - 1

(* The parts of a state.                                                   *)
LEMMA StateFields ==
  ASSUME NEW m, NEW n, NEW c, NEW k, NEW o, NEW b, NEW t
  PROVE  /\ IsState(State(m, n, c, k, o, b, t))
         /\ State(m, n, c, k, o, b, t).mem = m /\ State(m, n, c, k, o, b, t).next = n
         /\ State(m, n, c, k, o, b, t).code = c /\ State(m, n, c, k, o, b, t).stack = k
         /\ State(m, n, c, k, o, b, t).kobjs = o /\ State(m, n, c, k, o, b, t).short = b
         /\ State(m, n, c, k, o, b, t).torn = t
BY DEF State, IsState

(* An entry of a table is written.                                         *)
LEMMA EntryPut ==
  ASSUME NEW s, IsState(s), NEW f, NEW i, NEW x
  PROVE  PutEntry(s, f, i, x)
           = State(SetAt(s.mem, f, i, x), s.next, s.code, s.stack, s.kobjs, s.short, s.torn)
BY DEF State, IsState, SetAt, PutEntry

(* A frame is written.                                                     *)
LEMMA FramePut ==
  ASSUME NEW s, IsState(s), NEW f, NEW x
  PROVE  PutFrame(s, f, x)
           = State([s.mem EXCEPT ![f] = x], s.next, s.code, s.stack, s.kobjs, s.short, s.torn)
BY DEF State, IsState, PutFrame

(* A copy is marked as torn.                                               *)
LEMMA TornPut ==
  ASSUME NEW s, IsState(s), NEW x
  PROVE  PutTorn(s, x) = State(s.mem, s.next, s.code, s.stack, s.kobjs, s.short, x)
BY DEF State, IsState, PutTorn

(* The window is moved.                                                    *)
LEMMA ThroughIs ==
  ASSUME NEW s, IsState(s), NEW x
  PROVE  Through(s, x)
           = State(SetAt(s.mem, KPT0_0, 0, x), s.next, s.code, s.stack, s.kobjs, s.short, s.torn)
BY DEF State, IsState, SetAt, Through

(* A tree that grew and grew again has grown.                              *)
LEMMA GrownTwice ==
  ASSUME NEW s, NEW r, NEW q, s.next \in Nat, Grown(s, r), Grown(r, q)
  PROVE  Grown(s, q)
<1>1. /\ r.next \in s.next .. LastFrame + 1 /\ q.next \in r.next .. LastFrame + 1
      /\ LastFrame \in Nat
  BY Sizes DEF Grown
<1>2. q.next \in s.next .. LastFrame + 1
  BY <1>1
<1>3. ASSUME NEW w \in Pages, NEW l \in 0 .. Levels - 1
      PROVE  W(q.mem, w, l) = W(s.mem, w, l) \/ W(q.mem, w, l) \in s.next .. q.next - 1
  <2>1. /\ W(r.mem, w, l) = W(s.mem, w, l) \/ W(r.mem, w, l) \in s.next .. r.next - 1
        /\ W(q.mem, w, l) = W(r.mem, w, l) \/ W(q.mem, w, l) \in r.next .. q.next - 1
    BY DEF Grown
  <2>2. QED
    BY <1>1, <2>1
<1>4. QED
  BY <1>2, <1>3 DEF Grown

(* A frame is allocated, or missed.                                        *)
LEMMA AllocatedIs ==
  ASSUME NEW s, IsState(s)
  PROVE  /\ s.next <= LastFrame =>
              /\ Allocated(s) = State(s.mem, s.next + 1, s.code, s.stack, s.kobjs, s.short, s.torn)
              /\ NextFrame(s) = s.next
         /\ ~(s.next <= LastFrame) =>
              Allocated(s) = State(s.mem, s.next, s.code, s.stack, s.kobjs, TRUE, s.torn)
BY DEF Allocated, NextFrame, IsState, State

(***************************************************************************)
(* Walking down the tree.                                                  *)
(***************************************************************************)

(* What is done to memory when a table is made, in the order of the code   *)
(* and in the order of the lemmas.                                         *)
LEMMA TableWritten ==
  ASSUME NEW m \in [Frame -> Words], NEW p \in Frame, NEW i \in Slots, NEW f \in Frame,
         NEW row \in Words, p # f, KPT0_0 # f
  PROVE  [SetAt(SetAt(m, p, i, f), KPT0_0, 0, f) EXCEPT ![f] = row]
           = SetAt(SetAt([m EXCEPT ![f] = row], p, i, f), KPT0_0, 0, f)
<1>1. DOMAIN m = Frame
  OBVIOUS
<1>2. QED
  BY <1>1 DEF SetAt

(* A missing table is made: the page has it now, and no page is mapped     *)
(* anew.                                                                   *)
LEMMA TableMade ==
  ASSUME NEW s, IsState(s), TreeOk(s.mem, s.next), s.next <= LastFrame,
         NEW v \in Pages, NEW d \in 1 .. Levels - 1,
         Parent(s, d) = W(s.mem, v, d - 1), W(s.mem, v, d - 1) # Absent, W(s.mem, v, d) = Absent
  PROVE  \E r :
         /\ r = NewTable(s, v, d)
         /\ Kept(s, r) /\ Grown(s, r) /\ W(r.mem, v, d) = s.next /\ Window(r.mem) = s.next
         /\ \A w \in Pages \ {KernelPage} : W(r.mem, w, Levels) = W(s.mem, w, Levels)
<1> DEFINE f == s.next
           p == W(s.mem, v, d - 1)
           i == Index(v, d)
<1>1. /\ f \in 4 .. LastFrame /\ f \in Frame /\ f # KPT0_0 /\ f \in Nat /\ f # Absent
      /\ LastFrame \in Nat /\ d \in 1 .. Levels
      /\ d - 1 \in 0 .. Levels - 1 /\ Levels \in Nat /\ d \in 0 .. Levels /\ d - 1 \in 0 .. Levels
      /\ Levels \in 0 .. Levels /\ d \in 0 .. Levels - 1
      /\ \A l \in 0 .. Levels - 1 : l \in 0 .. Levels
  BY Sizes, SMTT(40) DEF TreeOk, Frame, Absent
<1>2. \A w \in Pages : \A l \in 0 .. Levels - 1 : W(s.mem, w, l) # f
  BY <1>1 DEF TreeOk
<1>3. p \in Frame /\ p # f /\ i \in Slots
  BY <1>1, <1>2, PrefixStep DEF TreeOk, Frame
<1>4. PICK row \in Words : row = Filled(Absent)
  <2>1. -1 \in -2 .. LastFrame
    BY <1>1
  <2>2. Filled(Absent) \in Words
    BY <2>1 DEF Words, Filled, Absent, Slots
  <2>3. QED
    BY <2>2
<1>5. PICK y : y = [s.mem EXCEPT ![f] = row]
  OBVIOUS
<1>6. /\ TreeOk(y, f) /\ y[f] = row
      /\ \A w \in Pages : \A l \in 0 .. Levels : W(y, w, l) = W(s.mem, w, l)
  <2>1. y[f] = row
    BY <1>1, <1>5 DEF TreeOk
  <2>2. QED
    BY <1>1, <1>2, <1>5, <2>1, FillKeeps
<1>7. W(y, v, d - 1) = p /\ W(y, v, d) = Absent
  BY <1>1, <1>6
<1> HIDE DEF f, p, i
<1>8. PICK x :
        /\ x = SetAt(y, p, i, f)
        /\ TreeOk(x, f + 1) /\ W(x, v, d) = f
        /\ \A w \in Pages : \A l \in 0 .. Levels - 1 : W(x, w, l) = W(y, w, l) \/ W(x, w, l) = f
        /\ \A w \in Pages : W(x, w, Levels) = W(y, w, Levels)
  <2>1. f <= LastFrame /\ y[f] = Filled(Absent) /\ p # Absent
    BY <1>1, <1>4, <1>6 DEF p
  <2>2. QED
    BY <1>6, <1>7, <2>1, LinkSets DEF i
<1>9. PICK z :
        /\ z = SetAt(x, KPT0_0, 0, f)
        /\ TreeOk(z, f + 1) /\ Window(z) = f
        /\ \A w \in Pages : \A l \in 0 .. Levels - 1 : W(z, w, l) = W(x, w, l)
        /\ \A w \in Pages \ {KernelPage} : W(z, w, Levels) = W(x, w, Levels)
  BY <1>1, <1>8, WindowIs
<1>10. PICK r : r = State(z, f + 1, s.code, s.stack, s.kobjs, s.short, s.torn)
  OBVIOUS
<1>11. r = NewTable(s, v, d)
  <2>1. PICK a : a = Allocated(s) /\ a = State(s.mem, f + 1, s.code, s.stack, s.kobjs, s.short, s.torn)
    BY <1>1, AllocatedIs DEF f
  <2>2. PICK b : /\ b = PutEntry(a, p, i, f)
                 /\ b = State(SetAt(s.mem, p, i, f), f + 1, s.code, s.stack, s.kobjs, s.short, s.torn)
    BY <2>1, StateFields, EntryPut
  <2>3. PICK c : /\ c = Through(b, f)
                 /\ c = State(SetAt(SetAt(s.mem, p, i, f), KPT0_0, 0, f),
                              f + 1, s.code, s.stack, s.kobjs, s.short, s.torn)
    BY <2>2, StateFields, ThroughIs
  <2>4. PutFrame(c, f, row)
          = State([SetAt(SetAt(s.mem, p, i, f), KPT0_0, 0, f) EXCEPT ![f] = row],
                  f + 1, s.code, s.stack, s.kobjs, s.short, s.torn)
    BY <2>3, StateFields, FramePut
  <2>5. s.mem \in [Frame -> Words]
    BY DEF TreeOk
  <2>6. [SetAt(SetAt(s.mem, p, i, f), KPT0_0, 0, f) EXCEPT ![f] = row] = z
    BY <1>1, <1>3, <1>5, <1>8, <1>9, <2>5, TableWritten
  <2>7. NextFrame(s) = f /\ Parent(s, d) = p /\ Index(v, d) = i
    BY <1>1, AllocatedIs DEF f, p, i
  <2>8. NewTable(s, v, d) = PutFrame(c, f, row)
    BY <1>4, <2>1, <2>2, <2>3, <2>7 DEF NewTable, PutEntry, PutFrame
  <2>9. QED
    BY <1>10, <2>4, <2>6, <2>8
<1>12. Kept(s, r) /\ r.mem = z /\ r.next = f + 1
  BY <1>10, StateFields DEF Kept
<1>13. Grown(s, r)
  <2>1. f + 1 \in f .. LastFrame + 1 /\ f \in f .. f + 1 - 1
    BY <1>1
  <2>2. ASSUME NEW w \in Pages, NEW l \in 0 .. Levels - 1
        PROVE  W(z, w, l) = W(s.mem, w, l) \/ W(z, w, l) = f
    BY <1>1, <1>6, <1>8, <1>9
  <2>3. QED
    BY <1>9, <1>12, <2>1, <2>2 DEF Grown, f
<1>14. W(z, v, d) = f
  BY <1>1, <1>8, <1>9
<1>15. \A w \in Pages \ {KernelPage} : W(z, w, Levels) = W(s.mem, w, Levels)
  BY <1>1, <1>6, <1>8, <1>9
<1>16. QED
  BY <1>9, <1>11, <1>12, <1>13, <1>14, <1>15 DEF f

(* What two steps keep both keep.                                          *)
LEMMA KeptTwice ==
  ASSUME NEW s, NEW r, NEW q, Kept(s, r), Kept(r, q)
  PROVE  Kept(s, q)
BY DEF Kept

(* Writing memory keeps the rest of the state.                             *)
LEMMA PutKept ==
  ASSUME NEW s, IsState(s), NEW f, NEW i, NEW x
  PROVE  Kept(s, PutEntry(s, f, i, x)) /\ Kept(s, PutFrame(s, f, x)) /\ Kept(s, Through(s, x))
<1>1. PICK r : r = PutEntry(s, f, i, x)
  OBVIOUS
<1>2. Kept(s, r)
  BY <1>1, EntryPut, StateFields DEF Kept
<1>3. PICK q : q = PutFrame(s, f, x)
  OBVIOUS
<1>4. Kept(s, q)
  <2>1. PICK m : m = [s.mem EXCEPT ![f] = x]
    OBVIOUS
  <2>2. q = State(m, s.next, s.code, s.stack, s.kobjs, s.short, s.torn)
    BY <1>3, <2>1, FramePut
  <2>3. QED
    BY <2>2, StateFields DEF Kept
<1>5. PICK p : p = Through(s, x)
  OBVIOUS
<1>6. Kept(s, p)
  BY <1>5, ThroughIs, StateFields DEF Kept
<1>7. QED
  BY <1>1, <1>2, <1>3, <1>4, <1>5, <1>6

(* An allocation keeps the rest; unless something ran short there was a    *)
(* frame.                                                                  *)
LEMMA AllocatedKept ==
  ASSUME NEW s, IsState(s)
  PROVE  /\ Kept(s, Allocated(s))
         /\ ~Allocated(s).short => s.next <= LastFrame
<1>1. CASE s.next <= LastFrame
  <2>1. PICK a : a = Allocated(s) /\ a = State(s.mem, s.next + 1, s.code, s.stack, s.kobjs, s.short, s.torn)
    BY <1>1, AllocatedIs
  <2>2. Kept(s, a)
    BY <2>1, StateFields DEF Kept
  <2>3. QED
    BY <1>1, <2>1, <2>2
<1>2. CASE ~(s.next <= LastFrame)
  <2>1. PICK a : a = Allocated(s) /\ a = State(s.mem, s.next, s.code, s.stack, s.kobjs, TRUE, s.torn)
    BY <1>2, AllocatedIs
  <2>0. PICK b : a = State(s.mem, s.next, s.code, s.stack, s.kobjs, b, s.torn)
    BY <2>1
  <2>2. IsState(a) /\ a.code = s.code /\ a.stack = s.stack /\ a.kobjs = s.kobjs /\ a.torn = s.torn
    BY <2>0, StateFields
  <2>3. a.short
    BY <2>1 DEF State
  <2>4. QED
    BY <2>1, <2>2, <2>3 DEF Kept
<1>3. QED
  BY <1>1, <1>2

(* Whatever the tables hold, looking for one leaves the rest of the state. *)
LEMMA CheckKept ==
  ASSUME NEW s, IsState(s), NEW v, NEW d
  PROVE  /\ Kept(s, check_table(s, v, d))
         /\ s.mem[Parent(s, d)][Index(v, d)] = Absent /\ ~check_table(s, v, d).short
              => s.next <= LastFrame
<1> DEFINE e == s.mem[Parent(s, d)][Index(v, d)]
           f == NextFrame(s)
<1>1. CASE e = Absent
  <2>1. PICK a : a = Allocated(s) /\ Kept(s, a) /\ (~a.short => s.next <= LastFrame)
    BY AllocatedKept
  <2>2. PICK b : b = PutEntry(a, Parent(s, d), Index(v, d), f) /\ Kept(a, b)
    BY <2>1, PutKept DEF Kept
  <2>3. PICK c : c = Through(b, f) /\ Kept(b, c)
    BY <2>2, PutKept DEF Kept
  <2>4. PICK r : r = PutFrame(c, f, Filled(Absent)) /\ Kept(c, r)
    BY <2>3, PutKept DEF Kept
  <2>5. Kept(a, r) /\ Kept(s, r)
    BY <2>1, <2>2, <2>3, <2>4, KeptTwice
  <2>6. r = NewTable(s, v, d)
    BY <2>1, <2>2, <2>3, <2>4 DEF NewTable, PutEntry, PutFrame
  <2>7. r = check_table(s, v, d)
    BY <1>1, <2>6 DEF check_table
  <2>8. ~r.short => s.next <= LastFrame
    BY <2>1, <2>5 DEF Kept
  <2>9. QED
    BY <2>5, <2>7, <2>8
<1>2. CASE e # Absent
  <2>1. check_table(s, v, d) = Through(s, e)
    BY <1>2 DEF check_table
  <2>2. QED
    BY <1>2, <2>1, PutKept
<1>3. QED
  BY <1>1, <1>2

(* The table that is looked for is in the window then, if there was a      *)
(* frame for it.                                                           *)
LEMMA CheckFinds ==
  ASSUME NEW s, IsState(s), TreeOk(s.mem, s.next), NEW v \in Pages, NEW d \in 1 .. Levels - 1,
         Parent(s, d) = W(s.mem, v, d - 1), W(s.mem, v, d - 1) # Absent,
         ~check_table(s, v, d).short
  PROVE  \E r :
         /\ r = check_table(s, v, d) /\ Grown(s, r)
         /\ Window(r.mem) = W(r.mem, v, d) /\ W(r.mem, v, d) # Absent
         /\ \A w \in Pages \ {KernelPage} : W(r.mem, w, Levels) = W(s.mem, w, Levels)
<1>0. /\ d \in 1 .. Levels /\ d \in 0 .. Levels - 1 /\ d - 1 \in 0 .. Levels - 1
      /\ s.next \in Nat /\ s.next # Absent /\ LastFrame \in Nat /\ s.next <= LastFrame + 1
  BY Sizes DEF TreeOk, Absent
<1>1. s.mem[Parent(s, d)][Index(v, d)] = W(s.mem, v, d)
  <2>1. W(s.mem, v, d) = Follow(s.mem, W(s.mem, v, d - 1), v, d)
    BY <1>0, WStep
  <2>2. W(s.mem, v, d - 1) \in 1 .. s.next - 1
    BY <1>0 DEF TreeOk
  <2>3. ~(W(s.mem, v, d - 1) < 0)
    BY <1>0, <2>2
  <2>4. QED
    BY <2>1, <2>3 DEF Follow
<1>2. CASE W(s.mem, v, d) = Absent
  <2>1. s.next <= LastFrame
    BY <1>1, <1>2, CheckKept
  <2>2. check_table(s, v, d) = NewTable(s, v, d)
    BY <1>1, <1>2 DEF check_table
  <2>3. PICK r :
          /\ r = NewTable(s, v, d)
          /\ Kept(s, r) /\ Grown(s, r) /\ W(r.mem, v, d) = s.next /\ Window(r.mem) = s.next
          /\ \A w \in Pages \ {KernelPage} : W(r.mem, w, Levels) = W(s.mem, w, Levels)
    BY <1>2, <2>1, TableMade
  <2>4. QED
    BY <1>0, <2>2, <2>3
<1>3. CASE W(s.mem, v, d) # Absent
  <2>1. PICK e : e = W(s.mem, v, d)
    OBVIOUS
  <2>2. e \in Frame
    <3>1. e \in 1 .. s.next - 1
      BY <1>0, <1>3, <2>1 DEF TreeOk
    <3>2. QED
      BY <1>0, <3>1 DEF Frame
  <2>3. check_table(s, v, d) = Through(s, e)
    BY <1>1, <1>3, <2>1 DEF check_table
  <2>4. PICK z :
          /\ z = SetAt(s.mem, KPT0_0, 0, e)
          /\ TreeOk(z, s.next) /\ Window(z) = e
          /\ \A w \in Pages : \A l \in 0 .. Levels - 1 : W(z, w, l) = W(s.mem, w, l)
          /\ \A w \in Pages \ {KernelPage} : W(z, w, Levels) = W(s.mem, w, Levels)
    BY <2>2, WindowIs
  <2>5. PICK r : r = Through(s, e)
    OBVIOUS
  <2>6. r.mem = z /\ r.next = s.next
    BY <2>4, <2>5, ThroughIs, StateFields
  <2>7. Grown(s, r)
    <3>1. s.next \in s.next .. LastFrame + 1
      BY <1>0
    <3>2. QED
      BY <2>4, <2>6, <3>1 DEF Grown
  <2>8. QED
    BY <1>0, <1>3, <2>1, <2>3, <2>4, <2>5, <2>6, <2>7
<1>4. QED
  BY <1>2, <1>3

(* A good tree that stays has grown by nothing.                            *)
LEMMA GrownNone ==
  ASSUME NEW s, TreeOk(s.mem, s.next)
  PROVE  Grown(s, s)
<1>1. s.next \in s.next .. LastFrame + 1
  BY Sizes DEF TreeOk
<1>2. QED
  BY <1>1 DEF Grown

(* set_pt_entry: one page is set, the others stay.                         *)
LEMMA EntryIsSet ==
  ASSUME NEW s, IsState(s), NEW v, NEW x
  PROVE  \E r :
         /\ r = set_pt_entry(s, v, x) /\ Kept(s, r)
         /\ /\ ~r.short /\ TreeOk(s.mem, s.next) /\ v \in Pages /\ x \in Frame \cup {Absent}
            /\ v = KernelPage => x # Absent
            => /\ Grown(s, r) /\ W(r.mem, v, Levels) = x
               /\ \A w \in Pages \ {v, KernelPage} : W(r.mem, w, Levels) = W(s.mem, w, Levels)
<1> DEFINE Good == TreeOk(s.mem, s.next) /\ v \in Pages
           Found(r, l) ==
             /\ Grown(s, r) /\ W(r.mem, v, l) # Absent
             /\ l # 0 => Window(r.mem) = W(r.mem, v, l)
             /\ \A w \in Pages \ {KernelPage} : W(r.mem, w, Levels) = W(s.mem, w, Levels)
<1>0. Levels \in Nat /\ Levels - 1 \in Nat /\ Levels - 1 # 0
  BY Sizes
<1>1. PICK t :
        /\ t[0] = s
        /\ \A l \in 1 .. Levels - 1 : t[l] = check_table(t[l - 1], v, l)
        /\ set_pt_entry(s, v, x) = PutEntry(t[Levels - 1], Window(t[Levels - 1].mem), Index(v, Levels), x)
  BY SetEntryIs
<1> DEFINE G == {l \in 0 .. Levels - 1 : Kept(s, t[l]) /\ (Good /\ ~t[l].short => Found(t[l], l))}
<1>2. 0 \in G
  <2>1. Kept(s, s)
    BY DEF Kept
  <2>2. Good => Found(s, 0)
    BY GrownNone, WStep DEF Root, Absent
  <2>3. QED
    BY <1>0, <1>1, <2>1, <2>2
<1>3. ASSUME NEW l \in 1 .. Levels - 1, l - 1 \in G
      PROVE  l \in G
  <2>1. PICK q : q = t[l - 1] /\ Kept(s, q) /\ (Good /\ ~q.short => Found(q, l - 1))
    BY <1>3
  <2>2. PICK r : r = check_table(q, v, l) /\ r = t[l]
    BY <1>1, <2>1
  <2>3. Kept(q, r) /\ Kept(s, r)
    <3>1. IsState(q)
      BY <2>1 DEF Kept
    <3>2. Kept(q, r)
      BY <2>2, <3>1, CheckKept
    <3>3. QED
      BY <2>1, <3>2, KeptTwice
  <2>4. ASSUME Good, ~r.short
        PROVE  Found(r, l)
    <3>1. ~q.short /\ IsState(q)
      BY <2>1, <2>3, <2>4 DEF Kept
    <3>2. Grown(s, q) /\ W(q.mem, v, l - 1) # Absent /\ TreeOk(q.mem, q.next)
      BY <2>1, <2>4, <3>1 DEF Grown
    <3>3. Parent(q, l) = W(q.mem, v, l - 1)
      <4>1. CASE l = 1
        BY <4>1, WStep DEF Parent
      <4>2. CASE l # 1
        BY <2>1, <2>4, <3>1, <4>2 DEF Parent
      <4>3. QED
        BY <4>1, <4>2
    <3>4. PICK p :
            /\ p = check_table(q, v, l) /\ Grown(q, p)
            /\ Window(p.mem) = W(p.mem, v, l) /\ W(p.mem, v, l) # Absent
            /\ \A w \in Pages \ {KernelPage} : W(p.mem, w, Levels) = W(q.mem, w, Levels)
      BY <2>2, <2>4, <3>1, <3>2, <3>3, CheckFinds
    <3>5. Grown(s, r)
      <4>1. s.next \in Nat
        BY <2>4, Sizes DEF TreeOk
      <4>2. QED
        BY <2>2, <3>2, <3>4, <4>1, GrownTwice
    <3>6. \A w \in Pages \ {KernelPage} : W(r.mem, w, Levels) = W(s.mem, w, Levels)
      BY <2>1, <2>2, <2>4, <3>1, <3>4
    <3>7. QED
      BY <2>2, <3>4, <3>5, <3>6
  <2>5. l \in 0 .. Levels - 1
    BY <1>0
  <2> HIDE DEF Good, Found
  <2>6. QED
    BY <2>2, <2>3, <2>4, <2>5
<1>4. Levels - 1 \in G
  <2> HIDE DEF G
  <2>1. \A l \in 0 .. Levels - 1 : l \in G
    BY <1>0, <1>2, <1>3, Upwards
  <2>2. QED
    BY <1>0, <2>1
<1>5. PICK q : q = t[Levels - 1] /\ Kept(s, q) /\ (Good /\ ~q.short => Found(q, Levels - 1))
  BY <1>4
<1>6. PICK r : r = PutEntry(q, Window(q.mem), Index(v, Levels), x) /\ r = set_pt_entry(s, v, x)
  BY <1>1, <1>5
<1>7. Kept(q, r) /\ Kept(s, r)
  <2>1. IsState(q)
    BY <1>5 DEF Kept
  <2>2. Kept(q, r)
    BY <1>6, <2>1, PutKept
  <2>3. QED
    BY <1>5, <2>2, KeptTwice
<1>8. ASSUME Good, ~r.short, x \in Frame \cup {Absent}, v = KernelPage => x # Absent
      PROVE  /\ Grown(s, r) /\ W(r.mem, v, Levels) = x
             /\ \A w \in Pages \ {v, KernelPage} : W(r.mem, w, Levels) = W(s.mem, w, Levels)
  <2>1. ~q.short /\ IsState(q)
    BY <1>5, <1>7, <1>8 DEF Kept
  <2>2. /\ Grown(s, q) /\ W(q.mem, v, Levels - 1) # Absent /\ TreeOk(q.mem, q.next)
        /\ Window(q.mem) = W(q.mem, v, Levels - 1)
        /\ \A w \in Pages \ {KernelPage} : W(q.mem, w, Levels) = W(s.mem, w, Levels)
    BY <1>0, <1>5, <1>8, <2>1 DEF Grown
  <2>3. PICK z :
          /\ z = SetAt(q.mem, W(q.mem, v, Levels - 1), Index(v, Levels), x)
          /\ TreeOk(z, q.next)
          /\ \A w \in Pages : \A l \in 0 .. Levels - 1 : W(z, w, l) = W(q.mem, w, l)
          /\ \A w \in Pages \ {v} : W(z, w, Levels) = W(q.mem, w, Levels)
          /\ W(z, v, Levels) = x
    BY <1>8, <2>2, LeafSets
  <2>4. r.mem = z /\ r.next = q.next
    <3>1. r = PutEntry(q, W(q.mem, v, Levels - 1), Index(v, Levels), x)
      BY <1>6, <2>2
    <3>2. r = State(z, q.next, q.code, q.stack, q.kobjs, q.short, q.torn)
      BY <2>1, <2>3, <3>1, EntryPut
    <3>3. QED
      BY <3>2, StateFields
  <2>5. Grown(q, r)
    <3>1. q.next \in q.next .. LastFrame + 1
      BY <2>2, Sizes DEF TreeOk
    <3>2. QED
      BY <2>3, <2>4, <3>1 DEF Grown
  <2>6. Grown(s, r)
    <3>1. s.next \in Nat
      BY <1>8, Sizes DEF TreeOk
    <3>2. QED
      BY <2>2, <2>5, <3>1, GrownTwice
  <2>7. QED
    BY <2>2, <2>3, <2>4, <2>6
<1>9. QED
  BY <1>6, <1>7, <1>8

(***************************************************************************)
(* Workspaces and the pages they list.                                     *)
(***************************************************************************)

Seg     == [v : Nat, f : Nat, n : Nat]
Mapping == [v : Int, f : Int]

(* The next frame, in a good tree, is a number within the bounds.          *)
LEMMA NextIs ==
  ASSUME NEW m, NEW n, TreeOk(m, n)
  PROVE  n \in Nat /\ n <= LastFrame + 1 /\ FirstFrame <= n /\ LastFrame \in Nat
BY Sizes DEF TreeOk

(* The members of a sequence and of two sequences put together.            *)
LEMMA RangeOf ==
  ASSUME NEW X, NEW s \in Seq(X), NEW t \in Seq(X)
  PROVE  /\ \A g : g \in Range(s \o t) <=> g \in Range(s) \/ g \in Range(t)
         /\ \A g : g \in Range(s) <=> \E i \in 1 .. Len(s) : g = s[i]
         /\ Range(s) \subseteq X
<1>1. DOMAIN s = 1 .. Len(s) /\ DOMAIN t = 1 .. Len(t) /\ DOMAIN (s \o t) = 1 .. Len(s) + Len(t)
      /\ Len(s) \in Nat /\ Len(t) \in Nat
  OBVIOUS
<1>2. \A g : g \in Range(s) <=> \E i \in 1 .. Len(s) : g = s[i]
  BY <1>1 DEF Range
<1>3. \A g : g \in Range(t) <=> \E i \in 1 .. Len(t) : g = t[i]
  BY <1>1 DEF Range
<1>4. \A g : g \in Range(s \o t) <=> \E i \in 1 .. Len(s) + Len(t) : g = (s \o t)[i]
  BY <1>1 DEF Range
<1>5. /\ \A i \in 1 .. Len(s) : (s \o t)[i] = s[i] /\ i \in 1 .. Len(s) + Len(t)
      /\ \A i \in 1 .. Len(t) : (s \o t)[Len(s) + i] = t[i] /\ Len(s) + i \in 1 .. Len(s) + Len(t)
  BY <1>1
<1>6. ASSUME NEW i \in 1 .. Len(s) + Len(t), i \notin 1 .. Len(s)
      PROVE  i - Len(s) \in 1 .. Len(t) /\ (s \o t)[i] = t[i - Len(s)]
  BY <1>1, <1>6
<1>7. ASSUME NEW g, g \in Range(s \o t)
      PROVE  g \in Range(s) \/ g \in Range(t)
  <2>1. PICK i \in 1 .. Len(s) + Len(t) : g = (s \o t)[i]
    BY <1>4, <1>7
  <2>2. QED
    BY <1>2, <1>3, <1>5, <1>6, <2>1
<1>8. ASSUME NEW g, g \in Range(s) \/ g \in Range(t)
      PROVE  g \in Range(s \o t)
  <2>1. CASE g \in Range(s)
    BY <1>2, <1>4, <1>5, <2>1
  <2>2. CASE g \in Range(t)
    BY <1>3, <1>4, <1>5, <2>2
  <2>3. QED
    BY <1>8, <2>1, <2>2
<1>9. Range(s) \subseteq X
  BY <1>2
<1>10. QED
  BY <1>2, <1>7, <1>8, <1>9

(* The pages of one segment.                                               *)
LEMMA SegmentPages ==
  ASSUME NEW g \in Seg
  PROVE  /\ [k \in 1 .. g.n |-> PageOf(g, k)] \in Seq(Mapping)
         /\ \A h : h \in Range([k \in 1 .. g.n |-> PageOf(g, k)]) <=> \E k \in 1 .. g.n : h = PageOf(g, k)
<1>1. g.v \in Int /\ g.f \in Int /\ g.n \in Nat
  BY DEF Seg
<1>2. \A k \in 1 .. g.n : PageOf(g, k) \in Mapping
  BY <1>1 DEF PageOf, Mapping
<1>3. [k \in 1 .. g.n |-> PageOf(g, k)] \in [1 .. g.n -> Mapping]
  BY <1>2
<1>4. QED
  BY <1>1, <1>3 DEF Range

(* A workspace lists the pages of its segments and nothing else.           *)
LEMMA Listing ==
  ASSUME NEW ws \in Seq(Seg)
  PROVE  /\ Listed(ws) \in Seq(Mapping)
         /\ \A g : g \in Range(Listed(ws)) <=>
                     \E i \in 1 .. Len(ws) : \E k \in 1 .. ws[i].n : g = PageOf(ws[i], k)
<1>1. PICK N \in Nat : N = Len(ws)
  OBVIOUS
<1>2. PICK t :
        /\ t[0] = <<>>
        /\ \A i \in 1 .. N : t[i] = t[i - 1] \o [k \in 1 .. ws[i].n |-> PageOf(ws[i], k)]
        /\ Listed(ws) = t[N]
  BY <1>1, ListedIs
<1> DEFINE Has(i, g) == \E j \in 1 .. i : \E k \in 1 .. ws[j].n : g = PageOf(ws[j], k)
           G == {i \in 0 .. N : t[i] \in Seq(Mapping) /\ \A g : g \in Range(t[i]) <=> Has(i, g)}
<1>3. 0 \in G
  <2>1. t[0] \in Seq(Mapping) /\ \A g : g \notin Range(t[0])
    BY <1>2 DEF Range
  <2>2. \A g : ~Has(0, g)
    OBVIOUS
  <2> HIDE DEF Has
  <2>3. QED
    BY <2>1, <2>2
<1>4. ASSUME NEW i \in 1 .. N, i - 1 \in G
      PROVE  i \in G
  <2>1. ws[i] \in Seg
    BY <1>1
  <2>2. PICK b : b = [k \in 1 .. ws[i].n |-> PageOf(ws[i], k)]
    OBVIOUS
  <2>3. b \in Seq(Mapping) /\ \A g : g \in Range(b) <=> \E k \in 1 .. ws[i].n : g = PageOf(ws[i], k)
    BY <2>1, <2>2, SegmentPages
  <2>4. PICK a : a = t[i - 1] /\ a \in Seq(Mapping) /\ \A g : g \in Range(a) <=> Has(i - 1, g)
    BY <1>4
  <2>5. t[i] = a \o b
    BY <1>2, <2>2, <2>4
  <2>6. a \o b \in Seq(Mapping)
    BY <2>3, <2>4
  <2>7. \A g : g \in Range(a \o b) <=> g \in Range(a) \/ g \in Range(b)
    BY <2>3, <2>4, RangeOf
  <2>8. \A g : Has(i, g) <=> Has(i - 1, g) \/ \E k \in 1 .. ws[i].n : g = PageOf(ws[i], k)
    <3>1. 1 .. i = (1 .. i - 1) \cup {i}
      OBVIOUS
    <3>2. QED
      BY <3>1, Zenon
  <2> HIDE DEF Has
  <2>9. \A g : g \in Range(t[i]) <=> Has(i, g)
    BY <2>3, <2>4, <2>5, <2>7, <2>8
  <2>10. i \in 0 .. N /\ t[i] \in Seq(Mapping)
    BY <2>5, <2>6
  <2>11. QED
    BY <2>9, <2>10, Zenon
<1>5. N \in G
  <2> HIDE DEF G
  <2>1. \A i \in 0 .. N : i \in G
    BY <1>3, <1>4, Upwards
  <2>2. QED
    BY <2>1
<1>6. Listed(ws) \in Seq(Mapping) /\ \A g : g \in Range(Listed(ws)) <=> Has(N, g)
  <2> HIDE DEF Has
  <2>1. QED
    BY <1>2, <1>5
<1>7. QED
  BY <1>1, <1>6

(* To take pages out is to set their entries to nothing.                   *)
LEMMA LeftIs ==
  ASSUME NEW pages \in Seq(Mapping)
  PROVE  /\ Left(pages) \in Seq(Mapping) /\ Len(Left(pages)) = Len(pages)
         /\ \A i \in 1 .. Len(pages) : Left(pages)[i].v = pages[i].v /\ Left(pages)[i].f = Absent
<1>1. Left(pages) = [i \in 1 .. Len(pages) |-> [pages[i] EXCEPT !.f = Absent]]
  BY DEF Left
<1>2. ASSUME NEW i \in 1 .. Len(pages)
      PROVE  /\ [pages[i] EXCEPT !.f = Absent] \in Mapping
             /\ [pages[i] EXCEPT !.f = Absent].v = pages[i].v /\ [pages[i] EXCEPT !.f = Absent].f = Absent
  <2>1. PICK g \in Mapping : g = pages[i]
    OBVIOUS
  <2>2. g.v \in Int /\ Absent \in Int /\ g = [v |-> g.v, f |-> g.f]
    BY DEF Mapping, Absent
  <2>3. [g EXCEPT !.f = Absent] = [v |-> g.v, f |-> Absent]
    BY <2>2
  <2>4. /\ [g EXCEPT !.f = Absent] \in Mapping
        /\ [g EXCEPT !.f = Absent].v = g.v /\ [g EXCEPT !.f = Absent].f = Absent
    BY <2>2, <2>3 DEF Mapping
  <2>5. QED
    BY <2>1, <2>4
<1>3. Len(pages) \in Nat
  OBVIOUS
<1>4. Left(pages) \in [1 .. Len(pages) -> Mapping]
  BY <1>1, <1>2
<1>5. Left(pages) \in Seq(Mapping) /\ Len(Left(pages)) = Len(pages)
  BY <1>3, <1>4
<1>6. QED
  BY <1>1, <1>2, <1>5

(* A list of pages is entered: each page has one of its frames then.       *)
Entry(s, r, pages, n, w) ==
  \/ \E i \in 1 .. n : pages[i].v = w /\ W(r.mem, w, Levels) = pages[i].f
  \/ (\A i \in 1 .. n : pages[i].v # w) /\ W(r.mem, w, Levels) = W(s.mem, w, Levels)

(* Entries set one after another: each page has what was set for it, the   *)
(* others what they had.                                                   *)
LEMMA PagesEntered ==
  ASSUME NEW s, IsState(s), NEW pages, Len(pages) \in Nat
  PROVE  \E r :
         /\ r = Entered(s, pages) /\ Kept(s, r)
         /\ /\ ~r.short /\ TreeOk(s.mem, s.next)
            /\ \A i \in 1 .. Len(pages) :
                 pages[i].v \in Pages \ {KernelPage} /\ pages[i].f \in Frame \cup {Absent}
            => /\ Grown(s, r)
               /\ \A w \in Pages \ {KernelPage} : Entry(s, r, pages, Len(pages), w)
<1>1. PICK N \in Nat : N = Len(pages)
  OBVIOUS
<1>2. PICK t :
        /\ t[0] = s
        /\ \A i \in 1 .. N : t[i] = set_pt_entry(t[i - 1], pages[i].v, pages[i].f)
        /\ Entered(s, pages) = t[N]
  BY <1>1, EnteredIs
<1> DEFINE Good ==
             /\ TreeOk(s.mem, s.next)
             /\ \A i \in 1 .. N :
                  pages[i].v \in Pages \ {KernelPage} /\ pages[i].f \in Frame \cup {Absent}
           Done(r, i) == Grown(s, r) /\ \A w \in Pages \ {KernelPage} : Entry(s, r, pages, i, w)
           G == {i \in 0 .. N : Kept(s, t[i]) /\ (Good /\ ~t[i].short => Done(t[i], i))}
<1>3. 0 \in G
  <2>1. Kept(s, s)
    BY DEF Kept
  <2>2. Good => Done(s, 0)
    BY GrownNone DEF Entry
  <2>3. QED
    BY <1>2, <2>1, <2>2
<1>4. ASSUME NEW i \in 1 .. N, i - 1 \in G
      PROVE  i \in G
  <2>1. PICK q : q = t[i - 1] /\ Kept(s, q) /\ (Good /\ ~q.short => Done(q, i - 1))
    BY <1>4
  <2>2. PICK v, x : v = pages[i].v /\ x = pages[i].f
    OBVIOUS
  <2>3. IsState(q)
    BY <2>1 DEF Kept
  <2>4. PICK r :
          /\ r = set_pt_entry(q, v, x) /\ Kept(q, r)
          /\ /\ ~r.short /\ TreeOk(q.mem, q.next) /\ v \in Pages /\ x \in Frame \cup {Absent}
             /\ v = KernelPage => x # Absent
             => /\ Grown(q, r) /\ W(r.mem, v, Levels) = x
                /\ \A w \in Pages \ {v, KernelPage} : W(r.mem, w, Levels) = W(q.mem, w, Levels)
    BY <2>3, EntryIsSet
  <2>5. r = t[i] /\ Kept(s, r)
    BY <1>2, <2>1, <2>2, <2>4, KeptTwice
  <2>6. ASSUME Good, ~r.short
        PROVE  Done(r, i)
    <3>1. ~q.short
      BY <2>4, <2>6 DEF Kept
    <3>2. Grown(s, q) /\ TreeOk(q.mem, q.next) /\ \A w \in Pages \ {KernelPage} : Entry(s, q, pages, i - 1, w)
      BY <2>1, <2>6, <3>1 DEF Grown
    <3>3. v \in Pages \ {KernelPage} /\ x \in Frame \cup {Absent}
      BY <2>2, <2>6
    <3>4. /\ Grown(q, r) /\ W(r.mem, v, Levels) = x
          /\ \A w \in Pages \ {v, KernelPage} : W(r.mem, w, Levels) = W(q.mem, w, Levels)
      BY <2>4, <2>6, <3>2, <3>3
    <3>5. Grown(s, r)
      <4>1. TreeOk(s.mem, s.next)
        BY <2>6
      <4>2. QED
        BY <3>2, <3>4, <4>1, NextIs, GrownTwice
    <3>6. ASSUME NEW w \in Pages \ {KernelPage}
          PROVE  Entry(s, r, pages, i, w)
      <4>1. CASE w = v
        BY <2>2, <3>4, <4>1 DEF Entry
      <4>2. CASE w # v
        <5>1. W(r.mem, w, Levels) = W(q.mem, w, Levels)
          BY <3>4, <4>2
        <5>2. \A j \in 1 .. i : j \in 1 .. i - 1 \/ j = i
          OBVIOUS
        <5>3. \A j \in 1 .. i - 1 : j \in 1 .. i
          OBVIOUS
        <5>4. Entry(s, q, pages, i - 1, w)
          BY <3>2
        <5>5. QED
          BY <2>2, <4>2, <5>1, <5>2, <5>3, <5>4 DEF Entry
      <4>3. QED
        BY <4>1, <4>2
    <3>7. QED
      BY <3>5, <3>6
  <2>7. i \in 0 .. N
    OBVIOUS
  <2> HIDE DEF Good, Done
  <2>8. QED
    BY <2>5, <2>6, <2>7
<1>5. N \in G
  <2> HIDE DEF G
  <2>1. \A i \in 0 .. N : i \in G
    BY <1>3, <1>4, Upwards
  <2>2. QED
    BY <2>1
<1>6. QED
  BY <1>1, <1>2, <1>5

(***************************************************************************)
(* swap_ws.                                                                *)
(***************************************************************************)

UserRange == 1 .. UserPages - 1

(* Where a page leads after a swap: to what the new workspace says, or     *)
(* nowhere if only the old one lists it, or where it led.                  *)
SwappedTo(s, r, old, new, w) ==
  \/ \E g \in new : g.v = w /\ W(r.mem, w, Levels) = g.f
  \/ /\ \A g \in new : g.v # w
     /\ \/ (\E g \in old : g.v = w) /\ W(r.mem, w, Levels) = Absent
        \/ (\A g \in old : g.v # w) /\ W(r.mem, w, Levels) = W(s.mem, w, Levels)

(* A swap takes the pages of one workspace out and puts the other's in.    *)
LEMMA Swapped ==
  ASSUME NEW s, IsState(s), NEW old \in Seq(Seg), NEW new \in Seq(Seg)
  PROVE  \E r :
         /\ r = swap_ws(s, old, new) /\ Kept(s, r)
         /\ /\ ~r.short /\ TreeOk(s.mem, s.next)
            /\ \A g \in Range(Listed(old)) : g.v \in UserRange
            /\ \A g \in Range(Listed(new)) : g.v \in UserRange /\ g.f \in Frame
            => /\ Grown(s, r)
               /\ \A w \in Pages \ {KernelPage} :
                    SwappedTo(s, r, Range(Listed(old)), Range(Listed(new)), w)
<1>1. PICK a \in Seq(Mapping), b \in Seq(Mapping), c \in Seq(Mapping) :
        a = Listed(old) /\ b = Listed(new) /\ c = Left(a)
  BY Listing, LeftIs
<1>2. /\ \A g : g \in Range(a) <=> \E i \in 1 .. Len(a) : g = a[i]
      /\ \A g : g \in Range(b) <=> \E i \in 1 .. Len(b) : g = b[i]
      /\ Len(a) \in Nat /\ Len(b) \in Nat /\ Len(c) = Len(a)
      /\ \A i \in 1 .. Len(a) : c[i].v = a[i].v /\ c[i].f = Absent
  <2>1. \A d \in Seq(Mapping) : \A g : g \in Range(d) <=> \E i \in 1 .. Len(d) : g = d[i]
    BY RangeOf
  <2>2. Len(c) = Len(a) /\ \A i \in 1 .. Len(a) : c[i].v = a[i].v /\ c[i].f = Absent
    BY <1>1, LeftIs
  <2>3. Len(a) \in Nat /\ Len(b) \in Nat
    OBVIOUS
  <2>4. /\ \A g : g \in Range(a) <=> \E i \in 1 .. Len(a) : g = a[i]
        /\ \A g : g \in Range(b) <=> \E i \in 1 .. Len(b) : g = b[i]
    BY <2>1, Zenon
  <2>5. QED
    BY <2>2, <2>3, <2>4
<1>3. UserRange \subseteq Pages \ {KernelPage}
  <2>1. KernelPage = UserPages /\ UserPages \in Nat /\ KernelPage \in 0 .. PageCount - 1 /\ PageCount \in Nat
    BY Sizes, ReachPositive DEF Pages
  <2>2. QED
    BY <2>1 DEF UserRange, Pages
<1>4. PICK q :
        /\ q = Entered(s, c) /\ Kept(s, q)
        /\ /\ ~q.short /\ TreeOk(s.mem, s.next)
           /\ \A i \in 1 .. Len(c) :
                c[i].v \in Pages \ {KernelPage} /\ c[i].f \in Frame \cup {Absent}
           => /\ Grown(s, q)
              /\ \A w \in Pages \ {KernelPage} : Entry(s, q, c, Len(c), w)
  BY <1>2, PagesEntered
<1>5. PICK r :
        /\ r = Entered(q, b) /\ Kept(q, r)
        /\ /\ ~r.short /\ TreeOk(q.mem, q.next)
           /\ \A i \in 1 .. Len(b) :
                b[i].v \in Pages \ {KernelPage} /\ b[i].f \in Frame \cup {Absent}
           => /\ Grown(q, r)
              /\ \A w \in Pages \ {KernelPage} : Entry(q, r, b, Len(b), w)
  <2>1. IsState(q)
    BY <1>4 DEF Kept
  <2>2. QED
    BY <1>2, <2>1, PagesEntered
<1>6. r = swap_ws(s, old, new) /\ Kept(s, r)
  BY <1>1, <1>4, <1>5, KeptTwice DEF swap_ws
<1>7. ASSUME ~r.short, TreeOk(s.mem, s.next),
             \A g \in Range(a) : g.v \in UserRange,
             \A g \in Range(b) : g.v \in UserRange /\ g.f \in Frame
      PROVE  /\ Grown(s, r)
             /\ \A w \in Pages \ {KernelPage} : SwappedTo(s, r, Range(a), Range(b), w)
  <2>1. ~q.short
    BY <1>5, <1>7 DEF Kept
  <2>2. \A i \in 1 .. Len(c) : c[i].v \in Pages \ {KernelPage} /\ c[i].f \in Frame \cup {Absent}
    BY <1>2, <1>3, <1>7
  <2>3. Grown(s, q) /\ \A w \in Pages \ {KernelPage} : Entry(s, q, c, Len(c), w)
    BY <1>4, <1>7, <2>1, <2>2
  <2>4. TreeOk(q.mem, q.next)
    BY <2>3 DEF Grown
  <2>5. \A i \in 1 .. Len(b) : b[i].v \in Pages \ {KernelPage} /\ b[i].f \in Frame \cup {Absent}
    BY <1>2, <1>3, <1>7
  <2>6. Grown(q, r) /\ \A w \in Pages \ {KernelPage} : Entry(q, r, b, Len(b), w)
    BY <1>5, <1>7, <2>4, <2>5
  <2>7. Grown(s, r)
    <3>1. s.next \in Nat
      BY <1>7, Sizes DEF TreeOk
    <3>2. QED
      BY <2>3, <2>6, <3>1, GrownTwice
  <2>8. ASSUME NEW w \in Pages \ {KernelPage}
        PROVE  SwappedTo(s, r, Range(a), Range(b), w)
    <3>1. Entry(s, q, c, Len(c), w) /\ Entry(q, r, b, Len(b), w)
      BY <2>3, <2>6
    <3>2. CASE \E i \in 1 .. Len(b) : b[i].v = w /\ W(r.mem, w, Levels) = b[i].f
      <4>1. PICK g \in Range(b) : g.v = w /\ W(r.mem, w, Levels) = g.f
        BY <1>2, <3>2, SMTT(40)
      <4>2. QED
        BY <4>1, Zenon DEF SwappedTo
    <3>3. CASE (\A i \in 1 .. Len(b) : b[i].v # w) /\ W(r.mem, w, Levels) = W(q.mem, w, Levels)
      <4>1. \A g \in Range(b) : g.v # w
        BY <1>2, <3>3, SMTT(40)
      <4>2. CASE \E i \in 1 .. Len(c) : c[i].v = w /\ W(q.mem, w, Levels) = c[i].f
        <5>1. PICK i \in 1 .. Len(a) : c[i].v = w /\ W(q.mem, w, Levels) = c[i].f
          BY <1>2, <4>2
        <5>2. a[i] \in Range(a) /\ a[i].v = w /\ W(r.mem, w, Levels) = Absent
          BY <1>2, <3>3, <5>1, SMTT(40)
        <5>3. QED
          BY <4>1, <5>2, Zenon DEF SwappedTo
      <4>3. CASE (\A i \in 1 .. Len(c) : c[i].v # w) /\ W(q.mem, w, Levels) = W(s.mem, w, Levels)
        <5>1. \A g \in Range(a) : g.v # w
          BY <1>2, <4>3, SMTT(40)
        <5>2. W(r.mem, w, Levels) = W(s.mem, w, Levels)
          BY <3>3, <4>3
        <5>3. QED
          BY <4>1, <5>1, <5>2, Zenon DEF SwappedTo
      <4>4. QED
        BY <3>1, <4>2, <4>3 DEF Entry
    <3>4. QED
      BY <3>1, <3>2, <3>3 DEF Entry
  <2>9. QED
    BY <2>7, <2>8
<1>8. QED
  BY <1>1, <1>6, <1>7

(***************************************************************************)
(* The inductive invariant.  The lower half of a program's pages is listed *)
(* in its code workspace, the upper half and the two pages of the stacks   *)
(* in the other.                                                           *)
(***************************************************************************)

CodePart  == {v \in UserRange : v <= UserPages \div 2 /\ v < UserPages - 2}
StackPart == UserRange \ CodePart

ListedBy(c, k, p) == Range(Listed(Workspace(c, p))) \cup Range(Listed(Workspace(k, p)))
NoTable(m, f)     == \A v \in Pages : \A l \in 0 .. Levels - 1 : W(m, v, l) # f

(* What is handed out to the programs: frames of their own, no tables, a   *)
(* page once, and a stack for each.                                        *)
Held(m, n, c, k) ==
  /\ c \in [Procs -> Seq(Seg)] /\ k \in [Procs -> Seq(Seg)]
  /\ \A p \in Procs : /\ \A g \in Range(Listed(c[p])) : g.v \in CodePart
                      /\ \A g \in Range(Listed(k[p])) : g.v \in StackPart
  /\ \A p \in Procs : \A g \in ListedBy(c, k, p) : g.f \in FirstFrame .. n - 1 /\ NoTable(m, g.f)
  /\ \A p \in Procs : \A g, h \in ListedBy(c, k, p) : g.v = h.v => g = h
  /\ \A p, q \in Procs : \A g \in ListedBy(c, k, p), h \in ListedBy(c, k, q) :
       g.f = h.f => p = q /\ g = h
  /\ \A p \in Procs : c[p] # <<>> =>
       \A v \in {UserPages - 2, UserPages - 1} : \E g \in Range(Listed(k[p])) : g.v = v

(* The user half of the tree is what the running program's workspaces list.*)
Mapped(m, c, k, cur) ==
  /\ cur \in Procs \cup {None} /\ (cur # None => c[cur] # <<>>)
  /\ \A v \in UserRange : \A f \in Frame :
       W(m, v, Levels) = f <=> [v |-> v, f |-> f] \in ListedBy(c, k, cur)
  /\ W(m, 0, Levels) # Absent

Fine(s, cur) ==
  TreeOk(s.mem, s.next) /\ Held(s.mem, s.next, s.code, s.stack) /\ Mapped(s.mem, s.code, s.stack, cur)

IInv ==
  ~exhausted /\ ~torn =>
    TreeOk(mem, next) /\ Held(mem, next, code, stack) /\ Mapped(mem, code, stack, cur_ws)

(* The state the handlers start from is that of the variables.             *)
LEMMA NowIs ==
  /\ IsState(Now) /\ Now.mem = mem /\ Now.next = next /\ Now.code = code /\ Now.stack = stack
BY DEF Now, IsState, State

(* That state is fine while nothing ran short and no copy was torn.        *)
LEMMA NowFine ==
  ASSUME IInv, ~exhausted, ~torn
  PROVE  Fine(Now, cur_ws)
BY NowIs DEF IInv, Fine

(* What was handed out before stays apart from the tables made since.      *)
LEMMA HeldGrown ==
  ASSUME NEW s, NEW r, NEW c, NEW k, s.next \in Nat, Held(s.mem, s.next, c, k), Grown(s, r)
  PROVE  Held(r.mem, r.next, c, k)
<1>1. /\ r.next \in s.next .. LastFrame + 1 /\ LastFrame \in Nat /\ FirstFrame \in Nat
  BY Sizes DEF Grown
<1>2. ASSUME NEW f \in FirstFrame .. s.next - 1, NoTable(s.mem, f)
      PROVE  f \in FirstFrame .. r.next - 1 /\ NoTable(r.mem, f)
  <2>1. f \in FirstFrame .. r.next - 1 /\ f \notin s.next .. r.next - 1
    BY <1>1
  <2>2. ASSUME NEW v \in Pages, NEW l \in 0 .. Levels - 1
        PROVE  W(r.mem, v, l) # f
    <3>1. W(r.mem, v, l) = W(s.mem, v, l) \/ W(r.mem, v, l) \in s.next .. r.next - 1
      BY DEF Grown
    <3>2. W(s.mem, v, l) # f
      BY <1>2 DEF NoTable
    <3>3. QED
      BY <2>1, <3>1, <3>2
  <2>3. QED
    BY <2>1, <2>2 DEF NoTable
<1>3. \A p \in Procs : \A g \in ListedBy(c, k, p) : g.f \in FirstFrame .. r.next - 1 /\ NoTable(r.mem, g.f)
  BY <1>2 DEF Held
<1>4. QED
  BY <1>3, Zenon DEF Held

(* A tree is good for more frames, too.                                    *)
LEMMA TreeLater ==
  ASSUME NEW m, NEW n, TreeOk(m, n), NEW i \in n .. LastFrame + 1
  PROVE  TreeOk(m, i)
<1>1. m \in [Frame -> Words] /\ \A v \in Pages : W(m, v, Levels) \in Frame \cup {Absent}
  BY DEF TreeOk
<1>2. W(m, KernelPage, Levels) # Absent
  BY DEF TreeOk
<1>3. QED
  BY <1>1, <1>2, SameTree

(***************************************************************************)
(* A page fault.                                                           *)
(***************************************************************************)

(* A workspace grows by one page.                                          *)
LEMMA OneMore ==
  ASSUME NEW ws \in Seq(Seg), NEW v \in Nat, NEW f \in Nat
  PROVE  /\ Append(ws, Segment(v, f, 1)) \in Seq(Seg)
         /\ Append(ws, Segment(v, f, 1)) # <<>>
         /\ \A g : g \in Range(Listed(Append(ws, Segment(v, f, 1))))
                     <=> g \in Range(Listed(ws)) \/ g = [v |-> v, f |-> f]
<1>1. PICK seg \in Seg : seg = Segment(v, f, 1)
  BY DEF Segment, Seg
<1>2. PICK more \in Seq(Seg) : more = Append(ws, seg)
  <2>1. Append(ws, seg) \in Seq(Seg)
    OBVIOUS
  <2>2. QED
    BY <2>1
<1>3. /\ Len(more) = Len(ws) + 1 /\ Len(ws) \in Nat /\ more # <<>>
      /\ more[Len(ws) + 1] = seg /\ \A i \in 1 .. Len(ws) : more[i] = ws[i]
  BY <1>2
<1>4. seg.n = 1 /\ PageOf(seg, 1) = [v |-> v, f |-> f]
  BY <1>1 DEF Segment, PageOf
<1>5. /\ \A g : g \in Range(Listed(more)) <=>
            \E i \in 1 .. Len(more) : \E k \in 1 .. more[i].n : g = PageOf(more[i], k)
      /\ \A g : g \in Range(Listed(ws)) <=>
            \E i \in 1 .. Len(ws) : \E k \in 1 .. ws[i].n : g = PageOf(ws[i], k)
  BY Listing
<1>6. ASSUME NEW g, g \in Range(Listed(more))
      PROVE  g \in Range(Listed(ws)) \/ g = [v |-> v, f |-> f]
  <2>1. PICK i \in 1 .. Len(more) : \E k \in 1 .. more[i].n : g = PageOf(more[i], k)
    BY <1>5, <1>6
  <2>2. CASE i \in 1 .. Len(ws)
    BY <1>3, <1>5, <2>1, <2>2
  <2>3. CASE i \notin 1 .. Len(ws)
    <3>1. i = Len(ws) + 1
      BY <1>3, <2>3
    <3>2. \E k \in 1 .. 1 : g = PageOf(seg, k)
      BY <1>3, <1>4, <2>1, <3>1
    <3>3. \A k \in 1 .. 1 : k = 1
      OBVIOUS
    <3>4. QED
      BY <1>4, <3>2, <3>3
  <2>4. QED
    BY <2>2, <2>3
<1>7. ASSUME NEW g, g \in Range(Listed(ws)) \/ g = [v |-> v, f |-> f]
      PROVE  g \in Range(Listed(more))
  <2>1. CASE g \in Range(Listed(ws))
    <3>1. PICK i \in 1 .. Len(ws) : \E k \in 1 .. ws[i].n : g = PageOf(ws[i], k)
      BY <1>5, <2>1
    <3>2. i \in 1 .. Len(more) /\ more[i] = ws[i]
      BY <1>3
    <3>3. QED
      BY <1>5, <3>1, <3>2
  <2>2. CASE g = [v |-> v, f |-> f]
    <3>1. Len(ws) + 1 \in 1 .. Len(more) /\ 1 \in 1 .. more[Len(ws) + 1].n
      BY <1>3, <1>4
    <3>2. g = PageOf(more[Len(ws) + 1], 1)
      BY <1>3, <1>4, <2>2
    <3>3. QED
      BY <1>5, <3>1, <3>2
  <2>3. QED
    BY <1>7, <2>1, <2>2
<1>8. QED
  BY <1>1, <1>2, <1>3, <1>6, <1>7

(* What is noted, and where.                                               *)
Longer(c, p, v, f) == [c EXCEPT ![p] = Append(@, Segment(v, f, 1))]

(* The four ways a fault can be noted.                                     *)
LEMMA NotedIs ==
  ASSUME NEW s, IsState(s), NEW v, NEW f
  PROVE  \/ /\ v > KernelPage
            /\ Noted(s, v, f) = s
         \/ /\ ~(v > KernelPage) /\ s.kobjs = 0
            /\ Noted(s, v, f) = State(s.mem, s.next, s.code, s.stack, s.kobjs, TRUE, s.torn)
         \/ /\ ~(v > KernelPage) /\ v <= UserPages \div 2
            /\ Noted(s, v, f) = State(s.mem, s.next, Longer(s.code, cur_ws, v, f), s.stack,
                                      s.kobjs - 1, s.short, s.torn)
         \/ /\ ~(v > KernelPage) /\ ~(v <= UserPages \div 2)
            /\ Noted(s, v, f) = State(s.mem, s.next, s.code, Longer(s.stack, cur_ws, v, f),
                                      s.kobjs - 1, s.short, s.torn)
<1>1. PICK m, n, c, k, o, b, t : s = [mem |-> m, next |-> n, code |-> c, stack |-> k,
                                      kobjs |-> o, short |-> b, torn |-> t]
  BY DEF IsState, State
<1>2. /\ s.mem = m /\ s.next = n /\ s.code = c /\ s.stack = k /\ s.kobjs = o
      /\ s.short = b /\ s.torn = t
  BY <1>1
<1>3. \A x : [s EXCEPT !.short = x] = State(m, n, c, k, o, x, t)
  BY <1>1 DEF State
<1>4. ASSUME NEW x, NEW y
      PROVE  [s EXCEPT !.code[cur_ws] = x, !.kobjs = y] = State(m, n, [c EXCEPT ![cur_ws] = x], k, y, b, t)
  <2>1. PICK z : z = [c EXCEPT ![cur_ws] = x]
    OBVIOUS
  <2>2. PICK q : q = [s EXCEPT !.code = z]
    OBVIOUS
  <2>3. q = [mem |-> m, next |-> n, code |-> z, stack |-> k,
             kobjs |-> o, short |-> b, torn |-> t]
    BY <1>1, <2>2
  <2>4. [q EXCEPT !.kobjs = y]
          = [mem |-> m, next |-> n, code |-> z, stack |-> k,
             kobjs |-> y, short |-> b, torn |-> t]
    BY <2>3
  <2>5. [s EXCEPT !.code[cur_ws] = x, !.kobjs = y] = [q EXCEPT !.kobjs = y]
    BY <1>1, <2>1, <2>2
  <2>6. QED
    BY <2>1, <2>4, <2>5 DEF State
<1>5. ASSUME NEW x, NEW y
      PROVE  [s EXCEPT !.stack[cur_ws] = x, !.kobjs = y] = State(m, n, c, [k EXCEPT ![cur_ws] = x], y, b, t)
  <2>1. PICK z : z = [k EXCEPT ![cur_ws] = x]
    OBVIOUS
  <2>2. PICK q : q = [s EXCEPT !.stack = z]
    OBVIOUS
  <2>3. q = [mem |-> m, next |-> n, code |-> c, stack |-> z,
             kobjs |-> o, short |-> b, torn |-> t]
    BY <1>1, <2>2
  <2>4. [q EXCEPT !.kobjs = y]
          = [mem |-> m, next |-> n, code |-> c, stack |-> z,
             kobjs |-> y, short |-> b, torn |-> t]
    BY <2>3
  <2>5. [s EXCEPT !.stack[cur_ws] = x, !.kobjs = y] = [q EXCEPT !.kobjs = y]
    BY <1>1, <2>1, <2>2
  <2>6. QED
    BY <2>1, <2>4, <2>5 DEF State
<1>6. [s EXCEPT !.short = TRUE] = State(m, n, c, k, o, TRUE, t)
  BY <1>3
<1>7. [s EXCEPT !.code[cur_ws] = Append(@, Segment(v, f, 1)), !.kobjs = @ - 1]
        = State(m, n, Longer(c, cur_ws, v, f), k, o - 1, b, t)
  BY <1>2, <1>4 DEF Longer
<1>8. [s EXCEPT !.stack[cur_ws] = Append(@, Segment(v, f, 1)), !.kobjs = @ - 1]
        = State(m, n, c, Longer(k, cur_ws, v, f), o - 1, b, t)
  BY <1>2, <1>5 DEF Longer
<1>9. QED
  BY <1>2, <1>6, <1>7, <1>8 DEF Noted

(* The states that a page fault goes through.                              *)
LEMMA FaultKept ==
  ASSUME NEW s, IsState(s), NEW v, NEW f
  PROVE  IsState(Noted(s, v, f)) /\ Noted(s, v, f).torn = s.torn /\ (~Noted(s, v, f).short => ~s.short)
<1>1. PICK r : r = Noted(s, v, f)
  OBVIOUS
<1>2. CASE r = s
  BY <1>1, <1>2
<1>3. CASE r = State(s.mem, s.next, s.code, s.stack, s.kobjs, TRUE, s.torn)
  <2>1. r.short
    BY <1>3 DEF State
  <2>2. PICK b : r = State(s.mem, s.next, s.code, s.stack, s.kobjs, b, s.torn)
    BY <1>3
  <2>3. IsState(r) /\ r.torn = s.torn
    BY <2>2, StateFields
  <2>4. QED
    BY <1>1, <2>1, <2>3
<1>4. CASE r = State(s.mem, s.next, Longer(s.code, cur_ws, v, f), s.stack, s.kobjs - 1, s.short, s.torn)
  BY <1>1, <1>4, StateFields
<1>5. CASE r = State(s.mem, s.next, s.code, Longer(s.stack, cur_ws, v, f), s.kobjs - 1, s.short, s.torn)
  BY <1>1, <1>5, StateFields
<1>6. QED
  BY <1>1, <1>2, <1>3, <1>4, <1>5, NotedIs

(* The workspaces of program p list one page more.                         *)
Gained(c, k, d, j, p, new) ==
  \A q \in Procs : \A g : g \in ListedBy(d, j, q) <=> g \in ListedBy(c, k, q) \/ (q = p /\ g = new)
Placed(c, k, d, j) ==
  \A q \in Procs : /\ \A g \in Range(Listed(d[q])) : g.v \in CodePart
                   /\ \A g \in Range(Listed(j[q])) : g.v \in StackPart
                   /\ \A g \in Range(Listed(k[q])) : g \in Range(Listed(j[q]))
                   /\ d[q] # <<>> => c[q] # <<>>

(* It is a page the program did not have, in a new frame.                  *)
LEMMA HeldMore ==
  ASSUME NEW m, NEW n \in FirstFrame .. LastFrame, NEW c, NEW k, Held(m, n, c, k), NoTable(m, n),
         NEW p \in Procs, NEW new, new.f = n, \A g \in ListedBy(c, k, p) : g.v # new.v,
         NEW d \in [Procs -> Seq(Seg)], NEW j \in [Procs -> Seq(Seg)],
         Gained(c, k, d, j, p, new), Placed(c, k, d, j)
  PROVE  Held(m, n + 1, d, j)
<1>1. new.f = n
  OBVIOUS
<1>2. n \in Nat /\ FirstFrame \in Nat
  <2>1. LastFrame \in Nat /\ FirstFrame \in 4 .. LastFrame + 1
    BY Sizes
  <2>2. QED
    BY <2>1
<1>3. \A q \in Procs : \A g \in ListedBy(d, j, q) : g \in ListedBy(c, k, q) \/ (q = p /\ g = new)
  BY DEF Gained
<1>4. ASSUME NEW q \in Procs, NEW g \in ListedBy(d, j, q)
      PROVE  g.f \in FirstFrame .. n + 1 - 1 /\ NoTable(m, g.f)
  <2>1. CASE g \in ListedBy(c, k, q)
    <3>1. g.f \in FirstFrame .. n - 1 /\ NoTable(m, g.f)
      BY <2>1 DEF Held
    <3>2. QED
      BY <1>2, <3>1
  <2>2. CASE g = new
    BY <1>1, <1>2, <2>2
  <2>3. QED
    BY <1>3, <2>1, <2>2
<1>5. ASSUME NEW q \in Procs, NEW g \in ListedBy(c, k, q)
      PROVE  g.f # n
  <2>1. g.f \in FirstFrame .. n - 1
    BY DEF Held
  <2>2. QED
    BY <1>2, <2>1
<1>6. ASSUME NEW q \in Procs, NEW g \in ListedBy(d, j, q), NEW h \in ListedBy(d, j, q), g.v = h.v
      PROVE  g = h
  <2>1. CASE g \in ListedBy(c, k, q) /\ h \in ListedBy(c, k, q)
    BY <1>6, <2>1 DEF Held
  <2>2. CASE q = p /\ g = new /\ h \in ListedBy(c, k, q)
    BY <1>1, <1>6, <2>2
  <2>3. CASE q = p /\ h = new /\ g \in ListedBy(c, k, q)
    BY <1>1, <1>6, <2>3
  <2>4. QED
    BY <1>3, <2>1, <2>2, <2>3
<1>7. ASSUME NEW q \in Procs, NEW i \in Procs,
             NEW g \in ListedBy(d, j, q), NEW h \in ListedBy(d, j, i), g.f = h.f
      PROVE  q = i /\ g = h
  <2>1. CASE g \in ListedBy(c, k, q) /\ h \in ListedBy(c, k, i)
    BY <1>7, <2>1 DEF Held
  <2>2. CASE q = p /\ g = new /\ h \in ListedBy(c, k, i)
    BY <1>1, <1>5, <1>7, <2>2
  <2>3. CASE i = p /\ h = new /\ g \in ListedBy(c, k, q)
    BY <1>1, <1>5, <1>7, <2>3
  <2>4. CASE q = p /\ g = new /\ i = p /\ h = new
    BY <2>4
  <2>5. QED
    BY <1>3, <2>1, <2>2, <2>3, <2>4
<1>8. ASSUME NEW q \in Procs, d[q] # <<>>, NEW w \in {UserPages - 2, UserPages - 1}
      PROVE  \E g \in Range(Listed(j[q])) : g.v = w
  <2>1. \E g \in Range(Listed(k[q])) : g.v = w
    <3>1. c[q] # <<>>
      BY <1>8 DEF Placed
    <3>2. QED
      BY <3>1 DEF Held
  <2>2. QED
    BY <2>1 DEF Placed
<1>9. QED
  BY <1>4, <1>6, <1>7, <1>8 DEF Held, Placed

(* The pages of the processes after a fault was noted for one of them.     *)
At(v, f) == [v |-> v, f |-> f]
Adds(pages, g, more) == \A h : h \in Range(more) <=> h \in Range(pages) \/ h = g

(* The workspaces of all processes after one grew by a page.               *)
LEMMA LongerLists ==
  ASSUME NEW c \in [Procs -> Seq(Seg)], NEW p \in Procs, NEW v \in Nat, NEW f \in Nat
  PROVE  \E d \in [Procs -> Seq(Seg)] :
         /\ d = Longer(c, p, v, f) /\ d[p] # <<>>
         /\ \A q \in Procs \ {p} : d[q] = c[q]
         /\ Adds(Listed(c[p]), At(v, f), Listed(d[p]))
<1>1. PICK ws \in Seq(Seg) : ws = c[p]
  OBVIOUS
<1>2. /\ Append(ws, Segment(v, f, 1)) \in Seq(Seg)
      /\ Append(ws, Segment(v, f, 1)) # <<>>
      /\ \A g : g \in Range(Listed(Append(ws, Segment(v, f, 1))))
                  <=> g \in Range(Listed(ws)) \/ g = [v |-> v, f |-> f]
  BY OneMore
<1>3. PICK more \in Seq(Seg) : more = Append(ws, Segment(v, f, 1))
  BY <1>2
<1>4. Adds(Listed(ws), At(v, f), Listed(more))
  BY <1>2, <1>3 DEF Adds, At
<1>5. PICK d : d = [c EXCEPT ![p] = more]
  OBVIOUS
<1>6. d \in [Procs -> Seq(Seg)] /\ d[p] = more /\ \A q \in Procs \ {p} : d[q] = c[q]
  BY <1>5
<1>7. d = Longer(c, p, v, f)
  BY <1>1, <1>3, <1>5 DEF Longer
<1>8. more # <<>>
  BY <1>2, <1>3
<1>9. QED
  BY <1>1, <1>4, <1>6, <1>7, <1>8

(* The pages of a process, and those of nobody.                            *)
LEMMA Running ==
  ASSUME NEW p \in Procs, NEW c, NEW k
  PROVE  /\ ListedBy(c, k, p) = Range(Listed(c[p])) \cup Range(Listed(k[p]))
         /\ ListedBy(c, k, None) = Range(Listed(<<>>)) \cup Range(Listed(<<>>))
BY PagingAssumption DEF ListedBy, Workspace

(* The fault of a page the running program does not have is noted in the   *)
(* right workspace; that of a kernel page is nobody's.                     *)
LEMMA NotedRight ==
  ASSUME NEW s, IsState(s), NEW n, s.next = n + 1, n \in FirstFrame .. LastFrame,
         Held(s.mem, n, s.code, s.stack), NoTable(s.mem, n),
         cur_ws \in Procs, s.code[cur_ws] # <<>>, NEW v \in Pages \ {0, KernelPage},
         \A g \in ListedBy(s.code, s.stack, cur_ws) : g.v # v,
         ~Noted(s, v, n).short
  PROVE  \E b :
         /\ b = Noted(s, v, n) /\ IsState(b) /\ b.mem = s.mem /\ b.next = n + 1
         /\ Held(b.mem, b.next, b.code, b.stack) /\ b.code[cur_ws] # <<>>
         /\ \A g : g \in ListedBy(b.code, b.stack, cur_ws) <=>
              \/ g \in ListedBy(s.code, s.stack, cur_ws)
              \/ v \in UserRange /\ g = [v |-> v, f |-> n]
<1>1. PICK b : b = Noted(s, v, n)
  OBVIOUS
<1>2. /\ v \in Nat /\ n \in Nat /\ UserPages \in Nat /\ UserPages >= 4 /\ KernelPage = UserPages
      /\ UserPages \div 2 \in Nat /\ v # 0 /\ v # UserPages /\ UserPages \div 2 <= UserPages - 2
      /\ FirstFrame \in Nat /\ LastFrame \in Nat
  <2>1. UserPages \in Nat /\ UserPages >= 4 /\ UserPages \div 2 <= UserPages - 2
    BY Sizes
  <2>2. QED
    BY <2>1, Sizes DEF Pages
<1>3. s.code \in [Procs -> Seq(Seg)] /\ s.stack \in [Procs -> Seq(Seg)]
  BY DEF Held
<1>4. PICK new : new = [v |-> v, f |-> n]
  OBVIOUS
<1>5. new.v = v /\ new.f = n
  BY <1>4
<1>6. v # UserPages - 2 /\ v # UserPages - 1
  <2>1. ASSUME NEW w \in {UserPages - 2, UserPages - 1}
        PROVE  v # w
    <3>1. PICK g \in Range(Listed(s.stack[cur_ws])) : g.v = w
      BY DEF Held
    <3>2. g \in ListedBy(s.code, s.stack, cur_ws)
      BY Running
    <3>3. QED
      BY <3>1, <3>2
  <2>2. QED
    BY <2>1
<1>7. CASE v > KernelPage
  <2>1. b = s
    BY <1>1, <1>7, NotedIs
  <2>2. v \notin UserRange
    BY <1>2, <1>7 DEF UserRange
  <2>4. Held(s.mem, n + 1, s.code, s.stack)
    <3>1. \A f \in FirstFrame .. n - 1 : f \in FirstFrame .. n + 1 - 1
      BY <1>2
    <3>2. QED
      BY <3>1 DEF Held
  <2>5. QED
    BY <1>1, <2>1, <2>2, <2>4
<1>8. CASE ~(v > KernelPage)
  <2>1. v \in UserRange
    BY <1>2, <1>8 DEF UserRange
  <2>2. s.kobjs = 0 => FALSE
    <3>1. SUFFICES ASSUME b = State(s.mem, s.next, s.code, s.stack, s.kobjs, TRUE, s.torn)
                   PROVE  FALSE
      BY <1>1, <1>8, NotedIs DEF Noted, State, IsState
    <3>2. b.short
      BY <3>1 DEF State
    <3>3. QED
      BY <1>1, <3>2
  <2>3. CASE v <= UserPages \div 2
    <3>1. v \in CodePart
      BY <1>2, <1>6, <2>1, <2>3 DEF CodePart
    <3>2. PICK d \in [Procs -> Seq(Seg)] :
            /\ d = Longer(s.code, cur_ws, v, n) /\ d[cur_ws] # <<>>
            /\ \A q \in Procs \ {cur_ws} : d[q] = s.code[q]
            /\ Adds(Listed(s.code[cur_ws]), At(v, n), Listed(d[cur_ws]))
      <4>1. PICK x \in [Procs -> Seq(Seg)] : x = s.code
        BY <1>3
      <4>2. PICK z \in [Procs -> Seq(Seg)] :
              /\ z = Longer(x, cur_ws, v, n) /\ z[cur_ws] # <<>>
              /\ \A q \in Procs \ {cur_ws} : z[q] = x[q]
              /\ Adds(Listed(x[cur_ws]), At(v, n), Listed(z[cur_ws]))
        BY <1>2, LongerLists
      <4>3. QED
        BY <4>1, <4>2
    <3>3. b = State(s.mem, n + 1, d, s.stack, s.kobjs - 1, s.short, s.torn)
      BY <1>1, <1>8, <2>2, <2>3, <3>2, NotedIs
    <3>4. IsState(b) /\ b.mem = s.mem /\ b.next = n + 1 /\ b.code = d /\ b.stack = s.stack
      BY <3>3, StateFields
    <3>5. /\ d \in [Procs -> Seq(Seg)] /\ d[cur_ws] # <<>>
          /\ \A q \in Procs \ {cur_ws} : d[q] = s.code[q]
          /\ \A g : g \in Range(Listed(d[cur_ws])) <=> g \in Range(Listed(s.code[cur_ws])) \/ g = new
      BY <1>4, <3>2 DEF Adds, At
    <3>6. Gained(s.code, s.stack, d, s.stack, cur_ws, new)
      <4>1. ASSUME NEW q \in Procs, q = cur_ws, NEW g
            PROVE  g \in ListedBy(d, s.stack, q) <=>
                     g \in ListedBy(s.code, s.stack, q) \/ (q = cur_ws /\ g = new)
        BY <3>5, <4>1, Running
      <4>2. ASSUME NEW q \in Procs, q # cur_ws, NEW g
            PROVE  g \in ListedBy(d, s.stack, q) <=>
                     g \in ListedBy(s.code, s.stack, q) \/ (q = cur_ws /\ g = new)
        BY <3>5, <4>2, Running
      <4>3. QED
        BY <4>1, <4>2 DEF Gained
    <3>7. Placed(s.code, s.stack, d, s.stack)
      BY <1>5, <3>1, <3>5 DEF Held, Placed
    <3>8. Held(s.mem, n + 1, d, s.stack)
      BY <1>3, <1>4, <1>5, <3>5, <3>6, <3>7, HeldMore
    <3>9. QED
      BY <1>1, <1>4, <2>1, <3>4, <3>5, <3>6, <3>8 DEF Gained
  <2>4. CASE ~(v <= UserPages \div 2)
    <3>1. v \in StackPart
      BY <1>2, <2>1, <2>4 DEF CodePart, StackPart
    <3>2. PICK j \in [Procs -> Seq(Seg)] :
            /\ j = Longer(s.stack, cur_ws, v, n) /\ j[cur_ws] # <<>>
            /\ \A q \in Procs \ {cur_ws} : j[q] = s.stack[q]
            /\ Adds(Listed(s.stack[cur_ws]), At(v, n), Listed(j[cur_ws]))
      <4>1. PICK x \in [Procs -> Seq(Seg)] : x = s.stack
        BY <1>3
      <4>2. PICK z \in [Procs -> Seq(Seg)] :
              /\ z = Longer(x, cur_ws, v, n) /\ z[cur_ws] # <<>>
              /\ \A q \in Procs \ {cur_ws} : z[q] = x[q]
              /\ Adds(Listed(x[cur_ws]), At(v, n), Listed(z[cur_ws]))
        BY <1>2, LongerLists
      <4>3. QED
        BY <4>1, <4>2
    <3>3. b = State(s.mem, n + 1, s.code, j, s.kobjs - 1, s.short, s.torn)
      BY <1>1, <1>8, <2>2, <2>4, <3>2, NotedIs
    <3>4. IsState(b) /\ b.mem = s.mem /\ b.next = n + 1 /\ b.code = s.code /\ b.stack = j
      BY <3>3, StateFields
    <3>5. /\ j \in [Procs -> Seq(Seg)]
          /\ \A q \in Procs \ {cur_ws} : j[q] = s.stack[q]
          /\ \A g : g \in Range(Listed(j[cur_ws])) <=> g \in Range(Listed(s.stack[cur_ws])) \/ g = new
      BY <1>4, <3>2 DEF Adds, At
    <3>6. Gained(s.code, s.stack, s.code, j, cur_ws, new)
      <4>1. ASSUME NEW q \in Procs, q = cur_ws, NEW g
            PROVE  g \in ListedBy(s.code, j, q) <=>
                     g \in ListedBy(s.code, s.stack, q) \/ (q = cur_ws /\ g = new)
        BY <3>5, <4>1, Running
      <4>2. ASSUME NEW q \in Procs, q # cur_ws, NEW g
            PROVE  g \in ListedBy(s.code, j, q) <=>
                     g \in ListedBy(s.code, s.stack, q) \/ (q = cur_ws /\ g = new)
        BY <3>5, <4>2, Running
      <4>3. QED
        BY <4>1, <4>2 DEF Gained
    <3>7. Placed(s.code, s.stack, s.code, j)
      BY <1>5, <3>1, <3>5 DEF Held, Placed
    <3>8. Held(s.mem, n + 1, s.code, j)
      BY <1>3, <1>4, <1>5, <3>5, <3>6, <3>7, HeldMore
    <3>9. QED
      BY <1>1, <1>4, <2>1, <3>4, <3>6, <3>8 DEF Gained
  <2>5. QED
    BY <2>3, <2>4
<1>9. QED
  BY <1>7, <1>8

(* What a workspace lists is a page of the user half and a frame.          *)
LEMMA ListedPage ==
  ASSUME NEW m, NEW n, NEW c, NEW k, Held(m, n, c, k), NEW p \in Procs \cup {None},
         NEW g \in ListedBy(c, k, p)
  PROVE  /\ p \in Procs /\ g = [v |-> g.v, f |-> g.f]
         /\ g.v \in UserRange /\ g.f \in FirstFrame .. n - 1
<1>1. ASSUME p \notin Procs
      PROVE  FALSE
  <2>1. p = None
    BY <1>1
  <2>2. g \in Range(Listed(<<>>))
    BY <2>1 DEF ListedBy, Workspace
  <2>3. <<>> \in Seq(Seg) /\ Len(<<>>) = 0
    OBVIOUS
  <2>4. ASSUME NEW ws \in Seq(Seg), Len(ws) = 0, g \in Range(Listed(ws))
        PROVE  FALSE
    <3>1. \A h : h \in Range(Listed(ws)) <=>
                   \E i \in 1 .. Len(ws) : \E j \in 1 .. ws[i].n : h = PageOf(ws[i], j)
      BY Listing
    <3>2. QED
      BY <2>4, <3>1
  <2>5. QED
    BY <2>2, <2>3, <2>4
<1>2. c[p] \in Seq(Seg) /\ k[p] \in Seq(Seg)
  BY <1>1 DEF Held
<1>3. g \in Range(Listed(c[p])) \/ g \in Range(Listed(k[p]))
  BY <1>1, PagingAssumption DEF ListedBy, Workspace
<1>4. g.v \in UserRange
  BY <1>1, <1>3 DEF Held, CodePart, StackPart
<1>5. g.f \in FirstFrame .. n - 1
  BY <1>1 DEF Held
<1>6. g \in Mapping
  <2>1. PICK x \in Seq(Mapping), y \in Seq(Mapping) : x = Listed(c[p]) /\ y = Listed(k[p])
    BY <1>2, Listing
  <2>2. Range(x) \subseteq Mapping /\ Range(y) \subseteq Mapping
    BY RangeOf
  <2>3. QED
    BY <1>3, <2>1, <2>2
<1>7. g = [v |-> g.v, f |-> g.f]
  BY <1>6 DEF Mapping
<1>8. QED
  BY <1>1, <1>4, <1>5, <1>7

(* A running program's listed page is mapped.                              *)
LEMMA ListedMapped ==
  ASSUME NEW m, NEW n, NEW c, NEW k, n \in Nat, n <= LastFrame + 1, Held(m, n, c, k), NEW cur, Mapped(m, c, k, cur),
         NEW g \in ListedBy(c, k, cur)
  PROVE  W(m, g.v, Levels) = g.f /\ W(m, g.v, Levels) # Absent
<1>1. cur \in Procs \cup {None}
  BY DEF Mapped
<1>2. g = [v |-> g.v, f |-> g.f] /\ g.v \in UserRange /\ g.f \in FirstFrame .. n - 1
  BY <1>1, ListedPage
<1>3. LastFrame \in Nat /\ FirstFrame \in 4 .. LastFrame + 1
  BY Sizes
<1>4. g.f \in Frame /\ g.f # Absent
  BY <1>2, <1>3 DEF Frame, Absent
<1>5. QED
  BY <1>2, <1>4 DEF Mapped

(* After a page fault of the running program all is well again.            *)
LEMMA FaultFine ==
  ASSUME NEW s, IsState(s), NEW v
  PROVE  \E r :
         /\ r = page_fault(s, v) /\ IsState(r) /\ r.torn = s.torn /\ (~r.short => ~s.short)
         /\ /\ cur_ws # None /\ v \in Pages
            /\ ~r.short /\ Fine(s, cur_ws) /\ W(s.mem, v, Levels) = Absent
            => /\ Fine(r, cur_ws)
               /\ \A w \in Pages \ {v, KernelPage} : W(r.mem, w, Levels) = W(s.mem, w, Levels)
<1>1. PICK a : a = Allocated(s) /\ Kept(s, a) /\ (~a.short => s.next <= LastFrame)
  BY AllocatedKept
<1>2. IsState(a) /\ a.torn = s.torn /\ (~a.short => ~s.short)
  BY <1>1 DEF Kept
<1>3. PICK x : x = NextFrame(s)
  OBVIOUS
<1>4. PICK b : b = Noted(a, v, x) /\ IsState(b) /\ b.torn = a.torn /\ (~b.short => ~a.short)
  BY <1>2, FaultKept
<1>5. PICK r :
        /\ r = set_pt_entry(b, v, x) /\ Kept(b, r)
        /\ /\ ~r.short /\ TreeOk(b.mem, b.next) /\ v \in Pages /\ x \in Frame \cup {Absent}
           /\ v = KernelPage => x # Absent
           => /\ Grown(b, r) /\ W(r.mem, v, Levels) = x
              /\ \A w \in Pages \ {v, KernelPage} : W(r.mem, w, Levels) = W(b.mem, w, Levels)
  BY <1>4, EntryIsSet
<1>6. /\ IsState(r) /\ r.torn = b.torn /\ (~r.short => ~b.short)
      /\ r.code = b.code /\ r.stack = b.stack
  BY <1>5 DEF Kept
<1>7. r = page_fault(s, v)
  BY <1>1, <1>3, <1>4, <1>5 DEF page_fault
<1>8. ASSUME cur_ws # None, v \in Pages, ~r.short, Fine(s, cur_ws), W(s.mem, v, Levels) = Absent
      PROVE  /\ Fine(r, cur_ws)
             /\ \A w \in Pages \ {v, KernelPage} : W(r.mem, w, Levels) = W(s.mem, w, Levels)
  <2> DEFINE n == s.next
  <2>1. ~b.short /\ ~a.short /\ n <= LastFrame
    BY <1>1, <1>4, <1>6, <1>8
  <2>2. TreeOk(s.mem, n) /\ Held(s.mem, n, s.code, s.stack) /\ Mapped(s.mem, s.code, s.stack, cur_ws)
    BY <1>8 DEF Fine
  <2>3. n \in Nat /\ FirstFrame <= n /\ LastFrame \in Nat /\ FirstFrame \in Nat
    <3>1. n \in Nat /\ FirstFrame <= n /\ LastFrame \in Nat
      BY <2>2, NextIs
    <3>2. FirstFrame \in 4 .. LastFrame + 1
      BY Sizes
    <3>3. QED
      BY <3>1, <3>2
  <2>4. /\ n \in FirstFrame .. LastFrame /\ n \in Frame /\ n # Absent /\ n + 1 \in n .. LastFrame + 1
        /\ n <= LastFrame + 1 /\ \A f \in 1 .. n - 1 : f # n
    BY <2>1, <2>3 DEF Frame, Absent
  <2>5. x = n /\ a = State(s.mem, n + 1, s.code, s.stack, s.kobjs, s.short, s.torn)
    BY <1>1, <1>3, <2>1, AllocatedIs
  <2>6. a.mem = s.mem /\ a.next = n + 1 /\ a.code = s.code /\ a.stack = s.stack
    BY <2>5, StateFields
  <2> HIDE DEF n
  <2>7. NoTable(s.mem, n)
    BY <2>2, <2>4 DEF TreeOk, NoTable
  <2>8. v # 0 /\ v # KernelPage
    BY <1>8, <2>2 DEF Mapped, TreeOk
  <2>9. cur_ws \in Procs /\ s.code[cur_ws] # <<>>
    BY <1>8, <2>2 DEF Mapped
  <2>10. \A g \in ListedBy(s.code, s.stack, cur_ws) : g.v # v
    BY <1>8, <2>2, <2>3, <2>4, ListedMapped
  <2>11. /\ b.mem = s.mem /\ b.next = n + 1
         /\ Held(b.mem, b.next, b.code, b.stack) /\ b.code[cur_ws] # <<>>
         /\ \A g : g \in ListedBy(b.code, b.stack, cur_ws) <=>
              \/ g \in ListedBy(s.code, s.stack, cur_ws)
              \/ v \in UserRange /\ g = [v |-> v, f |-> n]
    <3>1. v \in Pages \ {0, KernelPage} /\ ~Noted(a, v, n).short
      BY <1>4, <1>8, <2>1, <2>5, <2>8
    <3>2. /\ Held(a.mem, n, a.code, a.stack) /\ NoTable(a.mem, n) /\ a.code[cur_ws] # <<>>
          /\ \A g \in ListedBy(a.code, a.stack, cur_ws) : g.v # v
      BY <2>2, <2>6, <2>7, <2>9, <2>10
    <3>3. \E z :
         /\ z = Noted(a, v, n) /\ IsState(z) /\ z.mem = a.mem /\ z.next = n + 1
         /\ Held(z.mem, z.next, z.code, z.stack) /\ z.code[cur_ws] # <<>>
         /\ \A g : g \in ListedBy(z.code, z.stack, cur_ws) <=>
              \/ g \in ListedBy(a.code, a.stack, cur_ws)
              \/ v \in UserRange /\ g = [v |-> v, f |-> n]
      BY <1>2, <2>4, <2>6, <2>9, <3>1, <3>2, NotedRight
    <3>4. QED
      BY <1>4, <2>5, <2>6, <3>3
  <2>12. TreeOk(b.mem, b.next)
    BY <2>2, <2>4, <2>11, TreeLater
  <2>13. /\ Grown(b, r) /\ W(r.mem, v, Levels) = n
         /\ \A w \in Pages \ {v, KernelPage} : W(r.mem, w, Levels) = W(s.mem, w, Levels)
    BY <1>5, <1>8, <2>4, <2>5, <2>8, <2>11, <2>12
  <2>14. TreeOk(r.mem, r.next)
    BY <2>13 DEF Grown
  <2>15. Held(r.mem, r.next, r.code, r.stack)
    <3>1. b.next \in Nat
      BY <2>3, <2>11
    <3>2. QED
      BY <1>6, <2>11, <2>13, <3>1, HeldGrown
  <2>16. ASSUME NEW w \in UserRange, NEW f \in Frame
         PROVE  W(r.mem, w, Levels) = f <=> [v |-> w, f |-> f] \in ListedBy(r.code, r.stack, cur_ws)
    <3>a. PICK g : g = [v |-> w, f |-> f]
      OBVIOUS
    <3>0. g = [v |-> w, f |-> f] /\ g.v = w /\ g.f = f
      BY <3>a
    <3>1. CASE w = v
      <4>1. g \notin ListedBy(s.code, s.stack, cur_ws)
        BY <2>10, <3>0, <3>1
      <4>2. f = n <=> g = [v |-> v, f |-> n]
        BY <3>0, <3>1
      <4>3. QED
        BY <1>6, <2>11, <2>13, <3>0, <3>1, <4>1, <4>2
    <3>2. CASE w # v
      <4>1. g # [v |-> v, f |-> n]
        BY <3>0, <3>2
      <4>2. w \in Pages \ {v, KernelPage}
        <5>1. w \in 1 .. UserPages - 1 /\ UserPages \in Nat /\ KernelPage = UserPages
              /\ KernelPage \in 1 .. PageCount - 1
          BY Sizes DEF UserRange
        <5>2. w \in 0 .. PageCount - 1 /\ w # KernelPage
          BY <5>1, ReachPositive
        <5>3. QED
          BY <3>2, <5>2 DEF Pages
      <4>3. W(s.mem, w, Levels) = f <=> g \in ListedBy(s.code, s.stack, cur_ws)
        BY <2>2, <3>0 DEF Mapped
      <4>4. QED
        BY <1>6, <2>11, <2>13, <3>0, <4>1, <4>2, <4>3
    <3>3. QED
      BY <3>1, <3>2
  <2>17. W(r.mem, 0, Levels) # Absent
    <3>1. KernelPage \in 1 .. PageCount - 1
      BY Sizes
    <3>2. 0 \in 0 .. PageCount - 1 /\ 0 # KernelPage
      BY <3>1, ReachPositive
    <3>3. 0 \in Pages \ {v, KernelPage}
      BY <2>8, <3>2 DEF Pages
    <3>4. QED
      BY <2>2, <2>13, <3>3 DEF Mapped
  <2>18. Mapped(r.mem, r.code, r.stack, cur_ws)
    BY <1>6, <2>9, <2>11, <2>16, <2>17 DEF Mapped
  <2>19. QED
    BY <2>13, <2>14, <2>15, <2>18 DEF Fine
<1>9. QED
  BY <1>2, <1>4, <1>6, <1>7, <1>8

(* The tree of s is that of r, but for what is in the window.              *)
SameFor(s, r) ==
  /\ TreeOk(r.mem, r.next) /\ r.next = s.next
  /\ \A w \in Pages : \A l \in 0 .. Levels - 1 : W(r.mem, w, l) = W(s.mem, w, l)
  /\ \A w \in Pages \ {KernelPage} : W(r.mem, w, Levels) = W(s.mem, w, Levels)

(* Two steps that leave the tree leave it.                                 *)
LEMMA SameTwice ==
  ASSUME NEW s, NEW r, NEW q, SameFor(s, r), SameFor(r, q)
  PROVE  SameFor(s, q)
BY DEF SameFor

(* What a program stores is the content of a frame.                        *)
LEMMA DataWords == Filled(Data) \in Words
<1>1. LastFrame \in Nat
  BY Sizes
<1>2. -2 \in -2 .. LastFrame
  BY <1>1
<1>3. QED
  BY <1>2 DEF Words, Filled, Data, Slots

(* The window goes to a frame that is no table, and the frame is written.  *)
LEMMA FrameFilled ==
  ASSUME NEW s, IsState(s), TreeOk(s.mem, s.next), NEW f \in Frame, NoTable(s.mem, f),
         NEW row \in Words
  PROVE  /\ Window(Through(s, f).mem) = f
         /\ SameFor(s, PutFrame(Through(s, f), f, row))
<1>1. PICK z :
        /\ z = SetAt(s.mem, KPT0_0, 0, f)
        /\ TreeOk(z, s.next) /\ Window(z) = f
        /\ \A w \in Pages : \A l \in 0 .. Levels - 1 : W(z, w, l) = W(s.mem, w, l)
        /\ \A w \in Pages \ {KernelPage} : W(z, w, Levels) = W(s.mem, w, Levels)
  BY WindowIs
<1>2. PICK w : w = Through(s, f)
  OBVIOUS
<1>3. w = State(z, s.next, s.code, s.stack, s.kobjs, s.short, s.torn)
  BY <1>1, <1>2, ThroughIs
<1>4. IsState(w) /\ w.mem = z /\ w.next = s.next
  BY <1>3, StateFields
<1>5. PICK y : y = [z EXCEPT ![f] = row]
  OBVIOUS
<1>6. \A v \in Pages : \A l \in 0 .. Levels - 1 : W(z, v, l) # f
  BY <1>1 DEF NoTable
<1>7. TreeOk(y, s.next) /\ \A v \in Pages : \A l \in 0 .. Levels : W(y, v, l) = W(z, v, l)
  BY <1>1, <1>5, <1>6, FillKeeps
<1>8. PICK r : r = PutFrame(w, f, row)
  OBVIOUS
<1>9. r.mem = y /\ r.next = s.next
  <2>1. r = State(y, w.next, w.code, w.stack, w.kobjs, w.short, w.torn)
    BY <1>4, <1>5, <1>8, FramePut
  <2>2. QED
    BY <1>4, <2>1, StateFields
<1>10. Levels \in 0 .. Levels /\ \A l \in 0 .. Levels - 1 : l \in 0 .. Levels
  BY Sizes
<1>11. SameFor(s, r)
  BY <1>1, <1>7, <1>9, <1>10 DEF SameFor
<1>12. QED
  BY <1>1, <1>2, <1>4, <1>8, <1>11

(* One page of a new program's code is copied.                             *)
LEMMA PageCopied ==
  ASSUME NEW s, IsState(s), NEW f, NEW from
  PROVE  \E r :
         /\ r = CopiedPage(s, f, from) /\ IsState(r)
         /\ ~r.torn => Kept(s, r)
         /\ ~r.torn /\ TreeOk(s.mem, s.next) /\ f \in Frame /\ NoTable(s.mem, f) => SameFor(s, r)
<1>1. PICK w : w = Through(s, f) /\ Kept(s, w)
  BY PutKept
<1>2. IsState(w)
  BY <1>1 DEF Kept
<1>3. CASE cur_ws # None /\ Lookup(w.mem, from) = Absent
  <2>1. PICK q : q = page_fault(w, from) /\ IsState(q)
    BY <1>2, FaultFine
  <2>2. PICK b : b = TRUE
    OBVIOUS
  <2>3. PICK r : r = PutTorn(q, b)
    OBVIOUS
  <2>4. IsState(r) /\ r.torn = b
    BY <2>1, <2>3, TornPut, StateFields
  <2>5. PICK x : x = PutFrame(r, Window(r.mem), Filled(Data)) /\ Kept(r, x)
    BY <2>4, PutKept
  <2>6. IsState(x) /\ x.torn
    BY <2>2, <2>4, <2>5 DEF Kept
  <2>7. r = [page_fault(w, from) EXCEPT !.torn = TRUE]
    BY <2>1, <2>2, <2>3 DEF PutTorn
  <2>8. x = CopiedPage(s, f, from)
    BY <1>1, <1>3, <2>5, <2>7 DEF CopiedPage, PutFrame
  <2>9. QED
    BY <2>6, <2>8
<1>4. CASE ~(cur_ws # None /\ Lookup(w.mem, from) = Absent)
  <2>1. PICK x : x = PutFrame(w, Window(w.mem), Filled(Data)) /\ Kept(w, x)
    BY <1>2, PutKept
  <2>2. IsState(x) /\ Kept(s, x)
    <3>1. Kept(s, x)
      BY <1>1, <2>1, KeptTwice
    <3>2. QED
      BY <3>1 DEF Kept
  <2>3. x = CopiedPage(s, f, from)
    BY <1>1, <1>4, <2>1 DEF CopiedPage, PutFrame
  <2>4. ASSUME TreeOk(s.mem, s.next), f \in Frame, NoTable(s.mem, f)
        PROVE  SameFor(s, x)
    <3>1. PICK row \in Words : row = Filled(Data)
      BY DataWords
    <3>2. Window(Through(s, f).mem) = f /\ SameFor(s, PutFrame(Through(s, f), f, row))
      BY <2>4, FrameFilled
    <3>3. QED
      BY <1>1, <2>1, <3>1, <3>2
  <2>5. QED
    BY <2>2, <2>3, <2>4
<1>5. QED
  BY <1>3, <1>4

(* All of them are, in frames that are no tables.                          *)
LEMMA CodeCopied ==
  ASSUME NEW s, IsState(s), NEW f, NEW from
  PROVE  \E r :
         /\ r = Copied(s, f, from) /\ IsState(r)
         /\ ~r.torn => Kept(s, r)
         /\ /\ ~r.torn /\ TreeOk(s.mem, s.next)
            /\ \A i \in 1 .. CodePages : f + i - 1 \in Frame /\ NoTable(s.mem, f + i - 1)
            => SameFor(s, r)
<1> DEFINE Good == /\ TreeOk(s.mem, s.next)
                   /\ \A i \in 1 .. CodePages : f + i - 1 \in Frame /\ NoTable(s.mem, f + i - 1)
<1>1. PICK t :
        /\ t[0] = s
        /\ \A i \in 1 .. CodePages : t[i] = CopiedPage(t[i - 1], f + i - 1, from + i - 1)
        /\ Copied(s, f, from) = t[CodePages]
  BY CopiedIs
<1>2. CodePages \in Nat
  BY Sizes
<1> DEFINE G == {i \in 0 .. CodePages : /\ IsState(t[i]) /\ (~t[i].torn => Kept(s, t[i]))
                                        /\ (~t[i].torn /\ Good => SameFor(s, t[i]))}
<1>3. 0 \in G
  <2>1. Kept(s, s)
    BY DEF Kept
  <2>2. Good => SameFor(s, s)
    BY DEF SameFor
  <2>3. QED
    BY <1>1, <1>2, <2>1, <2>2
<1>4. ASSUME NEW i \in 1 .. CodePages, i - 1 \in G
      PROVE  i \in G
  <2>1. PICK q : /\ q = t[i - 1] /\ IsState(q) /\ (~q.torn => Kept(s, q))
                 /\ (~q.torn /\ Good => SameFor(s, q))
    BY <1>4
  <2>2. PICK r :
          /\ r = CopiedPage(q, f + i - 1, from + i - 1) /\ IsState(r)
          /\ ~r.torn => Kept(q, r)
          /\ /\ ~r.torn /\ TreeOk(q.mem, q.next) /\ f + i - 1 \in Frame /\ NoTable(q.mem, f + i - 1)
             => SameFor(q, r)
    BY <2>1, PageCopied
  <2>3. ~r.torn => Kept(q, r) /\ ~q.torn
    BY <2>2 DEF Kept
  <2>4. ~r.torn => Kept(s, r)
    BY <2>1, <2>3, KeptTwice
  <2>5. ASSUME ~r.torn, Good
        PROVE  SameFor(s, r)
    <3>1. SameFor(s, q)
      BY <2>1, <2>3, <2>5
    <3>2. TreeOk(q.mem, q.next) /\ f + i - 1 \in Frame /\ NoTable(q.mem, f + i - 1)
      BY <2>5, <3>1 DEF SameFor, NoTable
    <3>3. SameFor(q, r)
      BY <2>2, <2>5, <3>2
    <3>4. QED
      BY <3>1, <3>3, SameTwice
  <2>6. i \in 0 .. CodePages /\ r = t[i]
    BY <1>1, <1>2, <2>1, <2>2
  <2>7. QED
    BY <2>2, <2>4, <2>5, <2>6
<1> HIDE DEF G
<1>5. \A i \in 0 .. CodePages : i \in G
  BY <1>2, <1>3, <1>4, Upwards
<1>6. CodePages \in G
  BY <1>2, <1>5
<1>7. QED
  BY <1>1, <1>6 DEF G

(* What a workspace of one segment lists.                                  *)
LEMMA OneSegment ==
  ASSUME NEW g \in Seg
  PROVE  /\ <<g>> \in Seq(Seg) /\ <<g>> # <<>>
         /\ \A h : h \in Range(Listed(<<g>>)) <=> \E i \in 1 .. g.n : h = PageOf(g, i)
<1>1. <<g>> \in Seq(Seg) /\ Len(<<g>>) = 1 /\ <<g>>[1] = g
  OBVIOUS
<1>2. ASSUME NEW ws \in Seq(Seg), Len(ws) = 1, ws[1] = g
      PROVE  /\ ws # <<>>
             /\ \A h : h \in Range(Listed(ws)) <=> \E i \in 1 .. g.n : h = PageOf(g, i)
  <2>1. \A h : h \in Range(Listed(ws)) <=>
                 \E i \in 1 .. Len(ws) : \E j \in 1 .. ws[i].n : h = PageOf(ws[i], j)
    BY Listing
  <2>2. ASSUME NEW h
        PROVE  (\E i \in 1 .. Len(ws) : \E j \in 1 .. ws[i].n : h = PageOf(ws[i], j))
                 <=> \E j \in 1 .. ws[1].n : h = PageOf(ws[1], j)
    <3>1. \A i \in 1 .. Len(ws) : i = 1
      BY <1>2
    <3>2. 1 \in 1 .. Len(ws)
      BY <1>2
    <3>3. QED
      BY <3>1, <3>2, Zenon
  <2>3. ws # <<>>
    <3>1. Len(<<>>) = 0
      OBVIOUS
    <3>2. 0 # 1
      OBVIOUS
    <3>3. QED
      BY <1>2, <3>1, <3>2, Zenon
  <2>4. QED
    BY <1>2, <2>1, <2>2, <2>3
<1>3. QED
  BY <1>1, <1>2

(* The workspaces of a new program.                                        *)
CodeSeg(n)        == Segment(UserBottom, n, CodePages)
StackSeg(n)       == Segment(UserPages - 2, n, 2)
Given(ws, p, seg) == [ws EXCEPT ![p] = <<seg>>]

(* A new program's code pages begin at UserBottom.                         *)
LEMMA CodeSegLists ==
  ASSUME NEW n \in Nat, NEW g, g \in Range(Listed(<<CodeSeg(n)>>))
  PROVE  /\ g.v \in CodePart /\ g.v \in Nat /\ g = [v |-> g.v, f |-> n + g.v - 1]
         /\ g.f = n + g.v - 1 /\ g.f \in n .. n + CodePages - 1
<1>1. CodePages \in Nat /\ CodePages + 1 <= UserPages \div 2 /\ UserPages \in Nat /\ UserPages >= 4
  BY Sizes
<1>2. PICK s \in Seg : s = CodeSeg(n) /\ s.v = 1 /\ s.f = n /\ s.n = CodePages
  <2>1. PICK s : s = CodeSeg(n)
    OBVIOUS
  <2>2. s = [v |-> 1, f |-> n, n |-> CodePages]
    BY <2>1 DEF CodeSeg, Segment, UserBottom
  <2>3. s.v = 1 /\ s.f = n /\ s.n = CodePages /\ s \in Seg
    BY <1>1, <2>2 DEF Seg
  <2>4. QED
    BY <2>1, <2>3
<1>3. PICK i \in 1 .. s.n : g = PageOf(s, i)
  BY <1>2, OneSegment
<1>4. i \in 1 .. CodePages /\ g.v = i /\ g.f = n + i - 1
  BY <1>1, <1>2, <1>3 DEF PageOf
<1>5. g = [v |-> i, f |-> n + i - 1]
  BY <1>1, <1>2, <1>3, <1>4 DEF PageOf
<1>6. i \in CodePart
  <2>1. UserPages \div 2 <= UserPages - 2
    BY <1>1
  <2>2. QED
    BY <1>1, <1>4, <2>1 DEF CodePart, UserRange
<1>7. n + i - 1 \in n .. n + CodePages - 1
  BY <1>1, <1>4
<1>8. QED
  BY <1>4, <1>5, <1>6, <1>7

(* Its stacks are the last two pages of the user half.                     *)
LEMMA StackSegLists ==
  ASSUME NEW n \in Nat
  PROVE  \A g : g \in Range(Listed(<<StackSeg(n)>>)) <=>
           \/ g = [v |-> UserPages - 2, f |-> n]
           \/ g = [v |-> UserPages - 1, f |-> n + 1]
<1>1. UserPages \in Nat /\ UserPages >= 4
  BY Sizes
<1>2. PICK s \in Seg : s = StackSeg(n) /\ s.v = UserPages - 2 /\ s.f = n /\ s.n = 2
  <2>1. PICK s : s = StackSeg(n)
    OBVIOUS
  <2>2. s = [v |-> UserPages - 2, f |-> n, n |-> 2]
    BY <2>1 DEF StackSeg, Segment
  <2>3. s.v = UserPages - 2 /\ s.f = n /\ s.n = 2 /\ s \in Seg
    BY <1>1, <2>2 DEF Seg
  <2>4. QED
    BY <2>1, <2>3
<1>3. \A g : g \in Range(Listed(<<s>>)) <=> \E i \in 1 .. s.n : g = PageOf(s, i)
  BY OneSegment
<1>4. \A i : i \in 1 .. s.n <=> i = 1 \/ i = 2
  BY <1>2
<1>5. PageOf(s, 1) = [v |-> UserPages - 2, f |-> n]
  <2>1. s.v + 1 - 1 = UserPages - 2 /\ s.f + 1 - 1 = n
    BY <1>1, <1>2
  <2>2. QED
    BY <2>1 DEF PageOf
<1>6. PageOf(s, 2) = [v |-> UserPages - 1, f |-> n + 1]
  <2>1. s.v + 2 - 1 = UserPages - 1 /\ s.f + 2 - 1 = n + 1
    BY <1>1, <1>2
  <2>2. QED
    BY <2>1 DEF PageOf
<1>7. ASSUME NEW g
      PROVE  (\E i \in 1 .. s.n : g = PageOf(s, i)) <=> g = PageOf(s, 1) \/ g = PageOf(s, 2)
  BY <1>4, Zenon
<1>8. QED
  BY <1>2, <1>3, <1>5, <1>6, <1>7

(* The program is given frames after the others'.                          *)
LEMMA HeldSpawned ==
  ASSUME NEW m, NEW n, TreeOk(m, n), NEW c, NEW k, Held(m, n, c, k), NEW p \in Procs,
         NEW x, x = n + CodePages + 2, x <= LastFrame + 1
  PROVE  \E d, j :
         /\ d = Given(c, p, CodeSeg(n)) /\ j = Given(k, p, StackSeg(n + CodePages))
         /\ Held(m, x, d, j) /\ d[p] # <<>>
         /\ \A q \in Procs \ {p} : d[q] = c[q] /\ j[q] = k[q]
<1>1. /\ n \in Nat /\ FirstFrame \in Nat /\ FirstFrame <= n /\ LastFrame \in Nat
      /\ CodePages \in Nat \ {0} /\ UserPages \in Nat /\ UserPages >= 4 /\ x \in Nat
  <2>1. n \in Nat /\ FirstFrame <= n /\ LastFrame \in Nat /\ FirstFrame \in 4 .. LastFrame + 1
    BY NextIs, Sizes
  <2>2. CodePages \in Nat \ {0} /\ UserPages \in Nat /\ UserPages >= 4
    BY Sizes
  <2>3. QED
    BY <2>1, <2>2
<1>2. PICK i \in Nat : i = n + CodePages
  BY <1>1
<1>3. PICK a \in Seg, b \in Seg : a = CodeSeg(n) /\ b = StackSeg(i)
  <2>1. CodeSeg(n) \in Seg
    BY <1>1 DEF CodeSeg, Segment, Seg, UserBottom
  <2>2. StackSeg(i) \in Seg
    <3>1. UserPages - 2 \in Nat
      BY <1>1
    <3>2. QED
      BY <3>1 DEF StackSeg, Segment, Seg
  <2>3. QED
    BY <2>1, <2>2
<1>4. PICK d, j : d = Given(c, p, a) /\ j = Given(k, p, b)
  OBVIOUS
<1>5. PICK y, z : y = <<a>> /\ z = <<b>> /\ y \in Seq(Seg) /\ z \in Seq(Seg) /\ y # <<>>
  BY OneSegment
<1>6. d = [c EXCEPT ![p] = y] /\ j = [k EXCEPT ![p] = z]
  BY <1>4, <1>5 DEF Given
<1>7. c \in [Procs -> Seq(Seg)] /\ k \in [Procs -> Seq(Seg)]
  BY DEF Held
<1>8. /\ d \in [Procs -> Seq(Seg)] /\ j \in [Procs -> Seq(Seg)]
      /\ d[p] = y /\ j[p] = z
      /\ \A q \in Procs \ {p} : d[q] = c[q] /\ j[q] = k[q]
  BY <1>5, <1>6, <1>7
<1>9. ASSUME NEW g \in Range(Listed(y))
      PROVE  /\ g.v \in CodePart /\ g.v \in Nat /\ g = [v |-> g.v, f |-> n + g.v - 1]
             /\ g.f = n + g.v - 1 /\ g.f \in n .. i - 1
  <2>1. g \in Range(Listed(<<CodeSeg(n)>>))
    BY <1>3, <1>5
  <2>2. QED
    BY <1>1, <1>2, <2>1, CodeSegLists
<1>10. \A g : g \in Range(Listed(z)) <=>
         \/ g = [v |-> UserPages - 2, f |-> i]
         \/ g = [v |-> UserPages - 1, f |-> i + 1]
  BY <1>2, <1>3, <1>5, StackSegLists
<1>11. ASSUME NEW g \in Range(Listed(z))
       PROVE  /\ g.v \in StackPart /\ g.f \in {i, i + 1}
              /\ g.f = g.v - (UserPages - 2) + i /\ g = [v |-> g.v, f |-> g.f]
  <2>1. UserPages - 2 \in StackPart /\ UserPages - 1 \in StackPart
    BY <1>1 DEF StackPart, CodePart, UserRange
  <2>2. CASE g = [v |-> UserPages - 2, f |-> i]
    <3>1. g.v = UserPages - 2 /\ g.f = i
      BY <2>2
    <3>2. QED
      BY <1>1, <1>2, <2>1, <2>2, <3>1
  <2>3. CASE g = [v |-> UserPages - 1, f |-> i + 1]
    <3>1. g.v = UserPages - 1 /\ g.f = i + 1
      BY <2>3
    <3>2. QED
      BY <1>1, <1>2, <2>1, <2>3, <3>1
  <2>4. QED
    BY <1>10, <2>2, <2>3
<1>12. ListedBy(d, j, p) = Range(Listed(y)) \cup Range(Listed(z))
  BY <1>8, Running
<1>13. ASSUME NEW q \in Procs \ {p}
       PROVE  ListedBy(d, j, q) = ListedBy(c, k, q)
  <2>1. /\ ListedBy(d, j, q) = Range(Listed(d[q])) \cup Range(Listed(j[q]))
        /\ ListedBy(c, k, q) = Range(Listed(c[q])) \cup Range(Listed(k[q]))
    BY Running
  <2>2. d[q] = c[q] /\ j[q] = k[q]
    BY <1>8
  <2>3. QED
    BY <2>1, <2>2
<1>14. ASSUME NEW g \in ListedBy(d, j, p)
       PROVE  g.f \in n .. x - 1 /\ NoTable(m, g.f)
  <2>1. g.f \in n .. x - 1
    <3>1. CASE g \in Range(Listed(y))
      <4>1. g.f \in n .. i - 1
        BY <1>9, <3>1
      <4>2. QED
        BY <1>1, <1>2, <4>1
    <3>2. CASE g \in Range(Listed(z))
      <4>1. g.f \in {i, i + 1}
        BY <1>11, <3>2
      <4>2. QED
        BY <1>1, <1>2, <4>1
    <3>3. QED
      BY <1>12, <3>1, <3>2
  <2>2. ASSUME NEW w \in Pages, NEW l \in 0 .. Levels - 1
        PROVE  W(m, w, l) # g.f
    <3>1. W(m, w, l) = Absent \/ W(m, w, l) \in 1 .. n - 1
      BY DEF TreeOk
    <3>2. QED
      BY <1>1, <2>1, <3>1 DEF Absent
  <2>3. QED
    BY <2>1, <2>2 DEF NoTable
<1>15. ASSUME NEW q \in Procs \ {p}, NEW g \in ListedBy(d, j, q)
       PROVE  /\ g.f \in FirstFrame .. n - 1 /\ NoTable(m, g.f)
              /\ g.f \in FirstFrame .. x - 1
  <2>1. g.f \in FirstFrame .. n - 1 /\ NoTable(m, g.f)
    BY <1>13 DEF Held
  <2>2. QED
    BY <1>1, <2>1
<1>16. \A q \in Procs : /\ \A g \in Range(Listed(d[q])) : g.v \in CodePart
                        /\ \A g \in Range(Listed(j[q])) : g.v \in StackPart
  <2>1. ASSUME NEW q \in Procs, q # p
        PROVE  /\ \A g \in Range(Listed(d[q])) : g.v \in CodePart
               /\ \A g \in Range(Listed(j[q])) : g.v \in StackPart
    BY <1>8, <2>1, SMTT(40) DEF Held
  <2>2. QED
    BY <1>8, <1>9, <1>11, <2>1
<1>17. \A q \in Procs : \A g \in ListedBy(d, j, q) : g.f \in FirstFrame .. x - 1 /\ NoTable(m, g.f)
  <2>1. ASSUME NEW g \in ListedBy(d, j, p)
        PROVE  g.f \in FirstFrame .. x - 1 /\ NoTable(m, g.f)
    <3>1. g.f \in n .. x - 1 /\ NoTable(m, g.f)
      BY <1>14
    <3>2. QED
      BY <1>1, <3>1
  <2>2. QED
    BY <1>15, <2>1
<1>18. ASSUME NEW g \in ListedBy(d, j, p), NEW h \in ListedBy(d, j, p), g.v = h.v \/ g.f = h.f
       PROVE  g = h
  <2>1. CASE g \in Range(Listed(y)) /\ h \in Range(Listed(y))
    <3>1. /\ g.v \in Nat /\ g = [v |-> g.v, f |-> n + g.v - 1] /\ g.f = n + g.v - 1
          /\ h.v \in Nat /\ h = [v |-> h.v, f |-> n + h.v - 1] /\ h.f = n + h.v - 1
      BY <1>9, <2>1
    <3>2. g.v = h.v
      BY <1>1, <1>18, <3>1
    <3>3. QED
      BY <3>1, <3>2
  <2>2. CASE g \in Range(Listed(z)) /\ h \in Range(Listed(z))
    <3>1. g.v \in Nat /\ h.v \in Nat
      BY <1>11, <2>2 DEF StackPart, UserRange
    <3>2. /\ g.f = g.v - (UserPages - 2) + i /\ g = [v |-> g.v, f |-> g.f]
          /\ h.f = h.v - (UserPages - 2) + i /\ h = [v |-> h.v, f |-> h.f]
      BY <1>11, <2>2
    <3>3. g.v = h.v /\ g.f = h.f
      BY <1>1, <1>2, <1>18, <3>1, <3>2
    <3>4. QED
      BY <3>2, <3>3
  <2>3. ASSUME NEW u \in Range(Listed(y)), NEW w \in Range(Listed(z))
        PROVE  u.v # w.v /\ u.f # w.f
    <3>1. u.v \in CodePart /\ w.v \in StackPart /\ u.f \in n .. i - 1 /\ w.f \in {i, i + 1}
      BY <1>9, <1>11
    <3>2. u.v # w.v
      BY <3>1 DEF StackPart
    <3>3. u.f # w.f
      BY <1>1, <1>2, <3>1
    <3>4. QED
      BY <3>2, <3>3
  <2>4. QED
    BY <1>12, <1>18, <2>1, <2>2, <2>3
<1>19. \A q \in Procs : \A g, h \in ListedBy(d, j, q) : g.v = h.v => g = h
  <2>1. ASSUME NEW q \in Procs, q # p, NEW g \in ListedBy(d, j, q), NEW h \in ListedBy(d, j, q), g.v = h.v
        PROVE  g = h
    BY <1>13, <2>1, SMTT(40) DEF Held
  <2>2. QED
    BY <1>18, <2>1
<1>20. ASSUME NEW q \in Procs \ {p}, NEW g \in ListedBy(d, j, q), NEW h \in ListedBy(d, j, p)
       PROVE  g.f # h.f
  <2>1. g.f \in FirstFrame .. n - 1 /\ h.f \in n .. x - 1
    BY <1>14, <1>15
  <2>2. QED
    BY <1>1, <2>1
<1>21. \A q, r \in Procs : \A g \in ListedBy(d, j, q), h \in ListedBy(d, j, r) :
         g.f = h.f => q = r /\ g = h
  <2>1. ASSUME NEW q \in Procs, NEW r \in Procs, q # p, r # p,
               NEW g \in ListedBy(d, j, q), NEW h \in ListedBy(d, j, r), g.f = h.f
        PROVE  q = r /\ g = h
    BY <1>13, <2>1, SMTT(40) DEF Held
  <2>2. QED
    BY <1>18, <1>20, <2>1
<1>22. \A q \in Procs : d[q] # <<>> =>
         \A v \in {UserPages - 2, UserPages - 1} : \E g \in Range(Listed(j[q])) : g.v = v
  <2>1. ASSUME NEW q \in Procs, q # p, d[q] # <<>>, NEW v \in {UserPages - 2, UserPages - 1}
        PROVE  \E g \in Range(Listed(j[q])) : g.v = v
    <3>1. d[q] = c[q] /\ j[q] = k[q]
      BY <1>8, <2>1
    <3>2. \E g \in Range(Listed(k[q])) : g.v = v
      BY <2>1, <3>1 DEF Held
    <3>3. QED
      BY <3>1, <3>2
  <2>2. ASSUME NEW v \in {UserPages - 2, UserPages - 1}
        PROVE  \E g \in Range(Listed(j[p])) : g.v = v
    <3>1. PICK g, h : g = [v |-> UserPages - 2, f |-> i] /\ h = [v |-> UserPages - 1, f |-> i + 1]
      OBVIOUS
    <3>2. g.v = UserPages - 2 /\ h.v = UserPages - 1
      BY <3>1
    <3>3. g \in Range(Listed(z)) /\ h \in Range(Listed(z))
      BY <1>10, <3>1
    <3>4. QED
      BY <1>8, <2>2, <3>2, <3>3
  <2>3. QED
    BY <2>1, <2>2
<1>23. Held(m, x, d, j)
  BY <1>8, <1>16, <1>17, <1>19, <1>21, <1>22 DEF Held
<1>24. d[p] # <<>>
  BY <1>5, <1>8
<1>25. QED
  BY <1>2, <1>3, <1>4, <1>8, <1>23, <1>24

(* What spawn_thread adds to the state.                                    *)
LEMMA StackIs ==
  ASSUME NEW s, IsState(s), NEW p
  PROVE  \E m :
         /\ m = PutFrame(Through(s, s.next + 1), s.next + 1, Filled(Data)).mem
         /\ WithStack(s, p) = State(m, s.next + 2, Given(s.code, p, CodeSeg(next)),
                                    Given(s.stack, p, StackSeg(s.next)), s.kobjs, s.short, s.torn)
<1>1. PICK w : w = Through(s, s.next + 1) /\ IsState(w)
                 /\ w.next = s.next /\ w.code = s.code /\ w.stack = s.stack /\ w.kobjs = s.kobjs
                 /\ w.short = s.short /\ w.torn = s.torn
  <2>1. PICK w : w = Through(s, s.next + 1)
    OBVIOUS
  <2>2. PICK m : m = SetAt(s.mem, KPT0_0, 0, s.next + 1)
    OBVIOUS
  <2>3. w = State(m, s.next, s.code, s.stack, s.kobjs, s.short, s.torn)
    BY <2>1, <2>2, ThroughIs
  <2>4. QED
    BY <2>1, <2>3, StateFields
<1>2. PICK row, f, a, b : /\ row = Filled(Data) /\ f = s.next + 1
                          /\ a = <<CodeSeg(next)>> /\ b = <<StackSeg(s.next)>>
  OBVIOUS
<1>3. PICK m : m = PutFrame(w, f, row).mem
  OBVIOUS
<1>4. m = [w.mem EXCEPT ![f] = row]
  BY <1>1, <1>3, FramePut, StateFields
<1>5. WithStack(s, p) = [w EXCEPT !.mem[f] = row, !.next = @ + 2, !.code[p] = a, !.stack[p] = b]
  BY <1>1, <1>2 DEF WithStack, StackPages, CodeSeg, StackSeg
<1>6. w = [mem |-> w.mem, next |-> w.next, code |-> w.code, stack |-> w.stack,
           kobjs |-> w.kobjs, short |-> w.short, torn |-> w.torn]
  BY <1>1 DEF IsState, State
<1>7. PICK d : d = [w.code EXCEPT ![p] = a]
  OBVIOUS
<1>8. PICK j : j = [w.stack EXCEPT ![p] = b]
  OBVIOUS
<1>9. PICK q : q = [mem |-> m, next |-> w.next + 2, code |-> d, stack |-> j,
                    kobjs |-> w.kobjs, short |-> w.short, torn |-> w.torn]
  OBVIOUS
<1>10. q = [w EXCEPT !.mem[f] = row, !.next = @ + 2, !.code[p] = a, !.stack[p] = b]
  <2>1. [w EXCEPT !.mem[f] = row, !.next = @ + 2, !.code[p] = a, !.stack[p] = b]
          = [w EXCEPT !.mem = m, !.next = w.next + 2, !.code = d, !.stack = j]
    BY <1>4, <1>7, <1>8
  <2>2. PICK r : r = [w EXCEPT !.mem = m, !.next = w.next + 2]
    OBVIOUS
  <2>3. r = [mem |-> m, next |-> w.next + 2, code |-> w.code, stack |-> w.stack,
              kobjs |-> w.kobjs, short |-> w.short, torn |-> w.torn]
    BY <1>6, <2>2
  <2>4. PICK k : k = [r EXCEPT !.code = d]
    OBVIOUS
  <2>5. k = [mem |-> m, next |-> w.next + 2, code |-> d, stack |-> w.stack,
              kobjs |-> w.kobjs, short |-> w.short, torn |-> w.torn]
    BY <2>3, <2>4
  <2>6. [k EXCEPT !.stack = j] = q
    BY <1>9, <2>5
  <2>7. [w EXCEPT !.mem = m, !.next = w.next + 2, !.code = d, !.stack = j]
          = [k EXCEPT !.stack = j]
    BY <2>2, <2>4
  <2>8. QED
    BY <2>1, <2>6, <2>7
<1>11. d = Given(s.code, p, CodeSeg(next)) /\ j = Given(s.stack, p, StackSeg(s.next))
  BY <1>1, <1>2, <1>7, <1>8 DEF Given
<1>12. m = PutFrame(Through(s, s.next + 1), s.next + 1, Filled(Data)).mem
  BY <1>1, <1>2, <1>3
<1>13. WithStack(s, p) = q
  BY <1>5, <1>10
<1>14. q = State(m, s.next + 2, d, j, s.kobjs, s.short, s.torn)
  BY <1>1, <1>9 DEF State
<1>15. QED
  BY <1>11, <1>12, <1>13, <1>14

(* Objects are taken: a shortage is not forgotten, the rest stays.         *)
LEMMA TakenIs ==
  ASSUME NEW s, IsState(s), NEW n
  PROVE  \E o : \E b : /\ Taken(s, n) = State(s.mem, s.next, s.code, s.stack, o, b, s.torn)
                       /\ ~b => ~s.short
<1>1. PICK o, b : /\ o = IF s.kobjs >= n THEN s.kobjs - n ELSE 0
                  /\ b = (s.short \/ s.kobjs < n)
  OBVIOUS
<1>2. Taken(s, n) = [s EXCEPT !.kobjs = o, !.short = b]
  BY <1>1 DEF Taken
<1>3. [s EXCEPT !.kobjs = o, !.short = b]
        = State(s.mem, s.next, s.code, s.stack, o, b, s.torn)
  <2>1. PICK q : q = [s EXCEPT !.kobjs = o]
    OBVIOUS
  <2>2. q = [mem |-> s.mem, next |-> s.next, code |-> s.code, stack |-> s.stack,
             kobjs |-> o, short |-> s.short, torn |-> s.torn]
    BY <2>1 DEF IsState, State
  <2>3. [q EXCEPT !.short = b] = State(s.mem, s.next, s.code, s.stack, o, b, s.torn)
    BY <2>2 DEF State
  <2>4. QED
    BY <2>1, <2>3
<1>4. ~b => ~s.short
  BY <1>1
<1>5. QED
  BY <1>2, <1>3, <1>4

(* So when some are given back.                                            *)
LEMMA GivenBackIs ==
  ASSUME NEW s, IsState(s), NEW n
  PROVE  \E o : GivenBack(s, n) = State(s.mem, s.next, s.code, s.stack, o, s.short, s.torn)
<1>1. PICK o : o = IF s.short THEN s.kobjs ELSE s.kobjs + n
  OBVIOUS
<1>2. GivenBack(s, n) = [s EXCEPT !.kobjs = o]
  BY <1>1 DEF GivenBack
<1>3. [s EXCEPT !.kobjs = o] = State(s.mem, s.next, s.code, s.stack, o, s.short, s.torn)
  BY DEF IsState, State
<1>4. QED
  BY <1>2, <1>3

(* Objects are taken, and some of them given back.                         *)
LEMMA ReturnedIs ==
  ASSUME NEW s, IsState(s), NEW n, NEW k
  PROVE  \E o : \E b : /\ GivenBack(Taken(s, n), k)
                               = State(s.mem, s.next, s.code, s.stack, o, b, s.torn)
                       /\ ~b => ~s.short
<1>1. PICK o, b : /\ Taken(s, n) = State(s.mem, s.next, s.code, s.stack, o, b, s.torn)
                  /\ ~b => ~s.short
  BY TakenIs
<1>2. PICK q : q = Taken(s, n)
  OBVIOUS
<1>3. /\ IsState(q) /\ q.mem = s.mem /\ q.next = s.next /\ q.code = s.code
      /\ q.stack = s.stack /\ q.short = b /\ q.torn = s.torn
  BY <1>1, <1>2, StateFields
<1>4. PICK x : GivenBack(q, k) = State(q.mem, q.next, q.code, q.stack, x, q.short, q.torn)
  BY <1>3, GivenBackIs
<1>5. GivenBack(q, k) = State(s.mem, s.next, s.code, s.stack, x, b, s.torn)
  BY <1>3, <1>4
<1>6. QED
  BY <1>1, <1>2, <1>5

(***************************************************************************)
(* The actions.                                                            *)
(***************************************************************************)

Upper == KernelPage + 1 .. PageCount - 1
Steady(s, r) ==
  \A w \in Upper : W(s.mem, w, Levels) # Absent => W(r.mem, w, Levels) = W(s.mem, w, Levels)

(* A step without a shortage or a torn copy leads from a fine state to a   *)
(* fine state, and the kernel's pages stay.                                *)
GoodStep ==
  \E r : /\ Becomes(r)
         /\ ~r.short /\ ~r.torn /\ Fine(Now, cur_ws) => Fine(r, cur_ws') /\ Steady(Now, r)

(* The kernel's pages above the window, the user pages and page 0 are      *)
(* pages and are not the window.                                           *)
LEMMA Uppers == Upper \subseteq Pages \ {KernelPage} /\ UserRange \subseteq Pages \ {KernelPage}
                  /\ 0 \in Pages \ {KernelPage}
<1>1. UserPages \in Nat /\ KernelPage = UserPages /\ KernelPage \in 1 .. PageCount - 1 /\ PageCount \in Nat
  BY Sizes, ReachPositive
<1>2. QED
  BY <1>1 DEF Upper, UserRange, Pages

(* Nothing is handed out, no user page moves: the state is as fine.        *)
LEMMA FineKept ==
  ASSUME NEW s, NEW r, NEW cur, Fine(s, cur), Grown(s, r), r.code = s.code, r.stack = s.stack,
         \A w \in Pages \ {KernelPage} : W(r.mem, w, Levels) = W(s.mem, w, Levels)
  PROVE  Fine(r, cur) /\ Steady(s, r)
<1>1. TreeOk(s.mem, s.next) /\ Held(s.mem, s.next, s.code, s.stack) /\ Mapped(s.mem, s.code, s.stack, cur)
  BY DEF Fine
<1>2. s.next \in Nat
  BY <1>1, NextIs
<1>3. Held(r.mem, r.next, r.code, r.stack)
  BY <1>1, <1>2, HeldGrown
<1>4. TreeOk(r.mem, r.next)
  BY DEF Grown
<1>5. Mapped(r.mem, r.code, r.stack, cur)
  <2>1. \A w \in UserRange \cup {0} : W(r.mem, w, Levels) = W(s.mem, w, Levels)
    BY Uppers
  <2>2. QED
    BY <1>1, <2>1 DEF Mapped
<1>6. Steady(s, r)
  BY Uppers DEF Steady
<1>7. QED
  BY <1>3, <1>4, <1>5, <1>6 DEF Fine

(* A touch of a missing page is a good step.                               *)
LEMMA TouchGood ==
  ASSUME NEW v \in Pages, touch(v)
  PROVE  GoodStep
<1>1. IsState(Now) /\ Now.mem = mem
  BY NowIs
<1>2. PICK r :
        /\ r = page_fault(Now, v) /\ IsState(r) /\ r.torn = Now.torn /\ (~r.short => ~Now.short)
        /\ /\ cur_ws # None /\ v \in Pages
           /\ ~r.short /\ Fine(Now, cur_ws) /\ W(Now.mem, v, Levels) = Absent
           => /\ Fine(r, cur_ws)
              /\ \A w \in Pages \ {v, KernelPage} : W(r.mem, w, Levels) = W(Now.mem, w, Levels)
  BY <1>1, FaultFine
<1>3. Becomes(r) /\ cur_ws' = cur_ws /\ cur_ws # None /\ W(mem, v, Levels) = Absent
  BY <1>2 DEF touch, Lookup, W
<1>5. ASSUME ~r.short, ~r.torn, Fine(Now, cur_ws)
      PROVE  Fine(r, cur_ws') /\ Steady(Now, r)
  <2>2. /\ Fine(r, cur_ws)
        /\ \A w \in Pages \ {v, KernelPage} : W(r.mem, w, Levels) = W(Now.mem, w, Levels)
    BY <1>1, <1>2, <1>3, <1>5
  <2>3. Steady(Now, r)
    BY <1>1, <1>3, <2>2, Uppers DEF Steady
  <2>4. QED
    BY <1>3, <2>2, <2>3
<1>6. QED
  BY <1>3, <1>5 DEF GoodStep

(* The frames for a new program's code are free.                           *)
LEMMA CodeFrames ==
  ASSUME NEW m, NEW n, TreeOk(m, n), n + CodePages - 1 <= LastFrame
  PROVE  /\ n + CodePages \in n .. LastFrame + 1
         /\ \A i \in 1 .. CodePages : n + i - 1 \in Frame /\ NoTable(m, n + i - 1)
<1>1. /\ n \in Nat /\ FirstFrame <= n /\ LastFrame \in Nat /\ CodePages \in Nat
  BY NextIs, Sizes
<1>2. ASSUME NEW i \in 1 .. CodePages
      PROVE  n + i - 1 \in Frame /\ NoTable(m, n + i - 1)
  <2>1. n + i - 1 \in n .. LastFrame /\ n + i - 1 \in 0 .. LastFrame /\ n + i - 1 # -1
    BY <1>1
  <2>2. ASSUME NEW w \in Pages, NEW l \in 0 .. Levels - 1
        PROVE  W(m, w, l) # n + i - 1
    <3>1. W(m, w, l) = Absent \/ W(m, w, l) \in 1 .. n - 1
      BY DEF TreeOk
    <3>2. QED
      BY <1>1, <2>1, <3>1 DEF Absent
  <2>3. QED
    BY <2>1, <2>2 DEF Frame, NoTable
<1>3. QED
  BY <1>1, <1>2

(* Another program is in the tree while one is spawned.                    *)
LEMMA MappedSpawned ==
  ASSUME NEW m, NEW z, NEW c, NEW k, NEW d, NEW j, NEW cur, Mapped(m, c, k, cur),
         NEW p \in Procs, c[p] = <<>>, \A q \in Procs \ {p} : d[q] = c[q] /\ j[q] = k[q],
         \A w \in Pages \ {KernelPage} : W(z, w, Levels) = W(m, w, Levels)
  PROVE  Mapped(z, d, j, cur)
<1>1. cur # p /\ cur \in Procs \cup {None}
  BY PagingAssumption DEF Mapped
<1>2. ListedBy(d, j, cur) = ListedBy(c, k, cur)
  <2>1. CASE cur \in Procs
    <3>1. /\ ListedBy(d, j, cur) = Range(Listed(d[cur])) \cup Range(Listed(j[cur]))
          /\ ListedBy(c, k, cur) = Range(Listed(c[cur])) \cup Range(Listed(k[cur]))
      BY <2>1, Running
    <3>2. d[cur] = c[cur] /\ j[cur] = k[cur]
      BY <1>1, <2>1
    <3>3. QED
      BY <3>1, <3>2
  <2>2. CASE cur = None
    BY <2>2, Running
  <2>3. QED
    BY <1>1, <2>1, <2>2
<1>3. cur # None => d[cur] # <<>>
  BY <1>1 DEF Mapped
<1>4. \A w \in UserRange \cup {0} : W(z, w, Levels) = W(m, w, Levels)
  BY Uppers
<1>5. QED
  BY <1>1, <1>2, <1>3, <1>4 DEF Mapped

(* A process is spawned, or not.                                           *)
LEMMA SpawnGood ==
  ASSUME NEW p \in Procs, NEW from, spawn_process(p, from)
  PROVE  GoodStep
<1>1. /\ IsState(Now) /\ Now.mem = mem /\ Now.next = next /\ Now.code = code /\ Now.stack = stack
  BY NowIs
<1>2. cur_ws' = cur_ws /\ code[p] = <<>>
  BY DEF spawn_process
<1>4. CASE Becomes(GivenBack(Taken(Now, 2), 1))
  <2>1. PICK o, b : GivenBack(Taken(Now, 2), 1)
                      = State(Now.mem, Now.next, Now.code, Now.stack, o, b, Now.torn)
    BY <1>1, ReturnedIs
  <2>2. PICK r : r = GivenBack(Taken(Now, 2), 1) /\ Becomes(r)
    BY <1>4
  <2>3. r.mem = mem /\ r.next = next /\ r.code = code /\ r.stack = stack
    BY <1>1, <2>1, <2>2, StateFields
  <2>4. ASSUME ~r.short, ~r.torn, Fine(Now, cur_ws)
        PROVE  Fine(r, cur_ws') /\ Steady(Now, r)
    BY <1>1, <1>2, <2>3, <2>4 DEF Fine, Steady
  <2>5. QED
    BY <2>2, <2>3, <2>4 DEF GoodStep
<1> DEFINE f0 == [Now EXCEPT !.next = @ + CodePages]
           s  == Taken(f0, 2)
           c  == Copied(s, next, from)
<1>5. f0 = State(mem, next + CodePages, code, stack, Now.kobjs, Now.short, Now.torn)
  BY <1>1 DEF IsState, State
<1>6. /\ IsState(s)
      /\ s.mem = mem /\ s.next = next + CodePages /\ s.code = code /\ s.stack = stack
  <2>1. PICK n, z : n = next + CodePages /\ z = State(mem, n, code, stack, Now.kobjs, Now.short, Now.torn)
    OBVIOUS
  <2>2. IsState(z) /\ z.mem = mem /\ z.next = n /\ z.code = code /\ z.stack = stack
    BY <2>1, StateFields
  <2>3. z = f0
    BY <1>5, <2>1
  <2>4. PICK o, b : Taken(z, 2) = State(z.mem, z.next, z.code, z.stack, o, b, z.torn)
    BY <2>2, TakenIs
  <2>5. PICK y : y = Taken(z, 2)
    OBVIOUS
  <2>6. IsState(y) /\ y.mem = z.mem /\ y.next = z.next /\ y.code = z.code /\ y.stack = z.stack
    BY <2>4, <2>5, StateFields
  <2>7. y = s
    BY <2>3, <2>5
  <2>8. QED
    BY <2>1, <2>2, <2>6, <2>7
<1> HIDE DEF s, f0
<1>7. /\ IsState(c) /\ (~c.torn => Kept(s, c))
      /\ /\ ~c.torn /\ TreeOk(s.mem, s.next)
         /\ \A i \in 1 .. CodePages : next + i - 1 \in Frame /\ NoTable(s.mem, next + i - 1)
         => SameFor(s, c)
  BY <1>6, CodeCopied
<1> HIDE DEF c
<1>8. ASSUME ~c.torn
      PROVE  c.code = code /\ c.stack = stack
  BY <1>6, <1>7, <1>8 DEF Kept
<1>9. ASSUME next + CodePages - 1 <= LastFrame, ~c.torn, Fine(Now, cur_ws)
      PROVE  /\ SameFor(s, c) /\ Grown(Now, c)
             /\ \A w \in Pages \ {KernelPage} : W(c.mem, w, Levels) = W(mem, w, Levels)
  <2>2. TreeOk(mem, next)
    BY <1>1, <1>9 DEF Fine
  <2>3. /\ next + CodePages \in next .. LastFrame + 1
        /\ \A i \in 1 .. CodePages : next + i - 1 \in Frame /\ NoTable(mem, next + i - 1)
    BY <1>9, <2>2, CodeFrames
  <2>4. TreeOk(s.mem, s.next)
    BY <1>6, <2>2, <2>3, TreeLater
  <2>5. SameFor(s, c)
    BY <1>6, <1>7, <1>9, <2>3, <2>4
  <2>6. Grown(Now, c) /\ \A w \in Pages \ {KernelPage} : W(c.mem, w, Levels) = W(mem, w, Levels)
    BY <1>1, <1>6, <2>3, <2>5 DEF SameFor, Grown
  <2>7. QED
    BY <2>5, <2>6
<1>10. CASE /\ next + CodePages - 1 <= LastFrame
            /\ Becomes(GivenBack(Taken(c, 3), 2))
  <2>1. PICK r : r = GivenBack(Taken(c, 3), 2)
    OBVIOUS
  <2>2. PICK o, b : GivenBack(Taken(c, 3), 2)
                      = State(c.mem, c.next, c.code, c.stack, o, b, c.torn)
    BY <1>7, ReturnedIs
  <2>3. /\ r.mem = c.mem /\ r.next = c.next /\ r.code = c.code /\ r.stack = c.stack
        /\ r.torn = c.torn
    BY <2>1, <2>2, StateFields
  <2>4. ASSUME ~r.short, ~r.torn, Fine(Now, cur_ws)
        PROVE  Fine(r, cur_ws') /\ Steady(Now, r)
    <3>1. /\ Grown(Now, c)
          /\ \A w \in Pages \ {KernelPage} : W(c.mem, w, Levels) = W(mem, w, Levels)
      BY <1>9, <1>10, <2>3, <2>4
    <3>2. Grown(Now, r)
      BY <2>3, <3>1 DEF Grown
    <3>3. r.code = Now.code /\ r.stack = Now.stack
      BY <1>1, <1>8, <2>3, <2>4
    <3>4. \A w \in Pages \ {KernelPage} : W(r.mem, w, Levels) = W(Now.mem, w, Levels)
      BY <1>1, <2>3, <3>1
    <3>5. QED
      BY <1>2, <2>4, <3>2, <3>3, <3>4, FineKept
  <2>5. QED
    BY <1>10, <2>1, <2>3, <2>4 DEF GoodStep
<1>11. CASE /\ next + CodePages - 1 <= LastFrame
            /\ c.next + StackPages - 1 <= LastFrame
            /\ Becomes(Taken(WithStack(c, p), 3))
  <2>1. PICK f : f = c.next + 1
    OBVIOUS
  <2>2. PICK row \in Words : row = Filled(Data)
    BY DataWords
  <2>3. PICK y : y = PutFrame(Through(c, f), f, row)
    OBVIOUS
  <2>4. PICK m : m = y.mem
    OBVIOUS
  <2>5. PICK r : r = Taken(WithStack(c, p), 3)
    OBVIOUS
  <2>6. /\ r.mem = m /\ r.next = c.next + 2 /\ r.code = Given(c.code, p, CodeSeg(next))
        /\ r.stack = Given(c.stack, p, StackSeg(c.next)) /\ r.torn = c.torn
    <3>1. PICK w : /\ w = WithStack(c, p)
                   /\ w = State(m, c.next + 2, Given(c.code, p, CodeSeg(next)),
                                Given(c.stack, p, StackSeg(c.next)), c.kobjs, c.short, c.torn)
      BY <1>7, <2>1, <2>2, <2>3, <2>4, StackIs
    <3>2. /\ IsState(w) /\ w.mem = m /\ w.next = c.next + 2
          /\ w.code = Given(c.code, p, CodeSeg(next))
          /\ w.stack = Given(c.stack, p, StackSeg(c.next)) /\ w.torn = c.torn
      BY <3>1, StateFields
    <3>3. PICK o, b : Taken(w, 3) = State(w.mem, w.next, w.code, w.stack, o, b, w.torn)
      BY <3>2, TakenIs
    <3>4. r = Taken(w, 3)
      BY <2>5, <3>1
    <3>5. /\ r.mem = w.mem /\ r.next = w.next /\ r.code = w.code
          /\ r.stack = w.stack /\ r.torn = w.torn
      BY <3>3, <3>4, StateFields
    <3>6. QED
      BY <3>2, <3>5
  <2>7. ASSUME ~r.short, ~r.torn, Fine(Now, cur_ws)
        PROVE  Fine(r, cur_ws') /\ Steady(Now, r)
    <3>1. /\ SameFor(s, c) /\ Grown(Now, c)
          /\ \A w \in Pages \ {KernelPage} : W(c.mem, w, Levels) = W(mem, w, Levels)
      BY <1>9, <1>11, <2>6, <2>7
    <3>2. /\ TreeOk(mem, next) /\ Held(mem, next, code, stack) /\ Mapped(mem, code, stack, cur_ws)
      BY <1>1, <2>7 DEF Fine
    <3>3. c.code = code /\ c.stack = stack /\ c.next = next + CodePages /\ TreeOk(c.mem, c.next)
      BY <1>6, <1>8, <2>6, <2>7, <3>1 DEF SameFor
    <3>4. c.next \in Nat /\ LastFrame \in Nat /\ next \in Nat /\ next <= LastFrame + 1
      BY <3>2, <3>3, NextIs
    <3>5. PICK x : x = c.next + 2
      OBVIOUS
    <3>6. /\ f \in Frame /\ f \in c.next .. LastFrame /\ x \in c.next .. LastFrame + 1
          /\ x <= LastFrame + 1 /\ next \in next .. LastFrame + 1 /\ f # -1
      BY <1>11, <2>1, <3>4, <3>5 DEF StackPages, Frame
    <3>7. NoTable(c.mem, f)
      <4>1. ASSUME NEW w \in Pages, NEW l \in 0 .. Levels - 1
            PROVE  W(c.mem, w, l) # f
        <5>1. W(c.mem, w, l) = Absent \/ W(c.mem, w, l) \in 1 .. c.next - 1
          BY <3>3 DEF TreeOk
        <5>2. QED
          BY <3>4, <3>6, <5>1 DEF Absent
      <4>2. QED
        BY <4>1 DEF NoTable
    <3>8. SameFor(c, y)
      BY <1>7, <2>2, <2>3, <3>3, <3>6, <3>7, FrameFilled
    <3>9. /\ TreeOk(m, c.next)
          /\ \A w \in Pages : \A l \in 0 .. Levels - 1 : W(m, w, l) = W(mem, w, l)
          /\ \A w \in Pages \ {KernelPage} : W(m, w, Levels) = W(mem, w, Levels)
      BY <1>6, <2>4, <3>1, <3>8 DEF SameFor
    <3>10. TreeOk(m, x)
      BY <3>6, <3>9, TreeLater
    <3>11. TreeOk(m, next)
      <4>1. /\ m \in [Frame -> Words] /\ W(m, KernelPage, Levels) # Absent
            /\ \A w \in Pages : W(m, w, Levels) \in Frame \cup {Absent}
        BY <3>9 DEF TreeOk
      <4>2. QED
        BY <3>2, <3>6, <3>9, <4>1, SameTree
    <3>12. Held(m, next, code, stack)
      <4>1. PICK q : q = State(m, next, code, stack, kobjs, Now.short, Now.torn)
        OBVIOUS
      <4>2. q.mem = m /\ q.next = next
        BY <4>1, StateFields
      <4>3. Grown(Now, q)
        BY <1>1, <3>6, <3>9, <3>11, <4>2 DEF Grown
      <4>4. Held(q.mem, q.next, code, stack)
        BY <1>1, <3>2, <3>4, <4>3, HeldGrown
      <4>5. QED
        BY <4>2, <4>4
    <3>13. PICK d, j :
             /\ d = Given(code, p, CodeSeg(next)) /\ j = Given(stack, p, StackSeg(next + CodePages))
             /\ Held(m, x, d, j) /\ d[p] # <<>>
             /\ \A q \in Procs \ {p} : d[q] = code[q] /\ j[q] = stack[q]
      <4>1. x = next + CodePages + 2
        BY <3>3, <3>5
      <4>2. QED
        BY <3>6, <3>11, <3>12, <4>1, HeldSpawned
    <3>14. r.code = d /\ r.stack = j /\ r.next = x
      BY <2>6, <3>3, <3>5, <3>13
    <3>15. Mapped(m, d, j, cur_ws)
      BY <1>2, <3>2, <3>9, <3>13, MappedSpawned
    <3>16. Steady(Now, r)
      BY <1>1, <2>6, <3>9, Uppers DEF Steady
    <3>17. QED
      BY <1>2, <2>6, <3>10, <3>13, <3>14, <3>15, <3>16 DEF Fine
  <2>8. QED
    BY <1>11, <2>5, <2>6, <2>7 DEF GoodStep
<1>12. QED
  BY <1>4, <1>10, <1>11 DEF spawn_process, c, s, f0

(* After the pages of one program were taken out and those of another put  *)
(* in, workspace by workspace, the tree has the pages of the second.       *)
Switching(s, n, c, k, cur, p, a, b, w) ==
  /\ Held(s.mem, n, c, k) /\ Mapped(s.mem, c, k, cur)
  /\ SwappedTo(s, a, Range(Listed(Workspace(c, cur))), Range(Listed(c[p])), w)
  /\ SwappedTo(a, b, Range(Listed(Workspace(k, cur))), Range(Listed(k[p])), w)

(* After the swaps of a context switch a user page leads to a frame just   *)
(* when the new program's workspaces say so.                               *)
LEMMA MappedSwitched ==
  ASSUME NEW s, NEW n, NEW c, NEW k, NEW cur, NEW p \in Procs, NEW a, NEW b,
         NEW w \in UserRange, NEW f \in Frame, Switching(s, n, c, k, cur, p, a, b, w)
  PROVE  W(b.mem, w, Levels) = f <=> At(w, f) \in ListedBy(c, k, p)
<1>0. /\ Held(s.mem, n, c, k) /\ Mapped(s.mem, c, k, cur)
      /\ SwappedTo(s, a, Range(Listed(Workspace(c, cur))), Range(Listed(c[p])), w)
      /\ SwappedTo(a, b, Range(Listed(Workspace(k, cur))), Range(Listed(k[p])), w)
  BY DEF Switching
<1>1. cur \in Procs \cup {None}
  BY <1>0 DEF Mapped
<1>a. PICK e : e = At(w, f)
  OBVIOUS
<1>2. e = [v |-> w, f |-> f]
  BY <1>a DEF At
<1>3. e.v = w /\ e.f = f
  BY <1>2
<1>4. PICK N : N = ListedBy(c, k, p)
  OBVIOUS
<1>5. PICK A0, A1, B0, B1 :
        /\ A0 = Range(Listed(Workspace(c, cur))) /\ A1 = Range(Listed(c[p]))
        /\ B0 = Range(Listed(Workspace(k, cur))) /\ B1 = Range(Listed(k[p]))
  OBVIOUS
<1>6. N = A1 \cup B1
  BY <1>4, <1>5, Running
<1>7. \A g \in N : g = [v |-> g.v, f |-> g.f] /\ g.f \in Int
  <2>1. ASSUME NEW g \in N
        PROVE  g = [v |-> g.v, f |-> g.f] /\ g.f \in Int
    BY <1>0, <1>4, ListedPage
  <2>2. QED
    BY <2>1
<1>8. \A g, h \in N : g.v = h.v => g = h
  BY <1>0, <1>4 DEF Held
<1>9. \A g \in A1 : g.v \in CodePart
  BY <1>0, <1>5 DEF Held
<1>10. \A g \in B0 : g.v \in StackPart
  <2>1. ASSUME NEW g \in B0
        PROVE  g.v \in StackPart
    <3>1. g \in ListedBy(c, k, cur)
      BY <1>5 DEF ListedBy
    <3>2. cur \in Procs
      BY <1>0, <1>1, <3>1, ListedPage
    <3>3. B0 = Range(Listed(k[cur]))
      BY <1>5, <3>2, PagingAssumption DEF Workspace
    <3>4. QED
      BY <1>0, <3>2, <3>3 DEF Held
  <2>2. QED
    BY <2>1
<1>11. f # Absent
  BY Sizes DEF Frame, Absent
<1>12. ASSUME NEW g \in N, g.v = w, W(b.mem, w, Levels) = g.f
       PROVE  W(b.mem, w, Levels) = f <=> e \in N
  <2>1. ASSUME W(b.mem, w, Levels) = f
        PROVE  e \in N
    <3>1. g = e
      BY <1>2, <1>7, <1>12, <2>1
    <3>2. QED
      BY <3>1
  <2>2. ASSUME e \in N
        PROVE  W(b.mem, w, Levels) = f
    <3>1. g = e
      BY <1>3, <1>8, <1>12, <2>2
    <3>2. QED
      BY <1>3, <1>12, <3>1
  <2>3. QED
    BY <2>1, <2>2
<1>13. CASE \E g \in B1 : g.v = w /\ W(b.mem, w, Levels) = g.f
  BY <1>a, <1>4, <1>6, <1>12, <1>13
<1>14. CASE /\ \A g \in B1 : g.v # w
            /\ (\E g \in B0 : g.v = w) /\ W(b.mem, w, Levels) = Absent
  <2>1. w \in StackPart
    BY <1>10, <1>14
  <2>2. e \notin N
    BY <1>3, <1>6, <1>9, <1>14, <2>1 DEF StackPart
  <2>3. QED
    BY <1>a, <1>4, <1>11, <1>14, <2>2
<1>15. CASE /\ \A g \in B1 : g.v # w
            /\ (\A g \in B0 : g.v # w) /\ W(b.mem, w, Levels) = W(a.mem, w, Levels)
  <2>1. CASE \E g \in A1 : g.v = w /\ W(a.mem, w, Levels) = g.f
    BY <1>a, <1>4, <1>6, <1>12, <1>15, <2>1
  <2>2. CASE /\ \A g \in A1 : g.v # w
             /\ (\E g \in A0 : g.v = w) /\ W(a.mem, w, Levels) = Absent
    <3>1. e \notin N
      BY <1>3, <1>6, <1>15, <2>2
    <3>2. QED
      BY <1>a, <1>4, <1>11, <1>15, <2>2, <3>1
  <2>3. CASE /\ \A g \in A1 : g.v # w
             /\ (\A g \in A0 : g.v # w) /\ W(a.mem, w, Levels) = W(s.mem, w, Levels)
    <3>1. e \notin N
      BY <1>3, <1>6, <1>15, <2>3
    <3>2. e \notin ListedBy(c, k, cur)
      BY <1>3, <1>5, <1>15, <2>3 DEF ListedBy
    <3>3. W(s.mem, w, Levels) # f
      BY <1>0, <1>2, <3>2 DEF Mapped
    <3>4. QED
      BY <1>a, <1>4, <1>15, <2>3, <3>1, <3>3
  <2>4. SwappedTo(s, a, A0, A1, w)
    BY <1>0, <1>5
  <2>5. QED
    BY <2>1, <2>2, <2>3, <2>4, Zenon DEF SwappedTo
<1>16. SwappedTo(a, b, B0, B1, w)
  BY <1>0, <1>5
<1>17. QED
  BY <1>13, <1>14, <1>15, <1>16, Zenon DEF SwappedTo

(* The pages outside the user half stay.                                   *)
LEMMA OutsideStays ==
  ASSUME NEW s, NEW r, NEW old, NEW new, NEW w, w \notin UserRange,
         \A g \in old : g.v \in UserRange, \A g \in new : g.v \in UserRange,
         SwappedTo(s, r, old, new, w)
  PROVE  W(r.mem, w, Levels) = W(s.mem, w, Levels)
BY DEF SwappedTo

(* What the two workspaces of a program or of nobody list.                 *)
LEMMA WorkspacesOf ==
  ASSUME NEW m, NEW n, TreeOk(m, n), NEW c, NEW k, Held(m, n, c, k), NEW p \in Procs \cup {None}
  PROVE  /\ Workspace(c, p) \in Seq(Seg) /\ Workspace(k, p) \in Seq(Seg)
         /\ \A g \in Range(Listed(Workspace(c, p))) : g.v \in UserRange /\ g.f \in Frame
         /\ \A g \in Range(Listed(Workspace(k, p))) : g.v \in UserRange /\ g.f \in Frame
<1>1. n \in Nat /\ n <= LastFrame + 1 /\ LastFrame \in Nat /\ FirstFrame \in 4 .. LastFrame + 1
  BY NextIs, Sizes
<1>2. ASSUME NEW g \in ListedBy(c, k, p)
      PROVE  g.v \in UserRange /\ g.f \in Frame
  <2>1. g.v \in UserRange /\ g.f \in FirstFrame .. n - 1
    BY ListedPage
  <2>2. QED
    BY <1>1, <2>1 DEF Frame
<1>3. Workspace(c, p) \in Seq(Seg) /\ Workspace(k, p) \in Seq(Seg)
  <2>1. <<>> \in Seq(Seg)
    OBVIOUS
  <2>2. p # None => c[p] \in Seq(Seg) /\ k[p] \in Seq(Seg)
    BY DEF Held
  <2>3. QED
    BY <2>1, <2>2 DEF Workspace
<1>4. QED
  BY <1>2, <1>3 DEF ListedBy

(* The context switch.                                                     *)
LEMMA SwitchGood ==
  ASSUME NEW p \in Procs, context_switch(p)
  PROVE  GoodStep
<1>1. /\ IsState(Now) /\ Now.mem = mem /\ Now.next = next /\ Now.code = code /\ Now.stack = stack
  BY NowIs
<1>2. cur_ws' = p /\ code[p] # <<>>
  BY DEF context_switch
<1>3. PICK a : a = swap_ws(Now, Workspace(code, cur_ws), code[p])
  OBVIOUS
<1>4. PICK b : b = swap_ws(a, Workspace(stack, cur_ws), stack[p])
  OBVIOUS
<1>5. Becomes(b)
  BY <1>3, <1>4 DEF context_switch
<1>6. ASSUME ~b.short, ~b.torn, Fine(Now, cur_ws)
      PROVE  Fine(b, cur_ws') /\ Steady(Now, b)
  <2>1. TreeOk(mem, next) /\ Held(mem, next, code, stack) /\ Mapped(mem, code, stack, cur_ws)
    BY <1>1, <1>6 DEF Fine
  <2>2. cur_ws \in Procs \cup {None} /\ p \in Procs \cup {None}
    BY <2>1 DEF Mapped
  <2>3. Workspace(code, p) = code[p] /\ Workspace(stack, p) = stack[p]
    BY PagingAssumption DEF Workspace
  <2>4. PICK A0 \in Seq(Seg), B0 \in Seq(Seg) :
          /\ A0 = Workspace(code, cur_ws) /\ B0 = Workspace(stack, cur_ws)
          /\ \A g \in Range(Listed(A0)) : g.v \in UserRange
          /\ \A g \in Range(Listed(B0)) : g.v \in UserRange
    BY <2>1, <2>2, WorkspacesOf
  <2>5. PICK A1 \in Seq(Seg), B1 \in Seq(Seg) :
          /\ A1 = code[p] /\ B1 = stack[p]
          /\ \A g \in Range(Listed(A1)) : g.v \in UserRange /\ g.f \in Frame
          /\ \A g \in Range(Listed(B1)) : g.v \in UserRange /\ g.f \in Frame
    <3>1. /\ Workspace(code, p) \in Seq(Seg) /\ Workspace(stack, p) \in Seq(Seg)
          /\ \A g \in Range(Listed(Workspace(code, p))) : g.v \in UserRange /\ g.f \in Frame
          /\ \A g \in Range(Listed(Workspace(stack, p))) : g.v \in UserRange /\ g.f \in Frame
      BY <2>1, <2>2, WorkspacesOf
    <3>2. QED
      BY <2>3, <3>1
  <2>6. /\ Kept(Now, a)
        /\ ~a.short => /\ Grown(Now, a)
                       /\ \A w \in Pages \ {KernelPage} :
                            SwappedTo(Now, a, Range(Listed(A0)), Range(Listed(A1)), w)
    <3>1. PICK r :
            /\ r = swap_ws(Now, A0, A1) /\ Kept(Now, r)
            /\ /\ ~r.short /\ TreeOk(Now.mem, Now.next)
               /\ \A g \in Range(Listed(A0)) : g.v \in UserRange
               /\ \A g \in Range(Listed(A1)) : g.v \in UserRange /\ g.f \in Frame
               => /\ Grown(Now, r)
                  /\ \A w \in Pages \ {KernelPage} :
                       SwappedTo(Now, r, Range(Listed(A0)), Range(Listed(A1)), w)
      BY <1>1, Swapped
    <3>2. r = a
      BY <1>3, <2>4, <2>5, <3>1
    <3>3. QED
      BY <1>1, <2>1, <2>4, <2>5, <3>1, <3>2
  <2>7. IsState(a) /\ a.code = code /\ a.stack = stack
    BY <1>1, <2>6 DEF Kept
  <2>8. PICK r :
          /\ r = swap_ws(a, B0, B1) /\ Kept(a, r)
          /\ /\ ~r.short /\ TreeOk(a.mem, a.next)
             /\ \A g \in Range(Listed(B0)) : g.v \in UserRange
             /\ \A g \in Range(Listed(B1)) : g.v \in UserRange /\ g.f \in Frame
             => /\ Grown(a, r)
                /\ \A w \in Pages \ {KernelPage} :
                     SwappedTo(a, r, Range(Listed(B0)), Range(Listed(B1)), w)
    BY <2>7, Swapped
  <2>9. r = b
    BY <1>4, <2>4, <2>5, <2>8
  <2>10. ~a.short /\ b.code = code /\ b.stack = stack
    BY <1>6, <2>7, <2>8, <2>9 DEF Kept
  <2>11. /\ Grown(Now, a)
         /\ \A w \in Pages \ {KernelPage} :
              SwappedTo(Now, a, Range(Listed(A0)), Range(Listed(A1)), w)
    BY <2>6, <2>10
  <2>12. TreeOk(a.mem, a.next)
    BY <2>11 DEF Grown
  <2>13. /\ Grown(a, b)
         /\ \A w \in Pages \ {KernelPage} :
              SwappedTo(a, b, Range(Listed(B0)), Range(Listed(B1)), w)
    BY <1>6, <2>4, <2>5, <2>8, <2>9, <2>12
  <2>14. Grown(Now, b) /\ Now.next \in Nat
    <3>1. Now.next \in Nat
      BY <1>1, <2>1, NextIs
    <3>2. QED
      BY <2>11, <2>13, <3>1, GrownTwice
  <2>15. TreeOk(b.mem, b.next) /\ Held(b.mem, b.next, b.code, b.stack)
    <3>1. TreeOk(b.mem, b.next)
      BY <2>14 DEF Grown
    <3>2. Held(b.mem, b.next, code, stack)
      BY <1>1, <2>1, <2>14, HeldGrown
    <3>3. QED
      BY <2>10, <3>1, <3>2
  <2>16. ASSUME NEW w \in UserRange, NEW f \in Frame
         PROVE  W(b.mem, w, Levels) = f <=> [v |-> w, f |-> f] \in ListedBy(code, stack, p)
    <3>1. w \in Pages \ {KernelPage}
      BY Uppers
    <3>2. /\ SwappedTo(Now, a, Range(Listed(Workspace(code, cur_ws))), Range(Listed(code[p])), w)
          /\ SwappedTo(a, b, Range(Listed(Workspace(stack, cur_ws))), Range(Listed(stack[p])), w)
      BY <2>4, <2>5, <2>11, <2>13, <3>1
    <3>3. Held(Now.mem, next, code, stack) /\ Mapped(Now.mem, code, stack, cur_ws)
      BY <1>1, <2>1
    <3>4. W(b.mem, w, Levels) = f <=> At(w, f) \in ListedBy(code, stack, p)
      <4>1. Switching(Now, next, code, stack, cur_ws, p, a, b, w)
        BY <3>2, <3>3, Zenon DEF Switching
      <4>2. QED
        BY <4>1, MappedSwitched
    <3>5. QED
      BY <3>4 DEF At
  <2>17. ASSUME NEW w \in Upper \cup {0}
         PROVE  W(b.mem, w, Levels) = W(mem, w, Levels)
    <3>1. w \in Pages \ {KernelPage} /\ w \notin UserRange
      <4>1. UserPages \in Nat /\ KernelPage = UserPages
        BY Sizes
      <4>2. w \notin UserRange
        BY <4>1 DEF Upper, UserRange
      <4>3. QED
        BY <4>2, Uppers
    <3>2. SwappedTo(Now, a, Range(Listed(A0)), Range(Listed(A1)), w)
      BY <2>11, <3>1
    <3>3. SwappedTo(a, b, Range(Listed(B0)), Range(Listed(B1)), w)
      BY <2>13, <3>1
    <3>4. W(a.mem, w, Levels) = W(Now.mem, w, Levels)
      BY <2>4, <2>5, <3>1, <3>2, OutsideStays
    <3>5. W(b.mem, w, Levels) = W(a.mem, w, Levels)
      BY <2>4, <2>5, <3>1, <3>3, OutsideStays
    <3>6. QED
      BY <1>1, <3>4, <3>5
  <2>18. Mapped(b.mem, code, stack, p)
    <3>1. W(b.mem, 0, Levels) # Absent
      BY <2>1, <2>17 DEF Mapped
    <3>2. QED
      BY <1>2, <2>16, <3>1 DEF Mapped
  <2>19. Steady(Now, b)
    BY <1>1, <2>17 DEF Steady
  <2>20. QED
    BY <1>2, <2>10, <2>15, <2>18, <2>19 DEF Fine
<1>7. QED
  BY <1>5, <1>6 DEF GoodStep

(***************************************************************************)
(* The tables the boot loader makes.                                       *)
(***************************************************************************)

Booted == [f \in 0 .. LastFrame |->
             IF f = Root
             THEN [Filled(Absent) EXCEPT ![0] = LowTable(2), ![Entries \div 2] = HighTable(2)]
             ELSE IF f \in {LowTable(Levels), KPT0_0} THEN [Filled(Absent) EXCEPT ![0] = 0]
             ELSE IF f \in 2 .. KPT0_0 THEN [Filled(Absent) EXCEPT ![0] = f + 1]
             ELSE Filled(Absent)]

(* Where they lead page v.                                                 *)
Boot(v, l) ==
  IF l = 0 THEN Root
  ELSE IF Prefix(v, l) = Prefix(0, l) THEN IF l = Levels THEN 0 ELSE l + 1
  ELSE IF Prefix(v, l) = Prefix(KernelPage, l) THEN IF l = Levels THEN 0 ELSE Levels + l
  ELSE Absent

(* Page 0 has index 0 at every level.                                      *)
LEMMA ZeroIndexes == 0 \in Pages /\ \A l \in 1 .. Levels : Index(0, l) = 0
<1>1. 0 \in Pages
  BY Uppers
<1>2. ASSUME NEW l \in 1 .. Levels
      PROVE  Index(0, l) = 0
  <2>1. PICK r \in Nat \ {0} : r = Reach[Levels - l]
    <3>1. Levels \in Nat /\ Levels - l \in 0 .. Levels
      BY ReachPositive
    <3>2. QED
      BY <3>1, ReachPositive
  <2>2. 0 \div r = 0 /\ 0 % Entries = 0
    BY ReachPositive
  <2>3. QED
    BY <2>1, <2>2 DEF Index
<1>3. QED
  BY <1>1, <1>2

(* The first page of either half is reached by tables of its own.          *)
LEMMA TwoHalves == \A l \in 1 .. Levels : Prefix(0, l) # Prefix(KernelPage, l)
<1>1. ASSUME NEW l \in 1 .. Levels, Prefix(0, l) = Prefix(KernelPage, l)
      PROVE  FALSE
  <2>1. 0 \in Pages /\ KernelPage \in Pages /\ Levels \in Nat /\ l \in 0 .. Levels /\ 1 \in 0 .. l /\ 1 \in 1 .. Levels
    BY Sizes, ZeroIndexes
  <2>2. Prefix(0, 1) = Prefix(KernelPage, 1)
    BY <1>1, <2>1, ShorterPrefix
  <2>3. Index(0, 1) = Index(KernelPage, 1)
    BY <2>1, <2>2, SamePrefix
  <2>4. Index(0, 1) = 0 /\ Index(KernelPage, 1) = Entries \div 2 /\ Entries \div 2 # 0
    BY <2>1, ZeroIndexes, KernelIndexes, Sizes
  <2>5. QED
    BY <2>3, <2>4
<1>2. QED
  BY <1>1

(* The rows of the boot loader's tables.                                   *)
LEMMA BootedRows ==
  /\ Booted \in [Frame -> Words]
  /\ \A i \in Slots : Booted[Root][i] = IF i = Entries \div 2 THEN Levels + 1 ELSE IF i = 0 THEN 2 ELSE Absent
  /\ \A i \in Slots : /\ Booted[Levels][i] = IF i = 0 THEN 0 ELSE Absent
                      /\ Booted[Levels + Levels - 1][i] = IF i = 0 THEN 0 ELSE Absent
  /\ \A f \in 2 .. Levels + Levels - 2 : f # Levels =>
       \A i \in Slots : Booted[f][i] = IF i = 0 THEN f + 1 ELSE Absent
<1>1. /\ Levels \in Nat /\ Levels >= 2 /\ KPT0_0 = Levels + Levels - 1 /\ KPT0_0 <= LastFrame
      /\ LastFrame \in Nat /\ Root = 1 /\ Root # Levels /\ Root # KPT0_0
  <2>1. /\ Levels \in Nat /\ Levels >= 2 /\ KPT0_0 = Levels + Levels - 1 /\ Root = 1
        /\ LastFrame \in Nat /\ FirstFrame \in 4 .. LastFrame + 1 /\ FirstFrame = Levels + Levels
    BY Sizes
  <2>2. QED
    BY <2>1
<1>2. 0 \in Slots /\ Entries \div 2 \in Slots /\ Entries \div 2 # 0
  BY Sizes
<1>3. LowTable(2) = 2 /\ HighTable(2) = Levels + 1 /\ LowTable(Levels) = Levels
  BY <1>1 DEF LowTable, HighTable
<1>4. PICK e : e = Filled(Absent) /\ e \in [Slots -> {-1}]
  <2>1. Filled(Absent) \in [Slots -> {-1}]
    BY DEF Filled, Absent, Slots
  <2>2. QED
    BY <2>1
<1>5. PICK a : a = [e EXCEPT ![0] = 2, ![Entries \div 2] = Levels + 1]
  OBVIOUS
<1>6. /\ \A i \in Slots : a[i] = IF i = Entries \div 2 THEN Levels + 1 ELSE IF i = 0 THEN 2 ELSE -1
      /\ DOMAIN a = Slots
  BY <1>2, <1>4, <1>5
<1>7. PICK b : b = [e EXCEPT ![0] = 0]
  OBVIOUS
<1>8. (\A i \in Slots : b[i] = IF i = 0 THEN 0 ELSE -1) /\ DOMAIN b = Slots
  BY <1>2, <1>4, <1>7
<1>9. Booted = [f \in 0 .. LastFrame |-> IF f = Root THEN a ELSE IF f \in {Levels, KPT0_0} THEN b
                ELSE IF f \in 2 .. KPT0_0 THEN [e EXCEPT ![0] = f + 1] ELSE e]
  BY <1>3, <1>4, <1>5, <1>7 DEF Booted
<1>10. /\ Booted[Root] = a /\ Booted[Levels] = b /\ Booted[KPT0_0] = b
       /\ \A f \in 2 .. KPT0_0 : f # Levels /\ f # KPT0_0 => Booted[f] = [e EXCEPT ![0] = f + 1]
  <2>1. Root \in 0 .. LastFrame /\ Levels \in 0 .. LastFrame /\ KPT0_0 \in 0 .. LastFrame
        /\ \A f \in 2 .. KPT0_0 : f \in 0 .. LastFrame /\ f # Root
    BY <1>1
  <2>2. QED
    BY <1>1, <1>9, <2>1
<1>11. ASSUME NEW f \in 2 .. KPT0_0, f # Levels, f # KPT0_0, NEW i \in Slots
       PROVE  Booted[f][i] = IF i = 0 THEN f + 1 ELSE Absent
  BY <1>2, <1>4, <1>10, <1>11 DEF Absent
<1>12. Booted \in [Frame -> Words]
  <2>1. /\ -1 \in -2 .. LastFrame /\ 0 \in -2 .. LastFrame /\ 2 \in -2 .. LastFrame
        /\ Levels + 1 \in -2 .. LastFrame
    BY <1>1
  <2>2. e \in Words
    BY <1>4, <2>1 DEF Words
  <2>3. a \in Words
    <3>1. \A i \in Slots : a[i] \in -2 .. LastFrame
      BY <1>6, <2>1
    <3>2. a = [i \in Slots |-> a[i]]
      BY <1>4, <1>5
    <3>3. QED
      BY <3>1, <3>2 DEF Words
  <2>4. b \in Words
    BY <1>2, <1>7, <2>1, <2>2 DEF Words
  <2>5. \A f \in 2 .. KPT0_0 : f # KPT0_0 => [e EXCEPT ![0] = f + 1] \in Words
    <3>1. \A f \in 2 .. KPT0_0 : f # KPT0_0 => f + 1 \in -2 .. LastFrame
      BY <1>1
    <3>2. QED
      BY <1>2, <2>2, <3>1 DEF Words
  <2>6. QED
    BY <1>9, <2>2, <2>3, <2>4, <2>5 DEF Frame
<1>13. \A f \in 2 .. Levels + Levels - 2 : f \in 2 .. KPT0_0 /\ f # KPT0_0
  BY <1>1
<1>14. QED
  BY <1>1, <1>6, <1>8, <1>10, <1>11, <1>12, <1>13 DEF Absent

(* The boot loader's tables lead to the first page of either half.         *)
LEMMA BootTree ==
  ASSUME NEW v \in Pages
  PROVE  \A l \in 0 .. Levels : W(Booted, v, l) = Boot(v, l)
<1> DEFINE G == {l \in 0 .. Levels : W(Booted, v, l) = Boot(v, l)}
<1>0. /\ Levels \in Nat /\ Levels >= 2 /\ 0 \in Pages /\ KernelPage \in Pages /\ Root = 1
  BY Sizes, ZeroIndexes
<1>1. 0 \in G
  BY <1>0, WStep DEF Boot
<1>2. ASSUME NEW l \in 1 .. Levels, l - 1 \in G
      PROVE  l \in G
  <2>1. W(Booted, v, l) = Follow(Booted, Boot(v, l - 1), v, l)
    BY <1>2, WStep
  <2>2. Index(v, l) \in Slots
    BY PrefixStep
  <2>3. /\ Prefix(v, l) = Prefix(0, l) <=> Prefix(v, l - 1) = Prefix(0, l - 1) /\ Index(v, l) = 0
        /\ Prefix(v, l) = Prefix(KernelPage, l) <=>
             Prefix(v, l - 1) = Prefix(KernelPage, l - 1) /\ Index(v, l) = Index(KernelPage, l)
    BY <1>0, SamePrefix, ZeroIndexes
  <2>4. l \in 0 .. Levels
    OBVIOUS
  <2>5. CASE l = 1
    <3>1. Boot(v, l - 1) = Root /\ l # Levels
      BY <1>0, <2>5 DEF Boot
    <3>2. W(Booted, v, l) = Booted[Root][Index(v, l)]
      BY <1>0, <2>1, <3>1 DEF Follow
    <3>3. Prefix(v, l - 1) = 0 /\ Prefix(0, l - 1) = 0 /\ Prefix(KernelPage, l - 1) = 0
      BY <1>0, <2>5, PrefixEnds
    <3>4. Index(KernelPage, l) = Entries \div 2 /\ Entries \div 2 # 0
      BY <2>5, KernelIndexes, Sizes
    <3>5. W(Booted, v, l) = Boot(v, l)
      BY <1>0, <2>2, <2>3, <2>5, <3>1, <3>2, <3>3, <3>4, BootedRows DEF Boot
    <3>6. QED
      BY <2>4, <3>5
  <2>6. CASE l # 1
    <3>1. l - 1 # 0 /\ l - 1 # Levels /\ l # 0 /\ l \in 2 .. Levels /\ l - 1 + 1 = l
          /\ l \in Nat /\ l - 1 \in 1 .. Levels
      BY <1>0, <2>6
    <3>2. Index(KernelPage, l) = 0
      BY <3>1, KernelIndexes
    <3>3. CASE Prefix(v, l - 1) = Prefix(0, l - 1)
      <4>1. Boot(v, l - 1) = l
        BY <3>1, <3>3 DEF Boot
      <4>2. W(Booted, v, l) = Booted[l][Index(v, l)]
        BY <2>1, <3>1, <4>1 DEF Follow
      <4>3. W(Booted, v, l) = IF Index(v, l) = 0 THEN IF l = Levels THEN 0 ELSE l + 1 ELSE Absent
        BY <1>0, <2>2, <3>1, <4>2, BootedRows
      <4>4. Prefix(v, l) # Prefix(KernelPage, l)
        BY <2>3, <3>1, <3>3, TwoHalves
      <4>5. W(Booted, v, l) = Boot(v, l)
        BY <2>3, <3>1, <3>3, <4>3, <4>4 DEF Boot
      <4>6. QED
        BY <2>4, <4>5
    <3>4. CASE /\ Prefix(v, l - 1) # Prefix(0, l - 1)
               /\ Prefix(v, l - 1) = Prefix(KernelPage, l - 1)
      <4>1. Boot(v, l - 1) = Levels + l - 1
        BY <1>0, <3>1, <3>4 DEF Boot
      <4>2. W(Booted, v, l) = Booted[Levels + l - 1][Index(v, l)]
        BY <1>0, <2>1, <3>1, <4>1 DEF Follow
      <4>3. W(Booted, v, l) = IF Index(v, l) = 0 THEN IF l = Levels THEN 0 ELSE Levels + l ELSE Absent
        <5>1. CASE l = Levels
          BY <2>2, <4>2, <5>1, BootedRows
        <5>2. CASE l # Levels
          <6>1. PICK f \in 2 .. Levels + Levels - 2 : f = Levels + l - 1 /\ f # Levels /\ f + 1 = Levels + l
            BY <1>0, <3>1, <5>2
          <6>2. Booted[f][Index(v, l)] = IF Index(v, l) = 0 THEN f + 1 ELSE Absent
            BY <2>2, <6>1, BootedRows
          <6>3. QED
            BY <4>2, <5>2, <6>1, <6>2
        <5>3. QED
          BY <5>1, <5>2
      <4>4. W(Booted, v, l) = Boot(v, l)
        BY <2>3, <3>1, <3>2, <3>4, <4>3 DEF Boot
      <4>5. QED
        BY <2>4, <4>4
    <3>5. CASE /\ Prefix(v, l - 1) # Prefix(0, l - 1)
               /\ Prefix(v, l - 1) # Prefix(KernelPage, l - 1)
      <4>1. Boot(v, l - 1) = Absent
        BY <3>1, <3>5 DEF Boot
      <4>2. W(Booted, v, l) = Absent
        BY <2>1, <4>1 DEF Follow, Absent
      <4>3. Boot(v, l) = Absent
        BY <2>3, <3>1, <3>5 DEF Boot
      <4>4. QED
        BY <2>4, <4>2, <4>3
    <3>6. QED
      BY <3>3, <3>4, <3>5
  <2>7. QED
    BY <2>5, <2>6
<1> HIDE DEF G
<1>3. \A l \in 0 .. Levels : l \in G
  BY <1>0, <1>1, <1>2, Upwards
<1>4. QED
  BY <1>3 DEF G

(* They are a good tree.                                                   *)
LEMMA BootTreeOk == TreeOk(Booted, FirstFrame)
<1>1. /\ Levels \in Nat /\ Levels >= 2 /\ Levels - 1 \in 0 .. Levels - 1 /\ Levels \in 0 .. Levels
      /\ Root = 1 /\ 0 \in Pages /\ KernelPage \in Pages
      /\ FirstFrame = Levels + Levels /\ KPT0_0 = Levels + Levels - 1
      /\ LastFrame \in Nat /\ FirstFrame \in FirstFrame .. LastFrame + 1
  <2>1. /\ Levels \in Nat /\ Levels >= 2 /\ Root = 1 /\ KernelPage \in Pages
        /\ FirstFrame = Levels + Levels /\ KPT0_0 = Levels + Levels - 1
        /\ LastFrame \in Nat /\ FirstFrame \in 4 .. LastFrame + 1
    BY Sizes
  <2>2. QED
    BY <2>1, ZeroIndexes
<1>2. \A l \in 0 .. Levels - 1 : l \in 0 .. Levels /\ (l # 0 => l \in 1 .. Levels /\ l # Levels)
  BY <1>1
<1>3. \A v \in Pages : \A l \in 0 .. Levels : W(Booted, v, l) = Boot(v, l)
  BY BootTree
<1>4. ASSUME NEW v \in Pages, NEW l \in 0 .. Levels - 1
      PROVE  \/ l = 0 /\ W(Booted, v, l) = 1 /\ Prefix(v, l) = 0
             \/ l # 0 /\ W(Booted, v, l) = l + 1 /\ Prefix(v, l) = Prefix(0, l)
             \/ l # 0 /\ W(Booted, v, l) = Levels + l /\ Prefix(v, l) = Prefix(KernelPage, l)
             \/ W(Booted, v, l) = Absent
  BY <1>1, <1>2, <1>3, PrefixEnds DEF Boot
<1>5. \A v \in Pages : \A l \in 0 .. Levels - 1 :
        W(Booted, v, l) = Absent \/ W(Booted, v, l) \in 1 .. FirstFrame - 1
  BY <1>1, <1>4
<1>6. ASSUME NEW v \in Pages, NEW w \in Pages, NEW k \in 0 .. Levels - 1, NEW l \in 0 .. Levels - 1,
             W(Booted, v, k) = W(Booted, w, l), W(Booted, v, k) # Absent
      PROVE  k = l /\ Prefix(v, k) = Prefix(w, k)
  <2>1. k \in Nat /\ l \in Nat /\ k < Levels /\ l < Levels
    BY <1>1
  <2>2. \/ k = 0 /\ W(Booted, v, k) = 1 /\ Prefix(v, k) = 0
        \/ k # 0 /\ W(Booted, v, k) = k + 1 /\ Prefix(v, k) = Prefix(0, k)
        \/ k # 0 /\ W(Booted, v, k) = Levels + k /\ Prefix(v, k) = Prefix(KernelPage, k)
    BY <1>4, <1>6
  <2>3. \/ l = 0 /\ W(Booted, w, l) = 1 /\ Prefix(w, l) = 0
        \/ l # 0 /\ W(Booted, w, l) = l + 1 /\ Prefix(w, l) = Prefix(0, l)
        \/ l # 0 /\ W(Booted, w, l) = Levels + l /\ Prefix(w, l) = Prefix(KernelPage, l)
    BY <1>4, <1>6
  <2>4. QED
    BY <1>1, <1>6, <2>1, <2>2, <2>3
<1>7. W(Booted, KernelPage, Levels - 1) = KPT0_0
  <2>1. Levels - 1 # 0 /\ Levels - 1 # Levels /\ Levels - 1 \in 1 .. Levels /\ Levels - 1 \in 0 .. Levels
        /\ Levels + (Levels - 1) = KPT0_0
    BY <1>1
  <2>2. Prefix(KernelPage, Levels - 1) # Prefix(0, Levels - 1)
    BY <2>1, TwoHalves
  <2>3. QED
    BY <1>1, <1>3, <2>1, <2>2 DEF Boot
<1>8. \A v \in Pages : W(Booted, v, Levels) = 0 \/ W(Booted, v, Levels) = Absent
  BY <1>1, <1>3 DEF Boot
<1>9. W(Booted, KernelPage, Levels) # Absent
  BY <1>1, <1>3 DEF Boot, Absent
<1>10. 0 \in Frame
  BY <1>1 DEF Frame
<1>11. QED
  BY <1>1, <1>5, <1>6, <1>7, <1>8, <1>9, <1>10, BootedRows DEF TreeOk

(* Nobody has anything at first.                                           *)
LEMMA NothingListed ==
  ASSUME NEW p \in Procs \cup {None}, NEW c, NEW k, c = [q \in Procs |-> <<>>], k = [q \in Procs |-> <<>>]
  PROVE  ListedBy(c, k, p) = {}
<1>1. Workspace(c, p) = <<>> /\ Workspace(k, p) = <<>>
  BY DEF Workspace
<1>2. ASSUME NEW ws \in Seq(Seg), Len(ws) = 0
      PROVE  Range(Listed(ws)) = {}
  <2>1. \A h : h \in Range(Listed(ws)) <=>
                 \E i \in 1 .. Len(ws) : \E j \in 1 .. ws[i].n : h = PageOf(ws[i], j)
    BY Listing
  <2>2. \A i \in 1 .. Len(ws) : FALSE
    BY <1>2
  <2>3. QED
    BY <2>1, <2>2
<1>3. <<>> \in Seq(Seg) /\ Len(<<>>) = 0
  OBVIOUS
<1>4. Range(Listed(<<>>)) = {}
  BY <1>2, <1>3
<1>5. QED
  BY <1>1, <1>4 DEF ListedBy

(* The system starts in a fine state.                                      *)
LEMMA InitFine ==
  ASSUME Init
  PROVE  Fine(Now, cur_ws)
<1>1. /\ mem = Booted /\ next = FirstFrame /\ cur_ws = None
      /\ code = [q \in Procs |-> <<>>] /\ stack = [q \in Procs |-> <<>>]
  BY DEF Init, Booted
<1>2. \A p \in Procs \cup {None} : ListedBy(code, stack, p) = {}
  BY <1>1, NothingListed
<1>3. TreeOk(mem, next)
  BY <1>1, BootTreeOk
<1>4. Held(mem, next, code, stack)
  <2>1. \A p \in Procs : code[p] = <<>> /\ stack[p] = <<>>
    BY <1>1
  <2>2. <<>> \in Seq(Seg)
    OBVIOUS
  <2>3. code \in [Procs -> Seq(Seg)] /\ stack \in [Procs -> Seq(Seg)]
    BY <1>1, <2>2
  <2>4. ASSUME NEW p \in Procs
        PROVE  Range(Listed(code[p])) = {} /\ Range(Listed(stack[p])) = {}
    <3>1. ListedBy(code, stack, p) = Range(Listed(code[p])) \cup Range(Listed(stack[p]))
      BY Running
    <3>2. QED
      BY <1>2, <3>1
  <2>5. QED
    BY <1>2, <2>1, <2>3, <2>4 DEF Held
<1>5. Mapped(mem, code, stack, cur_ws)
  <2>1. ASSUME NEW v \in UserRange
        PROVE  W(mem, v, Levels) = Absent
    <3>1. v \in Pages /\ v # 0 /\ v # KernelPage /\ 0 \in Pages /\ KernelPage \in Pages
          /\ Levels # 0 /\ Levels \in 0 .. Levels
      <4>1. v # 0
        BY DEF UserRange
      <4>2. QED
        BY <4>1, Uppers, Sizes
    <3>2. Prefix(v, Levels) = v /\ Prefix(0, Levels) = 0 /\ Prefix(KernelPage, Levels) = KernelPage
      BY <3>1, PrefixEnds
    <3>3. QED
      BY <1>1, <3>1, <3>2, BootTree DEF Boot
  <2>2. W(mem, 0, Levels) # Absent
    <3>1. 0 \in Pages /\ Levels # 0 /\ Levels \in 0 .. Levels
      BY Uppers, Sizes
    <3>2. QED
      BY <1>1, <3>1, BootTree DEF Boot, Absent
  <2>3. \A f \in Frame : f # Absent
    BY Sizes DEF Frame, Absent
  <2>4. QED
    BY <1>1, <1>2, <2>1, <2>2, <2>3 DEF Mapped
<1>6. QED
  BY <1>3, <1>4, <1>5, NowIs DEF Fine

(***************************************************************************)
(* The theorems.                                                           *)
(***************************************************************************)

(* One step of the specification.                                          *)
LEMMA StepGood ==
  ASSUME Next
  PROVE  GoodStep
<1>1. ASSUME NEW v \in FaultPages, touch(v)
      PROVE  GoodStep
  <2>1. v \in Pages
    BY PagingAssumption DEF Pages
  <2>2. QED
    BY <1>1, <2>1, TouchGood
<1>2. ASSUME NEW p \in Procs, NEW from \in Sources, spawn_process(p, from)
      PROVE  GoodStep
  BY <1>2, SpawnGood
<1>3. ASSUME NEW p \in Procs, context_switch(p)
      PROVE  GoodStep
  BY <1>3, SwitchGood
<1>4. QED
  BY <1>1, <1>2, <1>3 DEF Next

(* A step keeps the invariant, and the kernel's pages where they are.      *)
LEMMA StepKeeps ==
  ASSUME IInv, Next
  PROVE  IInv' /\ (~exhausted' /\ ~torn' => \A w \in Upper : W(mem, w, Levels) # Absent =>
                                              W(mem', w, Levels) = W(mem, w, Levels))
<1>1. PICK r : /\ Becomes(r)
               /\ ~r.short /\ ~r.torn /\ Fine(Now, cur_ws) => Fine(r, cur_ws') /\ Steady(Now, r)
  BY StepGood DEF GoodStep
<1>2. /\ mem' = r.mem /\ next' = r.next /\ code' = r.code /\ stack' = r.stack
      /\ exhausted' = (exhausted \/ r.short) /\ torn' = (torn \/ r.torn)
  BY <1>1 DEF Becomes
<1>3. ASSUME ~exhausted', ~torn'
      PROVE  Fine(r, cur_ws') /\ Steady(Now, r)
  <2>1. ~exhausted /\ ~r.short /\ ~torn /\ ~r.torn
    BY <1>2, <1>3
  <2>2. Fine(Now, cur_ws)
    BY <2>1, NowFine
  <2>3. QED
    BY <1>1, <2>1, <2>2
<1>4. IInv'
  BY <1>2, <1>3 DEF IInv, Fine
<1>5. QED
  BY <1>2, <1>3, <1>4, NowIs DEF Steady

(* As long as no frame or object was missing and no copy torn, the tree is *)
(* whole and what the workspaces say of it is so.                          *)
THEOREM TreeHolds == Spec => []IInv
<1>1. Init => IInv
  BY InitFine, NowIs DEF IInv, Fine
<1>2. IInv /\ [Next /\ ~torn]_vars => IInv'
  <2>1. ASSUME IInv, UNCHANGED vars
        PROVE  IInv'
    BY <2>1 DEF IInv, vars, TreeOk, Held, Mapped, ListedBy, Workspace, NoTable, W
  <2>2. QED
    BY <2>1, StepKeeps
<1>3. QED
  BY <1>1, <1>2, PTL DEF Spec

(* A program sees its own pages and no other program's.                    *)
THEOREM PagesAreOwn == Spec => []OwnPagesOnly
<1>1. ASSUME IInv, ~exhausted, ~torn
      PROVE  {[v |-> v, f |-> Lookup(mem, v)] : v \in UserPart} = PagesOf(cur_ws)
  <2>1. TreeOk(mem, next) /\ Held(mem, next, code, stack) /\ Mapped(mem, code, stack, cur_ws)
    BY <1>1 DEF IInv
  <2>2. next \in Nat /\ next <= LastFrame + 1 /\ cur_ws \in Procs \cup {None}
    BY <2>1, NextIs DEF Mapped
  <2>3. \A v : Lookup(mem, v) = W(mem, v, Levels)
    BY DEF Lookup, W
  <2>4. PagesOf(cur_ws) = ListedBy(code, stack, cur_ws)
    BY DEF PagesOf, ListedBy
  <2>5. \A v : v \in UserPart <=> v \in UserRange /\ W(mem, v, Levels) # Absent
    BY <2>3 DEF UserPart, UserRange, UserBottom
  <2>6. ASSUME NEW v \in UserPart
        PROVE  [v |-> v, f |-> Lookup(mem, v)] \in PagesOf(cur_ws)
    <3>1. v \in UserRange /\ W(mem, v, Levels) # Absent /\ v \in Pages
      BY <2>5, Uppers
    <3>2. W(mem, v, Levels) \in Frame
      BY <2>1, <3>1 DEF TreeOk
    <3>3. PICK f \in Frame : f = W(mem, v, Levels)
      BY <3>2
    <3>4. [v |-> v, f |-> f] \in ListedBy(code, stack, cur_ws)
      BY <2>1, <3>1, <3>3 DEF Mapped
    <3>5. QED
      BY <2>3, <2>4, <3>3, <3>4
  <2>7. ASSUME NEW g \in PagesOf(cur_ws)
        PROVE  g.v \in UserPart /\ g = [v |-> g.v, f |-> Lookup(mem, g.v)]
    <3>1. g = [v |-> g.v, f |-> g.f] /\ g.v \in UserRange
      BY <2>1, <2>2, <2>4, ListedPage
    <3>2. W(mem, g.v, Levels) = g.f /\ W(mem, g.v, Levels) # Absent
      BY <2>1, <2>2, <2>4, ListedMapped
    <3>3. QED
      BY <2>3, <2>5, <3>1, <3>2
  <2>8. QED
    BY <2>6, <2>7
<1>2. IInv => OwnPagesOnly
  BY <1>1 DEF OwnPagesOnly
<1>3. QED
  BY <1>2, TreeHolds, PTL

(* No frame has two uses.                                                  *)
THEOREM FramesAreApart == Spec => []FramesApart
<1>1. ASSUME IInv, ~exhausted, ~torn
      PROVE  /\ \A p, q \in Procs : \A g \in PagesOf(p), h \in PagesOf(q) : g.f = h.f => p = q /\ g = h
             /\ \A p \in Procs : \A g \in PagesOf(p) : g.f \notin Tables
  <2>1. Held(mem, next, code, stack)
    BY <1>1 DEF IInv
  <2>2. \A p : PagesOf(p) = ListedBy(code, stack, p)
    BY DEF PagesOf, ListedBy
  <2>3. \A p, q \in Procs : \A g \in ListedBy(code, stack, p), h \in ListedBy(code, stack, q) :
          g.f = h.f => p = q /\ g = h
    BY <2>1 DEF Held
  <2>4. ASSUME NEW p \in Procs, NEW g \in ListedBy(code, stack, p)
        PROVE  g.f \notin Tables
    <3>1. \A v \in Pages : \A l \in 0 .. Levels - 1 : Walk(mem, v)[l] # g.f
      BY <2>1 DEF Held, NoTable, W
    <3>2. QED
      BY <3>1 DEF Tables, Pages
  <2>5. QED
    BY <2>2, <2>3, <2>4
<1>2. IInv => FramesApart
  BY <1>1 DEF FramesApart
<1>3. QED
  BY <1>2, TreeHolds, PTL

(* The kernel's pages stay where they are.                                 *)
THEOREM KernelHolds == Spec => KernelStays
<1>1. IInv /\ [Next /\ ~torn]_vars =>
        [~torn' /\ ~exhausted' =>
           \A v \in KernelPage + 1 .. PageCount - 1 :
             Lookup(mem, v) # Absent => Lookup(mem, v)' = Lookup(mem, v)]_vars
  <2>1. ASSUME IInv, Next, ~torn', ~exhausted', NEW v \in KernelPage + 1 .. PageCount - 1,
               Lookup(mem, v) # Absent
        PROVE  Lookup(mem, v)' = Lookup(mem, v)
    <3>1. v \in Upper
      BY DEF Upper
    <3>2. W(mem', v, Levels) = W(mem, v, Levels)
      BY <2>1, <3>1, StepKeeps DEF Lookup, W
    <3>3. QED
      BY <3>2 DEF Lookup, W
  <2>2. QED
    BY <2>1
<1>2. QED
  BY <1>1, TreeHolds, PTL DEF Spec, KernelStays
=============================================================================
