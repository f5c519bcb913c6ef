---------------------------- MODULE PortsProofs ----------------------------
(***************************************************************************)
(* Theorems about the message ports, for any channels, sizes of messages   *)
(* and size of a page.                                                     *)
(***************************************************************************)
EXTENDS Ports, FiniteSetTheorems, WellFoundedInduction, SequenceTheorems, TLAPS

(***************************************************************************)
(* Numbers.                                                                *)
(***************************************************************************)

(* A set of numbers has a least one.  The initial segments below its       *)
(* members are finite sets, which strict inclusion orders well: this is    *)
(* where every induction below comes from.                                 *)
LEMMA LeastNumber ==
  ASSUME NEW T \in SUBSET Nat, T # {}
  PROVE  \E x \in T : \A y \in T : x <= y
<1> DEFINE TT == {0 .. n : n \in T}
<1>1. TT \subseteq FiniteSubsetsOf(Nat) /\ TT # {}
  <2>1. \A n \in T : IsFiniteSet(0 .. n)
    BY FS_Interval
  <2>2. TT \subseteq FiniteSubsetsOf(Nat)
    BY <2>1 DEF FiniteSubsetsOf
  <2>3. TT # {}
    OBVIOUS
  <2>4. QED
    BY <2>2, <2>3
<1> HIDE DEF TT
<1>2. PICK x \in TT : \A y \in TT : <<y, x>> \notin StrictSubsetOrdering(Nat)
  <2>1. IsWellFoundedOn(StrictSubsetOrdering(Nat), FiniteSubsetsOf(Nat))
    BY FS_StrictSubsetOrderingWellFounded
  <2>2. QED
    BY <1>1, <2>1, WFMin, Zenon
<1>3. PICK n \in T : x = 0 .. n
  BY DEF TT
<1>4. ASSUME NEW m \in T, m < n
      PROVE  FALSE
  <2>1. 0 .. m \in TT
    BY DEF TT
  <2>2. /\ 0 .. m \in SUBSET Nat /\ 0 .. n \in SUBSET Nat
        /\ 0 .. m \subseteq 0 .. n
    BY <1>4
  <2>3. n \in 0 .. n /\ n \notin 0 .. m
    BY <1>4
  <2>4. <<0 .. m, 0 .. n>> \in StrictSubsetOrdering(Nat)
    BY <2>2, <2>3, Zenon DEF StrictSubsetOrdering
  <2>5. QED
    BY <1>2, <1>3, <2>1, <2>4
<1>5. QED
  BY <1>4

(* Min, which is defined by CHOOSE, of a set of numbers that is not empty. *)
LEMMA MinIsLeast ==
  ASSUME NEW T \in SUBSET Nat, T # {}
  PROVE  Min(T) \in T /\ \A y \in T : Min(T) <= y
BY LeastNumber DEF Min

(***************************************************************************)
(* Joining sequences.                                                      *)
(***************************************************************************)

(* The joined sequence up to the i-th, from what was joined before it.     *)
Joined(ss, h, i) == IF i = 1 THEN ss[i] ELSE h[i - 1] \o ss[i]

(* The recursive function inside FlattenSeq exists: a join is built one    *)
(* element at a time.                                                      *)
LEMMA JoinDefined ==
  ASSUME NEW S, NEW ss \in Seq(Seq(S)), Len(ss) # 0
  PROVE  \E g \in [1 .. Len(ss) -> Seq(S)] :
           /\ \A i \in 1 .. Len(ss) : g[i] = Joined(ss, g, i)
           /\ FlattenSeq(ss) = g[Len(ss)]
<1> DEFINE N == Len(ss)
           Holds(m) == \E g \in [1 .. m -> Seq(S)] :
                         \A i \in 1 .. m : g[i] = Joined(ss, g, i)
           T == {m \in 1 .. N : ~Holds(m)}
<1>1. N \in Nat \ {0} /\ \A i \in 1 .. N : ss[i] \in Seq(S)
  OBVIOUS
<1>2. Holds(1)
  <2>1. [i \in 1 .. 1 |-> ss[1]] \in [1 .. 1 -> Seq(S)]
    BY <1>1
  <2>2. \A i \in 1 .. 1 : i = 1
    OBVIOUS
  <2>3. \A i \in 1 .. 1 : [k \in 1 .. 1 |-> ss[1]][i] = Joined(ss, [k \in 1 .. 1 |-> ss[1]], i)
    BY <2>2 DEF Joined
  <2>4. QED
    BY <2>1, <2>3
<1>3. ASSUME NEW m \in 1 .. N, m # 1, Holds(m - 1)
      PROVE  Holds(m)
  <2>1. PICK g \in [1 .. m - 1 -> Seq(S)] :
               \A i \in 1 .. m - 1 : g[i] = Joined(ss, g, i)
    BY <1>3
  <2> DEFINE f == [i \in 1 .. m |-> IF i = m THEN Joined(ss, g, m) ELSE g[i]]
  <2>2. m - 1 \in 1 .. m - 1 /\ m \in Nat /\ ss[m] \in Seq(S)
    BY <1>1, <1>3
  <2>3. Joined(ss, g, m) \in Seq(S)
    <3>1. PICK u \in Seq(S), v \in Seq(S) : u = g[m - 1] /\ v = ss[m]
      BY <2>2
    <3>2. u \o v \in Seq(S)
      OBVIOUS
    <3>3. QED
      BY <1>3, <3>1, <3>2 DEF Joined
  <2>4. f \in [1 .. m -> Seq(S)]
    BY <2>2, <2>3
  <2>5. ASSUME NEW i \in 1 .. m
        PROVE  f[i] = Joined(ss, f, i)
    <3>1. i = 1 \/ (i - 1 \in 1 .. m - 1 /\ i - 1 # m /\ i - 1 \in 1 .. m)
      BY <2>2
    <3>2. Joined(ss, f, i) = Joined(ss, g, i)
      BY <3>1 DEF Joined
    <3>3. i = m \/ i \in 1 .. m - 1
      BY <2>2
    <3>4. QED
      BY <2>1, <3>2, <3>3
  <2>6. QED
    BY <2>4, <2>5
<1> HIDE DEF Holds
<1>4. Holds(N)
  <2>1. CASE T = {}
    <3>1. N \in 1 .. N /\ N \notin T
      BY <1>1, <2>1
    <3>2. QED
      BY <3>1
  <2>2. CASE T # {}
    <3>1. T \in SUBSET Nat
      OBVIOUS
    <3>2. PICK m \in T : \A k \in T : m <= k
      BY <2>2, <3>1, LeastNumber
    <3>3. m \in 1 .. N /\ ~Holds(m)
      OBVIOUS
    <3>4. m # 1
      BY <1>2, <3>3
    <3>5. m - 1 \in 1 .. N /\ ~(m <= m - 1)
      BY <1>1, <3>3, <3>4
    <3>6. Holds(m - 1)
      BY <3>2, <3>5
    <3>7. QED
      BY <1>3, <3>3, <3>4, <3>6
  <2>3. QED
    BY <2>1, <2>2
<1>5. PICK g \in [1 .. N -> Seq(S)] : \A i \in 1 .. N : g[i] = Joined(ss, g, i)
  BY <1>4 DEF Holds
<1>6. g = [i \in 1 .. N |-> Joined(ss, g, i)]
  BY <1>5
<1> DEFINE h == CHOOSE f : f = [i \in 1 .. N |-> Joined(ss, f, i)]
<1>7. h = [i \in 1 .. N |-> Joined(ss, h, i)]
  BY <1>6
<1>8. FlattenSeq(ss) = h[N]
  BY <1>1 DEF FlattenSeq, Joined
<1> HIDE DEF h
<1>9. \A i \in 1 .. N : h[i] = Joined(ss, h, i)
  BY <1>7
<1>10. \A i \in 1 .. N : h[i] = g[i]
  <2> DEFINE D == {i \in 1 .. N : h[i] # g[i]}
  <2>1. CASE D = {}
    BY <2>1
  <2>2. CASE D # {}
    <3>1. D \in SUBSET Nat
      OBVIOUS
    <3>2. PICK m \in D : \A k \in D : m <= k
      BY <2>2, <3>1, LeastNumber
    <3>3. m \in 1 .. N /\ h[m] # g[m]
      OBVIOUS
    <3>4. m = 1 \/ (m - 1 \in 1 .. N /\ ~(m <= m - 1))
      BY <1>1, <3>3
    <3>5. m = 1 \/ h[m - 1] = g[m - 1]
      BY <3>2, <3>4
    <3>6. Joined(ss, h, m) = Joined(ss, g, m)
      BY <3>5 DEF Joined
    <3>7. QED
      BY <1>5, <1>9, <3>3, <3>6
  <2>3. QED
    BY <2>1, <2>2
<1>11. FlattenSeq(ss) = g[N]
  BY <1>1, <1>8, <1>10
<1>12. QED
  BY <1>5, <1>11

(* Whatever is in the joined sequence was in one of those that are joined. *)
LEMMA JoinedFrom ==
  ASSUME NEW S, NEW ss \in Seq(Seq(S))
  PROVE  /\ FlattenSeq(ss) \in Seq(S)
         /\ \A j \in 1 .. Len(FlattenSeq(ss)) :
              \E i \in 1 .. Len(ss) : \E k \in 1 .. Len(ss[i]) :
                FlattenSeq(ss)[j] = ss[i][k]
<1> DEFINE N == Len(ss)
           From(s) == \A j \in 1 .. Len(s) :
                        \E i \in 1 .. N : \E k \in 1 .. Len(ss[i]) : s[j] = ss[i][k]
<1>1. N \in Nat /\ \A i \in 1 .. N : ss[i] \in Seq(S)
  OBVIOUS
<1>2. CASE N = 0
  <2>1. FlattenSeq(ss) = ss
    BY <1>2 DEF FlattenSeq
  <2>2. ss = <<>>
    BY <1>2
  <2>3. <<>> \in Seq(S) /\ Len(<<>>) = 0
    OBVIOUS
  <2>4. QED
    BY <2>1, <2>2, <2>3
<1>3. CASE N # 0
  <2>1. PICK g \in [1 .. N -> Seq(S)] :
          /\ \A i \in 1 .. N : g[i] = Joined(ss, g, i)
          /\ FlattenSeq(ss) = g[N]
    BY <1>3, JoinDefined
  <2>2. From(g[1])
    <3>1. 1 \in 1 .. N
      BY <1>1, <1>3
    <3>2. g[1] = Joined(ss, g, 1)
      BY <2>1, <3>1
    <3>3. g[1] = ss[1]
      BY <3>2 DEF Joined
    <3>4. QED
      BY <3>1, <3>3
  <2>3. ASSUME NEW m \in 1 .. N, m # 1, From(g[m - 1])
        PROVE  From(g[m])
    <3>1. m - 1 \in 1 .. N
      BY <1>1, <2>3
    <3>2. PICK u \in Seq(S), v \in Seq(S) : u = g[m - 1] /\ v = ss[m]
      BY <1>1, <3>1
    <3>3. PICK w \in Seq(S) : w = u \o v
      <4>1. u \o v \in Seq(S)
        OBVIOUS
      <4>2. QED
        BY <4>1
    <3>4. g[m] = w
      BY <2>1, <2>3, <3>2, <3>3 DEF Joined
    <3>5. ASSUME NEW j \in 1 .. Len(w)
          PROVE  \E i \in 1 .. N : \E k \in 1 .. Len(ss[i]) : w[j] = ss[i][k]
      <4>1. /\ Len(u) \in Nat /\ Len(v) \in Nat /\ Len(w) = Len(u) + Len(v)
            /\ w[j] = IF j <= Len(u) THEN u[j] ELSE v[j - Len(u)]
        BY <3>3
      <4>2. CASE j <= Len(u)
        <5>1. j \in 1 .. Len(u) /\ w[j] = u[j]
          BY <4>1, <4>2
        <5>2. QED
          BY <2>3, <3>2, <5>1
      <4>3. CASE ~(j <= Len(u))
        <5>1. j - Len(u) \in 1 .. Len(v) /\ w[j] = v[j - Len(u)]
          BY <4>1, <4>3
        <5>2. QED
          BY <3>2, <5>1
      <4>4. QED
        BY <4>2, <4>3
    <3>6. QED
      BY <3>4, <3>5
  <2> HIDE DEF From
  <2>4. From(g[N])
    <3> DEFINE T == {m \in 1 .. N : ~From(g[m])}
    <3>1. CASE T = {}
      <4>1. N \in 1 .. N
        BY <1>1, <1>3
      <4>2. QED
        BY <3>1, <4>1
    <3>2. CASE T # {}
      <4>1. T \in SUBSET Nat
        OBVIOUS
      <4>2. PICK m \in T : \A k \in T : m <= k
        BY <3>2, <4>1, LeastNumber
      <4>3. m \in 1 .. N /\ ~From(g[m])
        OBVIOUS
      <4>4. m # 1
        BY <2>2, <4>3
      <4>5. m - 1 \in 1 .. N /\ ~(m <= m - 1)
        BY <1>1, <4>3, <4>4
      <4>6. From(g[m - 1])
        BY <4>2, <4>5
      <4>7. QED
        BY <2>3, <4>3, <4>4, <4>6
    <3>3. QED
      BY <3>1, <3>2
  <2>5. PICK r \in Seq(S) : r = FlattenSeq(ss) /\ r = g[N]
    BY <1>1, <1>3, <2>1
  <2>6. From(r)
    BY <2>4, <2>5
  <2>7. QED
    BY <2>5, <2>6 DEF From
<1>4. QED
  BY <1>2, <1>3

(* Induction: what holds of l and of each next number holds from l on.     *)
LEMMA Climb ==
  ASSUME NEW N \in Nat, NEW l \in 1 .. N, NEW G, l \in G,
         \A m \in l + 1 .. N : m - 1 \in G => m \in G
  PROVE  \A m \in l .. N : m \in G
<1> DEFINE T == {m \in l .. N : m \notin G}
<1>1. CASE T = {}
  BY <1>1
<1>2. CASE T # {}
  <2>1. T \in SUBSET Nat
    OBVIOUS
  <2>2. PICK m \in T : \A k \in T : m <= k
    BY <1>2, <2>1, LeastNumber
  <2>3. m \in l + 1 .. N /\ m - 1 \in l .. N /\ ~(m <= m - 1)
    BY <2>2
  <2>4. m - 1 \in G
    BY <2>2, <2>3
  <2>5. QED
    BY <2>2, <2>3, <2>4
<1>3. QED
  BY <1>1, <1>2

(* g[i] is what the first i parts make when they are joined.               *)
IsJoin(g, ss) == \A i \in 1 .. Len(ss) : g[i] = Joined(ss, g, i)

(* FlattenSeq is the last of the sequence of joins of the first 1, 2, ...  *)
(* elements.                                                               *)
LEMMA JoinOf ==
  ASSUME NEW S, NEW ss \in Seq(Seq(S)), Len(ss) # 0
  PROVE  \E g \in [1 .. Len(ss) -> Seq(S)] : IsJoin(g, ss) /\ FlattenSeq(ss) = g[Len(ss)]
BY JoinDefined DEF IsJoin

NoneBefore(ss, l) == \A i \in 1 .. Len(ss) : i < l => ss[i] = <<>>

(* Empty elements in front add nothing to a join.                          *)
LEMMA EmptyBefore ==
  ASSUME NEW S, NEW ss \in Seq(Seq(S)), NEW g \in [1 .. Len(ss) -> Seq(S)],
         IsJoin(g, ss), NEW l \in 1 .. Len(ss), NoneBefore(ss, l)
  PROVE  g[l] = ss[l]
<1> DEFINE N == Len(ss)
           G == {i \in 1 .. N : i < l => g[i] = <<>>}
<1>1. N \in Nat /\ 1 \in 1 .. N /\ l \in 1 .. N
  OBVIOUS
<1>2. g[1] = ss[1]
  BY <1>1 DEF Joined, IsJoin
<1>3. 1 \in G
  BY <1>1, <1>2 DEF NoneBefore
<1>4. ASSUME NEW m \in 1 + 1 .. N, m - 1 \in G
      PROVE  m \in G
  <2>1. m \in 1 .. N /\ m # 1
    OBVIOUS
  <2>2. CASE m < l
    <3>1. g[m - 1] = <<>> /\ ss[m] = <<>>
      BY <1>4, <2>1, <2>2 DEF NoneBefore
    <3>2. g[m] = <<>> \o <<>>
      BY <2>1, <3>1 DEF Joined, IsJoin
    <3>3. <<>> \o <<>> = <<>>
      OBVIOUS
    <3>4. QED
      BY <2>1, <3>2, <3>3
  <2>3. QED
    BY <2>1, <2>2
<1> HIDE DEF G
<1>5. \A m \in 1 .. N : m \in G
  BY <1>1, <1>3, <1>4, Climb
<1>6. CASE l = 1
  BY <1>2, <1>6
<1>7. CASE l # 1
  <2>1. l - 1 \in 1 .. N /\ l - 1 < l
    BY <1>1, <1>7
  <2>2. g[l - 1] = <<>>
    BY <1>5, <2>1 DEF G
  <2>3. g[l] = <<>> \o ss[l]
    BY <1>1, <1>7, <2>2 DEF Joined, IsJoin
  <2>4. ss[l] \in Seq(S)
    OBVIOUS
  <2>5. QED
    BY <2>3, <2>4, ConcatEmptySeq
<1>8. QED
  BY <1>6, <1>7

(* Two lists of parts that begin alike.                                    *)
Alike(ss, tt, p) == \A i \in 1 .. p : tt[i] = ss[i]

UpTo(g, ss, p) == \A i \in 1 .. p : g[i] = Joined(ss, g, i)

(* Joins of the same elements are the same.                                *)
LEMMA SameBefore ==
  ASSUME NEW p \in Nat, p # 0, NEW g, NEW ss, UpTo(g, ss, p),
         NEW h, NEW tt, UpTo(h, tt, p), Alike(ss, tt, p)
  PROVE  h[p] = g[p]
<1> DEFINE G == {i \in 1 .. p : h[i] = g[i]}
<1>1. 1 \in 1 .. p /\ p \in 1 .. p
  OBVIOUS
<1>2. 1 \in G
  BY <1>1 DEF Joined, UpTo, Alike
<1>3. ASSUME NEW m \in 1 + 1 .. p, m - 1 \in G
      PROVE  m \in G
  <2>1. m \in 1 .. p /\ m # 1 /\ h[m - 1] = g[m - 1]
    BY <1>3
  <2>2. g[m] = g[m - 1] \o ss[m] /\ h[m] = h[m - 1] \o tt[m] /\ tt[m] = ss[m]
    BY <2>1 DEF Joined, UpTo, Alike
  <2>3. QED
    BY <2>1, <2>2
<1> HIDE DEF G
<1>4. \A m \in 1 .. p : m \in G
  BY <1>1, <1>2, <1>3, Climb
<1>5. QED
  BY <1>1, <1>4 DEF G

(* A name for \o, so that the facts below are instantiated by their terms. *)
Cat(s, t) == s \o t

(* Every element of q is one of r or of w.                                 *)
Mixed(q, r, w) ==
  \A j \in 1 .. Len(q) : \/ \E k \in 1 .. Len(r) : q[j] = r[k]
                         \/ \E k \in 1 .. Len(w) : q[j] = w[k]

(* Joining is associative.                                                 *)
LEMMA CatAssociative ==
  ASSUME NEW S, NEW u \in Seq(S), NEW r \in Seq(S), NEW w \in Seq(S)
  PROVE  Cat(Cat(u, r), w) = Cat(u, Cat(r, w))
BY ConcatAssociative DEF Cat

(* What is in a join is in one of its parts.                               *)
LEMMA CatElements ==
  ASSUME NEW S, NEW r \in Seq(S), NEW w \in Seq(S)
  PROVE  \E q \in Seq(S) : q = Cat(r, w) /\ Mixed(q, r, w)
<1>1. r \o w \in Seq(S)
  OBVIOUS
<1>2. PICK q \in Seq(S) : q = r \o w
  BY <1>1
<1>3. ASSUME NEW j \in 1 .. Len(q)
      PROVE  \/ \E k \in 1 .. Len(r) : q[j] = r[k]
             \/ \E k \in 1 .. Len(w) : q[j] = w[k]
  <2>1. /\ Len(r) \in Nat /\ Len(w) \in Nat /\ Len(q) = Len(r) + Len(w)
        /\ q[j] = IF j <= Len(r) THEN r[j] ELSE w[j - Len(r)]
    BY <1>2
  <2>2. CASE j <= Len(r)
    BY <2>1, <2>2
  <2>3. CASE ~(j <= Len(r))
    <3>1. j - Len(r) \in 1 .. Len(w) /\ q[j] = w[j - Len(r)]
      BY <2>1, <2>3
    <3>2. QED
      BY <3>1
  <2>4. QED
    BY <2>2, <2>3
<1>4. QED
  BY <1>2, <1>3 DEF Cat, Mixed

(* Two lists of parts that only differ in part l, the first not empty.     *)
SameAfter(ss, tt, l) == \A i \in 1 .. Len(ss) : i > l => tt[i] = ss[i]

(* The elements of r are elements of parts behind part l.                  *)
Behind(r, ss, l) ==
  \A j \in 1 .. Len(r) : \E i \in l + 1 .. Len(ss) : \E k \in 1 .. Len(ss[i]) : r[j] = ss[i][k]

(* If two sequences differ only in the first element that is not empty,    *)
(* their joins have the same remainder behind it.                          *)
LEMMA FirstChanged ==
  ASSUME NEW S, NEW ss \in Seq(Seq(S)), NEW tt \in Seq(Seq(S)), Len(tt) = Len(ss),
         NEW l \in 1 .. Len(ss), NoneBefore(ss, l), NoneBefore(tt, l), SameAfter(ss, tt, l)
  PROVE  \E r \in Seq(S) :
           /\ FlattenSeq(ss) = Cat(ss[l], r)
           /\ FlattenSeq(tt) = Cat(tt[l], r)
           /\ Behind(r, ss, l)
<1> DEFINE N == Len(ss)
           From(r) == \A j \in 1 .. Len(r) : \E i \in l + 1 .. N :
                        \E k \in 1 .. Len(ss[i]) : r[j] = ss[i][k]
<1>1. N \in Nat /\ N # 0 /\ l \in 1 .. N /\ l \in 1 .. Len(tt) /\ Len(tt) # 0
  OBVIOUS
<1>2. PICK g \in [1 .. N -> Seq(S)] : IsJoin(g, ss) /\ FlattenSeq(ss) = g[N]
  BY <1>1, JoinOf
<1>3. PICK h \in [1 .. N -> Seq(S)] : IsJoin(h, tt) /\ FlattenSeq(tt) = h[N]
  <2>1. \E h \in [1 .. Len(tt) -> Seq(S)] : IsJoin(h, tt) /\ FlattenSeq(tt) = h[Len(tt)]
    BY <1>1, JoinOf
  <2>2. QED
    BY <2>1
<1>4. g[l] = ss[l]
  BY <1>2, EmptyBefore
<1>5. h[l] = tt[l]
  <2>1. h \in [1 .. Len(tt) -> Seq(S)]
    OBVIOUS
  <2>2. QED
    BY <1>1, <1>3, <2>1, EmptyBefore
<1>6. PICK u \in Seq(S), v \in Seq(S) : u = ss[l] /\ v = tt[l]
  BY <1>1
<1> DEFINE Good(m) == \E r \in Seq(S) : g[m] = u \o r /\ h[m] = v \o r /\ From(r)
           G == {m \in l .. N : Good(m)}
<1>7. Good(l)
  <2>1. <<>> \in Seq(S) /\ Len(<<>>) = 0
    OBVIOUS
  <2>2. u \o <<>> = u /\ v \o <<>> = v
    BY ConcatEmptySeq
  <2>3. From(<<>>)
    BY <2>1
  <2> HIDE DEF From
  <2>4. QED
    BY <1>4, <1>5, <1>6, <2>1, <2>2, <2>3
<1>8. ASSUME NEW m \in l + 1 .. N, Good(m - 1)
      PROVE  Good(m)
  <2>1. m \in 1 .. N /\ m # 1 /\ m > l
    BY <1>1
  <2> HIDE DEF From
  <2>2. PICK r \in Seq(S) : g[m - 1] = Cat(u, r) /\ h[m - 1] = Cat(v, r) /\ From(r)
    BY <1>8 DEF Cat
  <2>3. PICK w \in Seq(S) : w = ss[m] /\ w = tt[m]
    <3>1. ss[m] \in Seq(S)
      BY <2>1
    <3>2. tt[m] = ss[m]
      BY <2>1 DEF SameAfter
    <3>3. QED
      BY <3>1, <3>2
  <2>4. PICK q \in Seq(S) : q = Cat(r, w) /\ Mixed(q, r, w)
    BY CatElements
  <2>8. Cat(Cat(u, r), w) = Cat(u, q) /\ Cat(Cat(v, r), w) = Cat(v, q)
    <3>1. Cat(Cat(u, r), w) = Cat(u, Cat(r, w))
      BY CatAssociative
    <3>2. Cat(Cat(v, r), w) = Cat(v, Cat(r, w))
      BY CatAssociative
    <3>3. QED
      BY <2>4, <3>1, <3>2
  <2>5. g[m] = Cat(Cat(u, r), w) /\ h[m] = Cat(Cat(v, r), w)
    BY <1>2, <1>3, <2>1, <2>2, <2>3 DEF Joined, IsJoin, Cat
  <2>6. From(q)
    <3>1. ASSUME NEW j \in 1 .. Len(q)
          PROVE  \E i \in l + 1 .. N : \E k \in 1 .. Len(ss[i]) : q[j] = ss[i][k]
      <4>1. CASE \E k \in 1 .. Len(r) : q[j] = r[k]
        <5>1. PICK k \in 1 .. Len(r) : q[j] = r[k]
          BY <4>1
        <5>2. \E i \in l + 1 .. N : \E p \in 1 .. Len(ss[i]) : r[k] = ss[i][p]
          BY <2>2 DEF From
        <5>3. QED
          BY <5>1, <5>2
      <4>2. CASE \E k \in 1 .. Len(w) : q[j] = w[k]
        BY <2>3, <4>2
      <4>3. QED
        BY <2>4, <4>1, <4>2 DEF Mixed
    <3>2. QED
      BY <3>1 DEF From
  <2>7. QED
    BY <2>5, <2>6, <2>8 DEF Cat
<1> HIDE DEF Good
<1>9. \A m \in l .. N : m \in G
  <2>1. l \in G
    BY <1>1, <1>7
  <2>2. ASSUME NEW m \in l + 1 .. N, m - 1 \in G
        PROVE  m \in G
    BY <1>1, <1>8, <2>2
  <2> HIDE DEF G
  <2>3. QED
    BY <1>1, <2>1, <2>2, Climb
<1>10. Good(N)
  BY <1>1, <1>9
<1>11. QED
  BY <1>2, <1>3, <1>6, <1>10 DEF Good, Cat, Behind

(* Nothing lies behind part l, which gets longer.                          *)
SameBut(ss, tt, l) == \A i \in 1 .. Len(ss) : i < l => tt[i] = ss[i]
NoneAfter(ss, l) == \A i \in 1 .. Len(ss) : i > l => ss[i] = <<>>

(* If the last element that is not empty is made longer by b, so is the    *)
(* join.                                                                   *)
LEMMA LastLonger ==
  ASSUME NEW S, NEW ss \in Seq(Seq(S)), NEW tt \in Seq(Seq(S)), Len(tt) = Len(ss),
         NEW l \in 1 .. Len(ss), SameBut(ss, tt, l), NoneAfter(ss, l), NoneAfter(tt, l),
         NEW b \in Seq(S), tt[l] = Cat(ss[l], b)
  PROVE  FlattenSeq(tt) = Cat(FlattenSeq(ss), b)
<1> DEFINE N == Len(ss)
<1>1. N \in Nat /\ N # 0 /\ l \in 1 .. N /\ l \in 1 .. Len(tt) /\ Len(tt) # 0 /\ N = Len(tt)
  OBVIOUS
<1>2. PICK g \in [1 .. N -> Seq(S)] : IsJoin(g, ss) /\ FlattenSeq(ss) = g[N]
  BY <1>1, JoinOf
<1>3. PICK h \in [1 .. N -> Seq(S)] : IsJoin(h, tt) /\ FlattenSeq(tt) = h[N]
  <2>1. \E h \in [1 .. Len(tt) -> Seq(S)] : IsJoin(h, tt) /\ FlattenSeq(tt) = h[Len(tt)]
    BY <1>1, JoinOf
  <2>2. QED
    BY <2>1
<1>4. h[l] = Cat(g[l], b)
  <2>1. PICK x \in Seq(S) : x = ss[l]
    OBVIOUS
  <2>2. CASE l = 1
    <3>0. 1 \in 1 .. Len(ss) /\ 1 \in 1 .. Len(tt)
      BY <1>1
    <3>1. g[1] = ss[1] /\ h[1] = tt[1]
      BY <3>0, <1>2, <1>3 DEF IsJoin, Joined
    <3>2. QED
      BY <2>2, <3>1
  <2>3. CASE l # 1
    <3>1. l - 1 \in 1 .. N
      BY <1>1, <2>3
    <3>2. PICK p \in 1 .. N : p = l - 1 /\ p \in Nat /\ p # 0
      BY <3>1
    <3>3. Alike(ss, tt, p)
      BY <1>1, <3>2 DEF SameBut, Alike
    <3>4. UpTo(g, ss, p) /\ UpTo(h, tt, p)
      <4>1. \A i \in 1 .. p : i \in 1 .. Len(ss) /\ i \in 1 .. Len(tt)
        BY <1>1, <3>2
      <4>2. QED
        BY <1>2, <1>3, <4>1 DEF IsJoin, UpTo
    <3>5. h[p] = g[p]
      BY <3>2, <3>3, <3>4, SameBefore
    <3>6. PICK y \in Seq(S) : y = g[p] /\ y = h[p]
      BY <3>5
    <3>7. g[l] = Cat(y, x) /\ h[l] = Cat(y, Cat(x, b))
      BY <1>1, <1>2, <1>3, <2>1, <2>3, <3>2, <3>6 DEF IsJoin, Joined, Cat
    <3>8. Cat(Cat(y, x), b) = Cat(y, Cat(x, b))
      BY CatAssociative
    <3>9. QED
      BY <3>7, <3>8
  <2>4. QED
    BY <2>2, <2>3
<1> DEFINE G == {m \in l .. N : h[m] = Cat(g[m], b)}
<1>5. l \in G
  BY <1>1, <1>4
<1>6. ASSUME NEW m \in l + 1 .. N, m - 1 \in G
      PROVE  m \in G
  <2>1. m \in 1 .. N /\ m # 1 /\ m > l /\ m - 1 \in 1 .. N
    BY <1>1
  <2>2. ss[m] = <<>> /\ tt[m] = <<>>
    BY <1>1, <2>1 DEF NoneAfter
  <2>3. g[m] = g[m - 1] \o <<>> /\ h[m] = h[m - 1] \o <<>>
    BY <1>1, <1>2, <1>3, <2>1, <2>2 DEF IsJoin, Joined
  <2>4. g[m - 1] \in Seq(S) /\ h[m - 1] \in Seq(S)
    BY <2>1
  <2>5. g[m] = g[m - 1] /\ h[m] = h[m - 1]
    BY <2>3, <2>4, ConcatEmptySeq
  <2>6. QED
    BY <1>6, <2>5
<1> HIDE DEF G
<1>7. \A m \in l .. N : m \in G
  BY <1>1, <1>5, <1>6, Climb
<1>8. N \in G
  BY <1>1, <1>7
<1>9. QED
  BY <1>2, <1>3, <1>8 DEF G

(* One part more.                                                          *)
LEMMA PartAdded ==
  ASSUME NEW S, NEW ss \in Seq(Seq(S)), NEW b \in Seq(S)
  PROVE  FlattenSeq(Append(ss, b)) = Cat(FlattenSeq(ss), b)
<1> DEFINE N == Len(ss)
<1>1. PICK tt \in Seq(Seq(S)) : tt = Append(ss, b)
  <2>1. Append(ss, b) \in Seq(Seq(S))
    OBVIOUS
  <2>2. QED
    BY <2>1
<1>2. /\ N \in Nat /\ Len(tt) = N + 1 /\ tt[N + 1] = b /\ \A i \in 1 .. N : tt[i] = ss[i]
      /\ Len(tt) # 0 /\ N + 1 \in 1 .. N + 1
  BY <1>1
<1> HIDE DEF N
<1>3. PICK h \in [1 .. Len(tt) -> Seq(S)] : IsJoin(h, tt) /\ FlattenSeq(tt) = h[Len(tt)]
  BY <1>2, JoinOf
<1>4. CASE N = 0
  <2>1. FlattenSeq(ss) = ss
    BY <1>4 DEF FlattenSeq, N
  <2>2. ss = <<>>
    BY <1>4 DEF N
  <2>3. h[1] = b
    BY <1>2, <1>3, <1>4 DEF IsJoin, Joined
  <2>4. Cat(<<>>, b) = b
    BY ConcatEmptySeq DEF Cat
  <2>5. QED
    BY <1>1, <1>2, <1>3, <1>4, <2>1, <2>2, <2>3, <2>4
<1>5. CASE N # 0
  <2>1. PICK g \in [1 .. N -> Seq(S)] : IsJoin(g, ss) /\ FlattenSeq(ss) = g[N]
    BY <1>5, JoinOf DEF N
  <2>2. Alike(ss, tt, N)
    BY <1>2 DEF Alike
  <2>3. h[N] = g[N]
    <3>1. UpTo(g, ss, N)
      BY <2>1 DEF IsJoin, UpTo, N
    <3>2. UpTo(h, tt, N)
      BY <1>2, <1>3 DEF IsJoin, UpTo
    <3>3. QED
      BY <1>2, <1>5, <2>2, <3>1, <3>2, SameBefore
  <2>4. h[N + 1] = h[N] \o b
    <3>1. N + 1 # 1 /\ (N + 1) - 1 = N
      BY <1>2, <1>5
    <3>2. QED
      BY <1>2, <1>3, <3>1 DEF IsJoin, Joined
  <2>5. QED
    BY <1>1, <1>2, <1>3, <2>1, <2>3, <2>4 DEF Cat
<1>6. QED
  BY <1>4, <1>5

(***************************************************************************)
(* Types.                                                                  *)
(***************************************************************************)

Entry == [ch : Channels, off : Nat, size : Nat, addr : Nat]
Byte  == [ch : Channels, msg : Nat, pos : Nat] \cup {Blank}

Types ==
  /\ entries \in Seq(Entry)
  /\ \A x \in DOMAIN mem : mem[x] \in Byte
  /\ kvirt \in Nat
  /\ kobjs \in Nat
  /\ msgs \in [Channels -> Nat]
  /\ beyond \in Nat

(* An entry with other bounds of what is unread. *)
With(e, off, size) == [ch |-> e.ch, off |-> off, size |-> size, addr |-> e.addr]

(* The assignments to size and off of an entry, as a function of both.     *)
LEMMA EntryFields ==
  ASSUME NEW e \in Entry, NEW x \in Nat
  PROVE  /\ [e EXCEPT !.size = x] = With(e, e.off, x)
         /\ [e EXCEPT !.off = x] = With(e, x, e.size)
<1>1. [e EXCEPT !.size = x] = With(e, e.off, x)
  BY DEF Entry, With
<1>2. [e EXCEPT !.off = x] = With(e, x, e.size)
  BY DEF Entry, With
<1>3. QED
  BY <1>1, <1>2

(* ... which is an entry with these fields.                                *)
LEMMA WithIsEntry ==
  ASSUME NEW e \in Entry, NEW off \in Nat, NEW size \in Nat
  PROVE  /\ With(e, off, size) \in Entry
         /\ With(e, off, size).ch = e.ch /\ With(e, off, size).addr = e.addr
         /\ With(e, off, size).off = off /\ With(e, off, size).size = size
BY DEF Entry, With

(* The types of the fields of an entry.                                    *)
LEMMA EntryTypes ==
  ASSUME NEW e \in Entry
  PROVE  /\ e.ch \in Channels /\ e.off \in Nat /\ e.size \in Nat /\ e.addr \in Nat
         /\ End(e) \in Nat /\ End(e) = e.size + e.off
BY DEF Entry, End

(* The same as bound numbers, for arithmetic about an entry.               *)
LEMMA EntryNumbers ==
  ASSUME NEW e \in Entry
  PROVE  \E ad \in Nat, of \in Nat, sz \in Nat :
           e.addr = ad /\ e.off = of /\ e.size = sz /\ End(e) = sz + of
BY EntryTypes

(* A list whose entry i is another one. *)
LEMMA Replaced ==
  ASSUME NEW list \in Seq(Entry), NEW i \in 1 .. Len(list), NEW e \in Entry,
         NEW new, new = [list EXCEPT ![i] = e]
  PROVE  /\ new \in Seq(Entry)
         /\ Len(new) = Len(list)
         /\ \A k \in 1 .. Len(list) : new[k] = IF k = i THEN e ELSE list[k]
<1>1. new \in Seq(Entry)
  OBVIOUS
<1>2. PICK s \in Seq(Entry) : s = new
  BY <1>1
<1>3. Len(s) = Len(list) /\ \A k \in 1 .. Len(list) : s[k] = IF k = i THEN e ELSE list[k]
  BY <1>2
<1>4. QED
  BY <1>2, <1>3

(* A message is a sequence of bytes named by channel, message and place.   *)
LEMMA MessageBytes ==
  ASSUME NEW ch \in Channels, NEW k \in Nat, NEW size \in Nat
  PROVE  /\ Message(ch, k, size) \in Seq(Byte)
         /\ Len(Message(ch, k, size)) = size
         /\ \A i \in 1 .. size : Message(ch, k, size)[i] = [ch |-> ch, msg |-> k, pos |-> i]
<1>1. ASSUME NEW i \in 1 .. size
      PROVE  [ch |-> ch, msg |-> k, pos |-> i] \in Byte
  BY DEF Byte
<1>2. Message(ch, k, size) \in [1 .. size -> Byte]
  BY <1>1 DEF Message
<1>3. PICK s \in Seq(Byte) : s = Message(ch, k, size) /\ Len(s) = size
  BY <1>2
<1>4. QED
  BY <1>3 DEF Message

(* What is read from memory is a sequence of bytes.                        *)
LEMMA BytesRead ==
  ASSUME Types, NEW a \in Nat, NEW n \in Nat
  PROVE  /\ Bytes(a, n) \in Seq(Byte)
         /\ Len(Bytes(a, n)) = n
         /\ \A i \in 1 .. n : a + i - 1 \in DOMAIN mem => Bytes(a, n)[i] = mem[a + i - 1]
<1>1. ASSUME NEW i \in 1 .. n
      PROVE  (IF a + i - 1 \in DOMAIN mem THEN mem[a + i - 1] ELSE Blank) \in Byte
  BY DEF Byte, Types
<1>2. Bytes(a, n) \in [1 .. n -> Byte]
  BY <1>1 DEF Bytes
<1>3. PICK s \in Seq(Byte) : s = Bytes(a, n) /\ Len(s) = n
  BY <1>2
<1>4. QED
  BY <1>3 DEF Bytes

(* The number of pages for a size is a number.                             *)
LEMMA PagesNat ==
  ASSUME NEW n \in Nat
  PROVE  Pages(n) \in Nat /\ Pages(n) * PageSize \in Nat
<1>1. PageSize \in Nat \ {0}
  BY PortsAssumption DEF PortsAssumption
<1>2. n \div PageSize \in Nat
  BY <1>1
<1>3. Pages(n) \in Nat
  BY <1>1, <1>2 DEF Pages
<1>4. QED
  BY <1>1, <1>3

(* What a copy of bytes to kernel memory leaves there. *)
LEMMA WrittenTypes ==
  ASSUME Types, NEW a \in Nat, NEW bytes \in Seq(Byte), mem' = Written(a, bytes)
  PROVE  \A x \in DOMAIN mem' : mem'[x] \in Byte
<1> DEFINE there == a .. a + Len(bytes) - 1
<1>1. CASE a = Null
  BY <1>1 DEF Written, Types
<1>2. CASE a # Null
  <2>1. mem' = [x \in there \cup DOMAIN mem |->
                  IF x \in there THEN bytes[x - a + 1] ELSE mem[x]]
    BY <1>2 DEF Written
  <2>2. ASSUME NEW x \in there
        PROVE  bytes[x - a + 1] \in Byte
    <3>1. x - a + 1 \in 1 .. Len(bytes)
      OBVIOUS
    <3>2. QED
      BY <3>1
  <2>3. QED
    BY <2>1, <2>2 DEF Types
<1>3. QED
  BY <1>1, <1>2

(* The last entry of a channel that has one.                               *)
LEMMA OfPlaces ==
  ASSUME Types, NEW list \in Seq(Entry), list = entries, NEW ch, Of(ch) # {}
  PROVE  /\ LastOf(ch) \in 1 .. Len(list) /\ list[LastOf(ch)].ch = ch
         /\ Of(ch) \subseteq 1 .. Len(list)
         /\ \A i \in 1 .. Len(list) : i > LastOf(ch) => list[i].ch # ch
<1>1. Of(ch) \subseteq 1 .. Len(list) /\ Of(ch) \in SUBSET Nat
  BY DEF Of
<1>2. \E m \in Of(ch) : \A k \in Of(ch) : m >= k
  <2> DEFINE T == {Len(list) - k : k \in Of(ch)}
  <2>1. T \in SUBSET Nat /\ T # {}
    BY <1>1
  <2>2. PICK t \in T : \A u \in T : t <= u
    BY <2>1, LeastNumber
  <2>3. PICK m \in Of(ch) : t = Len(list) - m
    OBVIOUS
  <2>4. ASSUME NEW k \in Of(ch)
        PROVE  m >= k
    <3>1. Len(list) - m <= Len(list) - k
      BY <2>2, <2>3
    <3>2. QED
      BY <1>1, <3>1
  <2>5. QED
    BY <2>4
<1>3. LastOf(ch) \in Of(ch)
  BY <1>2 DEF LastOf, Max
<1>4. \A k \in Of(ch) : LastOf(ch) >= k
  BY <1>2 DEF LastOf, Max
<1>5. ASSUME NEW i \in 1 .. Len(list), list[i].ch = ch
      PROVE  ~(i > LastOf(ch))
  <2>1. i \in Of(ch)
    BY <1>5 DEF Of
  <2>2. LastOf(ch) \in Nat /\ LastOf(ch) >= i
    BY <1>1, <1>3, <1>4, <2>1
  <2>3. QED
    BY <2>2
<1>6. QED
  BY <1>1, <1>3, <1>5 DEF Of

(***************************************************************************)
(* The steps, with the lists they leave.                                   *)
(***************************************************************************)

(* A message is put behind the unread bytes of the channel's last entry.   *)
Appends(ch, size, l) ==
  /\ l \in 1 .. Len(entries) /\ entries[l].ch = ch
  /\ \A i \in 1 .. Len(entries) : i > l => entries[i].ch # ch
  /\ entries' = [entries EXCEPT ![l] = With(entries[l], entries[l].off, entries[l].size + size)]
  /\ mem' = Written(entries[l].addr + End(entries[l]), Message(ch, msgs[ch] + 1, size))
  /\ kvirt' = kvirt /\ kobjs' = kobjs

(* A message gets pages and, if there are kernel objects, an entry.        *)
Begins(ch, size) ==
  /\ kvirt' = IF kvirt = Null THEN Null ELSE kvirt + Pages(size) * PageSize
  /\ mem' = Written(kvirt, Message(ch, msgs[ch] + 1, size))
  /\ kobjs' \in Nat
  /\ \/ entries' = entries
     \/ entries' = Append(entries, [ch |-> ch, off |-> 0, size |-> size, addr |-> kvirt])

(* The outcomes of send: none, a new entry, or an append to the last entry *)
(* of the channel.                                                         *)
LEMMA SendStep ==
  ASSUME Types, NEW ch \in Channels, NEW size \in Sizes, send(ch, size)
  PROVE  /\ msgs' = [msgs EXCEPT ![ch] = @ + 1]
         /\ \/ UNCHANGED <<entries, mem, kvirt, kobjs>>
            \/ Begins(ch, size)
            \/ \E l \in 1 .. Len(entries) : Appends(ch, size, l)
<1>1. size \in Nat
  BY PortsAssumption DEF PortsAssumption
<1> DEFINE bytes == Message(ch, msgs[ch] + 1, size)
<1>2. msgs[ch] + 1 \in Nat
  BY DEF Types
<1>3. Len(bytes) = size
  BY <1>1, <1>2, MessageBytes
<1> HIDE DEF bytes
<1>4. ASSUME NewEntry(ch, bytes)
      PROVE  Begins(ch, size)
  <2>1. kobjs' \in Nat
    BY <1>4 DEF NewEntry, Types
  <2>2. QED
    BY <1>3, <1>4, <2>1 DEF NewEntry, Begins, bytes
<1>5. ASSUME Of(ch) # {}, AppendTo(LastOf(ch), bytes)
      PROVE  \E l \in 1 .. Len(entries) : Appends(ch, size, l)
  <2>1. PICK list \in Seq(Entry) : list = entries
    BY DEF Types
  <2>2. PICK l \in 1 .. Len(list) :
          /\ l = LastOf(ch) /\ list[l].ch = ch
          /\ \A i \in 1 .. Len(list) : i > l => list[i].ch # ch
    BY <1>5, <2>1, OfPlaces
  <2>3. PICK e \in Entry : e = list[l]
    OBVIOUS
  <2>4. /\ mem' = Written(e.addr + End(e), bytes)
        /\ entries' = [list EXCEPT ![l].size = @ + size]
        /\ kvirt' = kvirt /\ kobjs' = kobjs
    BY <1>3, <1>5, <2>1, <2>2, <2>3 DEF AppendTo
  <2>5. [list EXCEPT ![l].size = @ + size]
          = [list EXCEPT ![l] = [list[l] EXCEPT !.size = @ + size]]
    OBVIOUS
  <2>6. [e EXCEPT !.size = @ + size] = With(e, e.off, e.size + size)
    <3>1. e.size + size \in Nat
      BY <1>1, EntryTypes
    <3>2. QED
      BY <3>1, EntryFields
  <2>7. Appends(ch, size, l)
    BY <2>1, <2>2, <2>3, <2>4, <2>5, <2>6 DEF Appends, bytes
  <2>8. QED
    BY <2>1, <2>7
<1>6. ASSUME DivideByZero(LastOf(ch))
      PROVE  UNCHANGED <<entries, mem, kvirt, kobjs>>
  BY <1>6 DEF DivideByZero
<1>7. QED
  BY <1>4, <1>5, <1>6 DEF send, bytes

(* What a receive takes from entry i.                                      *)
Takes(ch, size, i) ==
  LET e   == entries[i]
      off == e.off + size
  IN  /\ i \in 1 .. Len(entries) /\ e.ch = ch /\ size <= e.size
      /\ \A j \in 1 .. Len(entries) :
           entries[j].ch = ch /\ size <= entries[j].size => i <= j
      /\ reply' = [ok |-> TRUE, bytes |-> Bytes(e.addr + e.off, size)]
      /\ entries' = [entries EXCEPT ![i] = With(e, WrappedOff(off), e.size - size)]
      /\ kvirt' = kvirt \/ (kvirt' = Null /\ off >= PageSize)

(* The outcomes of receive: nothing, because no entry of the channel has   *)
(* enough, or the bytes at the front of one that has.                      *)
LEMMA ReceiveStep ==
  ASSUME Types, NEW ch \in Channels, NEW size \in Sizes, receive(ch, size)
  PROVE  /\ mem' = mem /\ msgs' = msgs /\ kobjs' \in Nat
         /\ \/ /\ reply' = NoReply /\ entries' = entries /\ kvirt' = kvirt
               /\ \A j \in 1 .. Len(entries) :
                    entries[j].ch = ch => ~(size <= entries[j].size)
            \/ \E i \in 1 .. Len(entries) : Takes(ch, size, i)
<1>1. size \in Nat /\ PageSize \in Nat \ {0}
  BY PortsAssumption DEF PortsAssumption
<1> DEFINE enough == {i \in Of(ch) : entries[i].size >= size}
<1>2. mem' = mem /\ msgs' = msgs
  BY DEF receive
<1>3. CASE enough = {}
  <2>1. PICK list \in Seq(Entry) : list = entries
    BY DEF Types
  <2>2. ASSUME NEW j \in 1 .. Len(list), list[j].ch = ch
        PROVE  ~(size <= list[j].size)
    <3>1. PICK z \in Nat : z = list[j].size
      BY EntryTypes
    <3>2. ~(z >= size)
      BY <1>3, <2>1, <2>2, <3>1 DEF Of
    <3>3. QED
      BY <1>1, <3>1, <3>2
  <2>3. reply' = NoReply /\ entries' = entries /\ kvirt' = kvirt /\ kobjs' \in Nat
    BY <1>3 DEF receive, Types
  <2>4. QED
    BY <1>2, <2>1, <2>2, <2>3
<1>4. CASE enough # {}
  <2>1. PICK list \in Seq(Entry) : list = entries
    BY DEF Types
  <2>2. PICK i \in 1 .. Len(list) : /\ i = Min(enough)
                                    /\ list[i].ch = ch /\ size <= list[i].size
                                    /\ \A j \in 1 .. Len(list) :
                                         list[j].ch = ch /\ size <= list[j].size => i <= j
    <3>0. ASSUME NEW j \in 1 .. Len(list), list[j].ch = ch, size <= list[j].size
          PROVE  Min(enough) <= j
      <4>1. PICK z \in Nat : z = list[j].size
        BY EntryTypes
      <4>2. z >= size
        BY <1>1, <3>0, <4>1
      <4>3. j \in enough
        BY <2>1, <3>0, <4>1, <4>2 DEF Of
      <4>4. enough \in SUBSET Nat
        BY <2>1 DEF Of
      <4>5. QED
        BY <1>4, <4>3, <4>4, MinIsLeast
    <3>1. enough \in SUBSET Nat /\ enough \subseteq 1 .. Len(list)
      BY <2>1 DEF Of
    <3>2. Min(enough) \in enough
      BY <1>4, <3>1, MinIsLeast
    <3>3. Min(enough) \in 1 .. Len(list)
      BY <3>1, <3>2
    <3>4. list[Min(enough)].size >= size /\ list[Min(enough)].ch = ch
      BY <2>1, <3>2 DEF Of
    <3>5. list[Min(enough)].size \in Nat
      BY <3>3, EntryTypes
    <3>6. size <= list[Min(enough)].size
      BY <1>1, <3>4, <3>5
    <3>7. QED
      BY <3>0, <3>3, <3>4, <3>6
  <2>3. PICK e \in Entry : e = list[i]
    OBVIOUS
  <2> DEFINE off == e.off + size
  <2>4. /\ reply' = [ok |-> TRUE, bytes |-> Bytes(e.addr + e.off, size)]
        /\ entries' = [list EXCEPT ![i].size = @ - size, ![i].off = WrappedOff(off)]
        /\ \/ off < PageSize /\ UNCHANGED <<kvirt, kobjs>>
           \/ off >= PageSize /\ kobjs > 0 /\ kobjs' = kobjs - 1 /\ UNCHANGED kvirt
           \/ off >= PageSize /\ kobjs = 0 /\ kvirt' = Null /\ UNCHANGED kobjs
    BY <1>4, <2>1, <2>2, <2>3 DEF receive
  <2>5. e.size - size \in Nat /\ WrappedOff(off) \in Nat
    <3>1. e.off + size \in Nat /\ e.size \in Nat
      BY <1>1, EntryTypes
    <3>2. QED
      BY <1>1, <2>2, <2>3, <3>1 DEF WrappedOff
  <2>6. PICK q \in Entry : q = [e EXCEPT !.size = @ - size]
                          /\ q = With(e, e.off, e.size - size)
    <3>1. [e EXCEPT !.size = @ - size] = With(e, e.off, e.size - size)
      BY <2>5, EntryFields
    <3>2. With(e, e.off, e.size - size) \in Entry
      BY <2>5, WithIsEntry, EntryTypes
    <3>3. QED
      BY <3>1, <3>2
  <2>7. [q EXCEPT !.off = WrappedOff(off)] = With(e, WrappedOff(off), e.size - size)
    <3>1. [q EXCEPT !.off = WrappedOff(off)] = With(q, WrappedOff(off), q.size)
      BY <2>5, EntryFields
    <3>2. q.ch = e.ch /\ q.addr = e.addr /\ q.size = e.size - size
      BY <2>6 DEF With
    <3>3. QED
      BY <3>1, <3>2 DEF With
  <2>8. [list EXCEPT ![i].size = @ - size, ![i].off = WrappedOff(off)]
          = [list EXCEPT ![i] = [[list[i] EXCEPT !.size = @ - size]
                                   EXCEPT !.off = WrappedOff(off)]]
    OBVIOUS
  <2>9. entries' = [list EXCEPT ![i] = With(e, WrappedOff(off), e.size - size)]
    BY <2>3, <2>4, <2>6, <2>7, <2>8
  <2>10. kobjs' \in Nat
    BY <2>4 DEF Types
  <2>11. Takes(ch, size, i)
    BY <2>1, <2>2, <2>3, <2>4, <2>9 DEF Takes
  <2>12. QED
    BY <1>2, <2>1, <2>10, <2>11
<1>5. QED
  BY <1>3, <1>4

(* The types at first.                                                     *)
LEMMA TypesInit == Init => Types
<1> SUFFICES ASSUME Init
             PROVE  Types
  OBVIOUS
<1>1. entries = <<>> /\ <<>> \in Seq(Entry) /\ DOMAIN mem = {}
  BY DEF Init
<1>2. QED
  BY <1>1, PortsAssumption DEF Init, Types, PortsAssumption

(* Every step keeps the types.                                             *)
LEMMA TypesNext == Types /\ [Next]_vars => Types'
<1> SUFFICES ASSUME Types, [Next]_vars
             PROVE  Types'
  OBVIOUS
<1>0. PICK list \in Seq(Entry) : list = entries
  BY DEF Types
<1>1. CASE UNCHANGED vars
  BY <1>1 DEF Types, vars
<1>2. CASE Next
  <2>1. beyond' \in Nat
    BY <1>2 DEF Next, Types
  <2>2. ASSUME NEW ch \in Channels, NEW size \in Sizes, send(ch, size)
        PROVE  Types'
    <3>1. size \in Nat /\ msgs[ch] + 1 \in Nat
      BY PortsAssumption DEF PortsAssumption, Types
    <3>2. Message(ch, msgs[ch] + 1, size) \in Seq(Byte)
      BY <3>1, MessageBytes
    <3>3. msgs' \in [Channels -> Nat]
      BY <2>2, <3>1, SendStep DEF Types
    <3>4. CASE UNCHANGED <<entries, mem, kvirt, kobjs>>
      BY <2>1, <3>3, <3>4 DEF Types
    <3>5. CASE Begins(ch, size)
      <4>1. kvirt' \in Nat
        <5>1. kvirt \in Nat /\ Pages(size) * PageSize \in Nat
          BY <3>1, PagesNat DEF Types
        <5>2. kvirt + Pages(size) * PageSize \in Nat
          BY <5>1
        <5>3. kvirt' = IF kvirt = Null THEN Null ELSE kvirt + Pages(size) * PageSize
          BY <3>5 DEF Begins
        <5>4. QED
          BY <5>2, <5>3 DEF Null
      <4>2. \A x \in DOMAIN mem' : mem'[x] \in Byte
        BY <3>2, <3>5, WrittenTypes DEF Begins, Types
      <4>3. entries' \in Seq(Entry)
        <5>1. [ch |-> ch, off |-> 0, size |-> size, addr |-> kvirt] \in Entry
          BY <3>1 DEF Entry, Types
        <5>2. Append(list, [ch |-> ch, off |-> 0, size |-> size, addr |-> kvirt]) \in Seq(Entry)
          BY <5>1
        <5>3. QED
          BY <1>0, <3>5, <5>2 DEF Begins
      <4>4. kobjs' \in Nat
        BY <3>5 DEF Begins
      <4>5. QED
        BY <2>1, <3>3, <4>1, <4>2, <4>3, <4>4 DEF Types
    <3>6. CASE \E l \in 1 .. Len(entries) : Appends(ch, size, l)
      <4>1. PICK l \in 1 .. Len(list) : Appends(ch, size, l)
        BY <1>0, <3>6
      <4>2. PICK e \in Entry : e = list[l]
        OBVIOUS
      <4>3. e.size + size \in Nat /\ e.off \in Nat /\ e.addr + End(e) \in Nat
        <5>1. PICK ad \in Nat, of \in Nat, sz \in Nat :
                e.addr = ad /\ e.off = of /\ e.size = sz /\ End(e) = sz + of
          BY EntryNumbers
        <5>2. sz + size \in Nat /\ ad + (sz + of) \in Nat
          BY <3>1
        <5>3. QED
          BY <5>1, <5>2
      <4>4. With(e, e.off, e.size + size) \in Entry
        BY <4>3, WithIsEntry
      <4>5. entries' = [list EXCEPT ![l] = With(e, e.off, e.size + size)]
        BY <1>0, <4>1, <4>2 DEF Appends
      <4>6. entries' \in Seq(Entry)
        BY <4>4, <4>5, Replaced
      <4>7. mem' = Written(e.addr + End(e), Message(ch, msgs[ch] + 1, size))
        BY <1>0, <4>1, <4>2 DEF Appends
      <4>8. \A x \in DOMAIN mem' : mem'[x] \in Byte
        BY <3>2, <4>3, <4>7, WrittenTypes
      <4>9. QED
        BY <2>1, <3>3, <4>1, <4>6, <4>8 DEF Types, Appends
    <3>7. QED
      BY <2>2, <3>4, <3>5, <3>6, SendStep
  <2>3. ASSUME NEW ch \in Channels, NEW size \in Sizes, receive(ch, size)
        PROVE  Types'
    <3>1. mem' = mem /\ msgs' = msgs /\ kobjs' \in Nat
      BY <2>3, ReceiveStep
    <3>2. CASE reply' = NoReply /\ entries' = entries /\ kvirt' = kvirt
      BY <2>1, <3>1, <3>2 DEF Types
    <3>3. CASE \E i \in 1 .. Len(entries) : Takes(ch, size, i)
      <4>1. PICK i \in 1 .. Len(list) : Takes(ch, size, i)
        BY <1>0, <3>3
      <4>2. PICK e \in Entry : e = list[i]
        OBVIOUS
      <4>3. size \in Nat /\ PageSize \in Nat \ {0} /\ e.off \in Nat /\ e.size \in Nat
        BY EntryTypes, PortsAssumption DEF PortsAssumption
      <4>4. size <= e.size
        BY <1>0, <4>1, <4>2 DEF Takes
      <4>5. WrappedOff(e.off + size) \in Nat /\ e.size - size \in Nat
        BY <4>3, <4>4 DEF WrappedOff
      <4>6. With(e, WrappedOff(e.off + size), e.size - size) \in Entry
        BY <4>5, WithIsEntry
      <4>7. entries' = [list EXCEPT ![i] = With(e, WrappedOff(e.off + size), e.size - size)]
        BY <1>0, <4>1, <4>2 DEF Takes
      <4>8. entries' \in Seq(Entry)
        BY <4>6, <4>7, Replaced
      <4>9. kvirt' \in Nat
        BY <4>1 DEF Takes, Types, Null
      <4>10. QED
        BY <2>1, <3>1, <4>8, <4>9 DEF Types
    <3>4. QED
      BY <2>3, <3>2, <3>3, ReceiveStep
  <2>4. QED
    BY <1>2, <2>2, <2>3 DEF Next
<1>3. QED
  BY <1>1, <1>2

(* The variables keep their types. *)
THEOREM TypesHold == Spec => []Types
<1>1. QED
  BY TypesInit, TypesNext, PTL DEF Spec

(***************************************************************************)
(* The unread bytes, for any list of entries and any memory.               *)
(***************************************************************************)

BytesOf(m, a, n) ==
  [i \in 1 .. n |-> IF a + i - 1 \in DOMAIN m THEN m[a + i - 1] ELSE Blank]
Parts(list, m, ch) ==
  [i \in DOMAIN list |->
     IF list[i].ch = ch THEN BytesOf(m, list[i].addr + list[i].off, list[i].size)
     ELSE <<>>]

(* The unread bytes of a channel are the join of its parts, before and     *)
(* after a step.                                                           *)
LEMMA UnreadIsParts ==
  ASSUME NEW ch
  PROVE  /\ UnreadOf(ch) = FlattenSeq(Parts(entries, mem, ch))
         /\ UnreadOf(ch)' = FlattenSeq(Parts(entries', mem', ch))
BY DEF UnreadOf, Parts, BytesOf, Bytes

(* What is read from any memory that holds bytes is a sequence of them.    *)
LEMMA BytesOfTypes ==
  ASSUME NEW m, \A x \in DOMAIN m : m[x] \in Byte, NEW a \in Nat, NEW n \in Nat
  PROVE  BytesOf(m, a, n) \in Seq(Byte) /\ Len(BytesOf(m, a, n)) = n
<1>1. ASSUME NEW i \in 1 .. n
      PROVE  (IF a + i - 1 \in DOMAIN m THEN m[a + i - 1] ELSE Blank) \in Byte
  BY DEF Byte
<1>2. BytesOf(m, a, n) \in [1 .. n -> Byte]
  BY <1>1 DEF BytesOf
<1>3. QED
  BY <1>2

(* An unread byte of a channel is one of the unread bytes of an entry.     *)
LEMMA UnreadFrom ==
  ASSUME NEW list \in Seq(Entry), NEW ch, NEW m, \A x \in DOMAIN m : m[x] \in Byte
  PROVE  \E s \in Seq(Byte) :
           /\ s = FlattenSeq(Parts(list, m, ch))
           /\ \A j \in 1 .. Len(s) :
                \E i \in 1 .. Len(list) : \E k \in 1 .. list[i].size :
                  /\ list[i].ch = ch
                  /\ s[j] = BytesOf(m, list[i].addr + list[i].off, list[i].size)[k]
<1>1. ASSUME NEW i \in 1 .. Len(list)
      PROVE  /\ BytesOf(m, list[i].addr + list[i].off, list[i].size) \in Seq(Byte)
             /\ Len(BytesOf(m, list[i].addr + list[i].off, list[i].size)) = list[i].size
  <2>1. PICK e \in Entry : e = list[i]
    OBVIOUS
  <2>2. e.addr + e.off \in Nat /\ e.size \in Nat
    BY EntryTypes
  <2>3. QED
    BY <2>1, <2>2, BytesOfTypes
<1>2. Parts(list, m, ch) \in [1 .. Len(list) -> Seq(Byte)]
  BY <1>1 DEF Parts
<1>3. PICK ss \in Seq(Seq(Byte)) : ss = Parts(list, m, ch) /\ Len(ss) = Len(list)
  BY <1>2
<1>4. \A i \in 1 .. Len(list) :
        ss[i] = IF list[i].ch = ch
                THEN BytesOf(m, list[i].addr + list[i].off, list[i].size) ELSE <<>>
  BY <1>3 DEF Parts
<1>5. PICK s \in Seq(Byte) : s = FlattenSeq(ss)
  BY JoinedFrom
<1>6. ASSUME NEW j \in 1 .. Len(s)
      PROVE  \E i \in 1 .. Len(list) : \E k \in 1 .. list[i].size :
               /\ list[i].ch = ch
               /\ s[j] = BytesOf(m, list[i].addr + list[i].off, list[i].size)[k]
  <2>0. PICK i \in 1 .. Len(ss) : \E k \in 1 .. Len(ss[i]) : s[j] = ss[i][k]
    BY <1>5, JoinedFrom
  <2>1. PICK k \in 1 .. Len(ss[i]) : s[j] = ss[i][k]
    BY <2>0
  <2>2. i \in 1 .. Len(list)
    BY <1>3
  <2>3. list[i].ch = ch
    <3>1. Len(<<>>) = 0
      OBVIOUS
    <3>2. CASE list[i].ch # ch
      <4>1. ss[i] = <<>>
        BY <1>4, <2>2, <3>2
      <4>2. QED
        BY <3>1, <4>1
    <3>3. QED
      BY <3>2
  <2>4. ss[i] = BytesOf(m, list[i].addr + list[i].off, list[i].size)
    BY <1>4, <2>2, <2>3
  <2>5. k \in 1 .. list[i].size
    BY <1>1, <2>2, <2>4
  <2>6. QED
    BY <2>1, <2>2, <2>3, <2>4, <2>5
<1>7. QED
  BY <1>3, <1>5, <1>6

(***************************************************************************)
(* Buffers while data stays within pages: each entry has a page of its     *)
(* own below the front of the free pages, and every unread byte lies in    *)
(* memory as it was sent.                                                  *)
(***************************************************************************)

Unread(e) == e.addr + e.off .. e.addr + e.off + e.size - 1
Lies(list, x, c) == \E i \in 1 .. Len(list) : list[i].ch = c /\ x \in Unread(list[i])

InPages(list) == \A i \in 1 .. Len(list) : End(list[i]) \in 1 .. PageSize - 1
Paged(list, k) ==
  /\ k >= PageSize
  /\ \A i \in 1 .. Len(list) :
       PageSize <= list[i].addr /\ list[i].addr + PageSize <= k
  /\ \A i \in 1 .. Len(list) : \A j \in 1 .. Len(list) :
       i # j => \/ list[i].addr + PageSize <= list[j].addr
                \/ list[j].addr + PageSize <= list[i].addr

(* Every unread byte is a byte sent on its entry's channel, and no two     *)
(* unread bytes are the same one.                                          *)
Stored(list, m, ms) ==
  /\ \A c \in Channels : \A x \in Nat :
       Lies(list, x, c) => x \in DOMAIN m /\ m[x].ch = c /\ m[x].msg \in 0 .. ms[c]
  /\ \A c \in Channels : \A d \in Channels : \A x \in Nat : \A y \in Nat :
       Lies(list, x, c) /\ Lies(list, y, d) /\ m[x] = m[y] => x = y

(* A message lies in one entry.                                            *)
Whole(list, m) ==
  \A i \in 1 .. Len(list) : \A j \in 1 .. Len(list) :
    i # j /\ list[i].ch = list[j].ch =>
      \A x \in Unread(list[i]) : \A y \in Unread(list[j]) : m[x].msg # m[y].msg

Buffers ==
  beyond = 0 =>
    /\ InPages(entries) /\ Paged(entries, kvirt)
    /\ Stored(entries, mem, msgs) /\ Whole(entries, mem)

IInv == Types /\ Buffers

(* What send and receive leave: memory after message k of channel ch has   *)
(* been copied to address a, the list with entry i longer or shorter or    *)
(* with one more entry, the messages counted.                              *)
Copied(m, ch, k, n, a) ==
  [x \in (a .. a + n - 1) \cup DOMAIN m |->
     IF x \in a .. a + n - 1 THEN Message(ch, k, n)[x - a + 1] ELSE m[x]]
Longer(list, i, n) ==
  [list EXCEPT ![i] = With(list[i], list[i].off, list[i].size + n)]
Shorter(list, i, n) ==
  [list EXCEPT ![i] = With(list[i], WrappedOff(list[i].off + n), list[i].size - n)]
OneMore(list, ch, n, k) ==
  Append(list, [ch |-> ch, off |-> 0, size |-> n, addr |-> k])
Counted(ms, ch) == [ms EXCEPT ![ch] = @ + 1]

(* The n bytes from address a are none of a list's unread bytes; a list    *)
(* has them in addition, in entry l of channel ch.                         *)
Clear(list, a, n) ==
  \A i \in 1 .. Len(list) : \A x \in Unread(list[i]) : x \notin a .. a + n - 1
Grows(list, new, l, ch, a, n) ==
  \A i \in 1 .. Len(new) : \A x \in Unread(new[i]) :
    \/ /\ i \in 1 .. Len(list) /\ new[i].ch = list[i].ch /\ x \in Unread(list[i])
       /\ x \notin a .. a + n - 1
    \/ i = l /\ new[i].ch = ch /\ x \in a .. a + n - 1

(* Pages and sizes are numbers.                                            *)
LEMMA SizeIsNat == PageSize \in Nat /\ PageSize >= 2 /\ Sizes \subseteq Nat
BY PortsAssumption DEF PortsAssumption

(* The unread bytes of an entry lie on the page of its buffer.             *)
LEMMA OnPage ==
  ASSUME NEW list \in Seq(Entry), NEW k \in Nat, InPages(list), Paged(list, k),
         NEW i \in 1 .. Len(list), NEW x \in Unread(list[i])
  PROVE  /\ x \in Nat /\ x < k /\ x >= PageSize
         /\ list[i].addr <= x /\ x < list[i].addr + PageSize
<1>1. PICK e \in Entry : e = list[i]
  OBVIOUS
<1>2. PICK ad \in Nat, of \in Nat, sz \in Nat :
        e.addr = ad /\ e.off = of /\ e.size = sz /\ End(e) = sz + of
  BY EntryNumbers
<1>3. sz + of <= PageSize - 1 /\ PageSize <= ad /\ ad + PageSize <= k
  BY <1>1, <1>2 DEF InPages, Paged
<1>4. x \in ad + of .. ad + of + sz - 1
  BY <1>1, <1>2 DEF Unread
<1>5. x \in Nat /\ ad <= x /\ x < ad + PageSize
  BY <1>3, <1>4, SizeIsNat
<1>6. x < k /\ x >= PageSize
  BY <1>3, <1>5, SizeIsNat
<1>7. QED
  BY <1>1, <1>2, <1>5, <1>6

(* No address is among the unread bytes of two entries.                    *)
LEMMA OnePage ==
  ASSUME NEW list \in Seq(Entry), NEW k \in Nat, InPages(list), Paged(list, k),
         NEW i \in 1 .. Len(list), NEW j \in 1 .. Len(list),
         NEW x \in Unread(list[i]), x \in Unread(list[j])
  PROVE  i = j
<1>1. PICK a \in Nat : a = list[i].addr
  BY EntryTypes
<1>2. PICK b \in Nat : b = list[j].addr
  BY EntryTypes
<1>3. x \in Nat /\ a <= x /\ x < a + PageSize /\ b <= x /\ x < b + PageSize
  BY <1>1, <1>2, OnPage
<1>4. i # j => a + PageSize <= b \/ b + PageSize <= a
  BY <1>1, <1>2 DEF Paged
<1>5. QED
  BY <1>3, <1>4, SizeIsNat

(* Memory after a copy of a new message: what lies in the new list either  *)
(* lay in the old one, outside the range written, or is the message.       *)
LEMMA WriteKeeps ==
  ASSUME NEW list \in Seq(Entry), NEW new \in Seq(Entry), NEW m,
         NEW ms \in [Channels -> Nat], Stored(list, m, ms),
         NEW ch \in Channels, NEW a \in Nat, NEW n \in Nat,
         \A c \in Channels : \A x \in Nat : Lies(new, x, c) =>
           \/ (x \notin a .. a + n - 1 /\ Lies(list, x, c))
           \/ (x \in a .. a + n - 1 /\ c = ch)
  PROVE  Stored(new, Copied(m, ch, ms[ch] + 1, n, a), Counted(ms, ch))
<1> DEFINE m2  == Copied(m, ch, ms[ch] + 1, n, a)
           ms2 == Counted(ms, ch)
<1> DEFINE there == a .. a + n - 1
           K == ms[ch] + 1
<1>1. ms[ch] \in Nat /\ K \in Nat
  OBVIOUS
<1>2. ASSUME NEW x \in there
      PROVE  /\ x \in DOMAIN m2 /\ m2[x] = [ch |-> ch, msg |-> K, pos |-> x - a + 1]
             /\ x \in Nat
  <2>1. x - a + 1 \in 1 .. n
    OBVIOUS
  <2>2. Message(ch, K, n)[x - a + 1] = [ch |-> ch, msg |-> K, pos |-> x - a + 1]
    BY <1>1, <2>1, MessageBytes
  <2>3. QED
    BY <2>1, <2>2 DEF Copied
<1>3. ASSUME NEW x \in Nat, NEW c \in Channels, Lies(list, x, c), x \notin there
      PROVE  x \in DOMAIN m2 /\ m2[x] = m[x] /\ m2[x].ch = c /\ m2[x].msg \in 0 .. ms[c]
  <2>1. x \in DOMAIN m /\ m[x].ch = c /\ m[x].msg \in 0 .. ms[c]
    BY <1>3 DEF Stored
  <2>2. QED
    BY <1>3, <2>1 DEF Copied
<1>4. \A c \in Channels : /\ ms[c] \in Nat
                          /\ ms2[c] = IF c = ch THEN K ELSE ms[c]
  BY DEF Counted
<1>5. \A c \in Channels : \A x \in Nat :
        Lies(new, x, c) =>
          (x \in there /\ c = ch) \/ (x \notin there /\ Lies(list, x, c))
  OBVIOUS
<1> HIDE DEF there, K, m2, ms2
<1>6. ASSUME NEW c \in Channels, NEW x \in Nat, Lies(new, x, c)
      PROVE  x \in DOMAIN m2 /\ m2[x].ch = c /\ m2[x].msg \in 0 .. ms2[c]
  <2>1. CASE x \in there /\ c = ch
    <3>1. /\ [ch |-> ch, msg |-> K, pos |-> x - a + 1].msg = K
          /\ [ch |-> ch, msg |-> K, pos |-> x - a + 1].ch = ch
          /\ K \in 0 .. K
      BY <1>1
    <3>2. QED
      BY <1>2, <1>4, <2>1, <3>1
  <2>2. CASE x \notin there /\ Lies(list, x, c)
    <3>1. x \in DOMAIN m2 /\ m2[x].ch = c /\ m2[x].msg \in 0 .. ms[c]
      BY <1>3, <2>2
    <3>2. 0 .. ms[c] \subseteq 0 .. ms2[c]
      BY <1>1, <1>4 DEF K
    <3>3. QED
      BY <3>1, <3>2
  <2>3. QED
    BY <1>5, <1>6, <2>1, <2>2
<1>7. ASSUME NEW x \in there, NEW y \in Nat, NEW c \in Channels, Lies(list, y, c),
             y \notin there
      PROVE  m2[x] # m2[y]
  <2>1. m2[x] = [ch |-> ch, msg |-> K, pos |-> x - a + 1]
    BY <1>2
  <2>2. m2[y].ch = c /\ m2[y].msg \in 0 .. ms[c]
    BY <1>3, <1>7
  <2>3. m2[x].ch = ch /\ m2[x].msg = K
    BY <2>1
  <2>4. K \notin 0 .. ms[ch]
    BY <1>1 DEF K
  <2>5. QED
    BY <2>2, <2>3, <2>4
<1>8. ASSUME NEW x \in there, NEW y \in there, m2[x] = m2[y]
      PROVE  x = y
  <2>1. /\ m2[x] = [ch |-> ch, msg |-> K, pos |-> x - a + 1]
        /\ m2[y] = [ch |-> ch, msg |-> K, pos |-> y - a + 1]
    BY <1>2
  <2>2. m2[x].pos = x - a + 1 /\ m2[y].pos = y - a + 1
    BY <2>1
  <2>3. x \in Int /\ y \in Int
    BY DEF there
  <2>4. x - a + 1 = y - a + 1
    BY <1>8, <2>2
  <2>5. QED
    BY <2>3, <2>4
<1>9. ASSUME NEW c \in Channels, NEW d \in Channels, NEW x \in Nat, NEW y \in Nat,
             Lies(new, x, c), Lies(new, y, d), m2[x] = m2[y]
      PROVE  x = y
  <2>1. CASE x \in there /\ y \in there
    BY <1>8, <1>9, <2>1
  <2>2. CASE x \in there /\ y \notin there
    BY <1>5, <1>7, <1>9, <2>2
  <2>3. CASE x \notin there /\ y \in there
    BY <1>5, <1>7, <1>9, <2>3
  <2>4. CASE x \notin there /\ y \notin there
    <3>1. Lies(list, x, c) /\ Lies(list, y, d)
      BY <1>5, <1>9, <2>4
    <3>2. m[x] = m[y]
      BY <1>3, <1>9, <2>4, <3>1
    <3>3. QED
      BY <3>1, <3>2 DEF Stored
  <2>5. QED
    BY <2>1, <2>2, <2>3, <2>4
<1>10. Stored(new, m2, ms2)
  BY <1>6, <1>9 DEF Stored
<1>11. QED
  BY <1>10 DEF m2, ms2

(* Copying a message behind the end of an entry keeps what is stored, and  *)
(* each message whole.                                                     *)
LEMMA GrowsKeeps ==
  ASSUME NEW list \in Seq(Entry), NEW new \in Seq(Entry), NEW m,
         NEW ms \in [Channels -> Nat], Stored(list, m, ms), Whole(list, m),
         NEW ch \in Channels, NEW a \in Nat, NEW n \in Nat,
         NEW l, Grows(list, new, l, ch, a, n)
  PROVE  /\ Stored(new, Copied(m, ch, ms[ch] + 1, n, a), Counted(ms, ch))
         /\ Whole(new, Copied(m, ch, ms[ch] + 1, n, a))
<1> DEFINE m2 == Copied(m, ch, ms[ch] + 1, n, a)
           K == ms[ch] + 1
<1>1. ms[ch] \in Nat /\ K \in Nat /\ K \notin 0 .. ms[ch]
  <2>1. ms[ch] \in Nat
    OBVIOUS
  <2>2. QED
    BY <2>1
<1>2. \A c \in Channels : \A x \in Nat : Lies(new, x, c) =>
        \/ (x \notin a .. a + n - 1 /\ Lies(list, x, c))
        \/ (x \in a .. a + n - 1 /\ c = ch)
  BY DEF Grows, Lies
<1>3. Stored(new, m2, Counted(ms, ch))
  BY <1>2, WriteKeeps
<1>4. ASSUME NEW x \in a .. a + n - 1
      PROVE  m2[x].msg = K
  <2>1. x - a + 1 \in 1 .. n
    OBVIOUS
  <2>2. Message(ch, K, n)[x - a + 1] = [ch |-> ch, msg |-> K, pos |-> x - a + 1]
    BY <1>1, <2>1, MessageBytes
  <2>3. m2[x] = Message(ch, K, n)[x - a + 1]
    BY DEF Copied
  <2>4. QED
    BY <2>2, <2>3
<1>5. ASSUME NEW i \in 1 .. Len(list), NEW x \in Unread(list[i]), x \notin a .. a + n - 1
      PROVE  m2[x] = m[x] /\ m[x].msg \in 0 .. ms[list[i].ch]
  <2>1. PICK e \in Entry : e = list[i]
    OBVIOUS
  <2>2. x \in Nat
    <3>1. PICK ad \in Nat, of \in Nat, sz \in Nat :
            e.addr = ad /\ e.off = of /\ e.size = sz /\ End(e) = sz + of
      BY EntryNumbers
    <3>2. x \in ad + of .. ad + of + sz - 1
      BY <2>1, <3>1 DEF Unread
    <3>3. QED
      BY <3>2
  <2>3. e.ch \in Channels /\ Lies(list, x, e.ch)
    BY <2>1, EntryTypes DEF Lies
  <2>4. x \in DOMAIN m /\ m[x].msg \in 0 .. ms[e.ch]
    BY <2>2, <2>3 DEF Stored
  <2>5. QED
    BY <1>5, <2>1, <2>4 DEF Copied
<1> HIDE DEF m2, K
<1>6. ASSUME NEW i \in 1 .. Len(new), NEW j \in 1 .. Len(new), i # j, new[i].ch = new[j].ch,
             NEW x \in Unread(new[i]), NEW y \in Unread(new[j])
      PROVE  m2[x].msg # m2[y].msg
  <2> DEFINE Old(p, z) == /\ p \in 1 .. Len(list) /\ new[p].ch = list[p].ch
                          /\ z \in Unread(list[p]) /\ z \notin a .. a + n - 1
             Put(p, z) == p = l /\ new[p].ch = ch /\ z \in a .. a + n - 1
  <2>1. (Old(i, x) \/ Put(i, x)) /\ (Old(j, y) \/ Put(j, y))
    BY DEF Grows
  <2>2. CASE Old(i, x) /\ Old(j, y)
    <3>1. m[x].msg # m[y].msg
      BY <1>6, <2>2 DEF Whole
    <3>2. QED
      BY <1>5, <2>2, <3>1
  <2>3. CASE Old(i, x) /\ Put(j, y)
    <3>1. m2[x] = m[x] /\ m[x].msg \in 0 .. ms[ch]
      BY <1>5, <1>6, <2>3
    <3>2. QED
      BY <1>1, <1>4, <2>3, <3>1
  <2>4. CASE Put(i, x) /\ Old(j, y)
    <3>1. m2[y] = m[y] /\ m[y].msg \in 0 .. ms[ch]
      BY <1>5, <1>6, <2>4
    <3>2. QED
      BY <1>1, <1>4, <2>4, <3>1
  <2>5. QED
    BY <1>6, <2>1, <2>2, <2>3, <2>4
<1>7. Whole(new, m2)
  BY <1>6 DEF Whole
<1>8. QED
  BY <1>3, <1>7 DEF m2

(* Pages only depend on the addresses of the entries.                      *)
LEMMA SamePages ==
  ASSUME NEW list \in Seq(Entry), NEW new \in Seq(Entry), NEW k, Paged(list, k),
         Len(new) = Len(list), \A i \in 1 .. Len(list) : new[i].addr = list[i].addr
  PROVE  Paged(new, k)
BY DEF Paged

(* Unread bytes stay where they are when there are no more of them.        *)
LEMMA FewerKeeps ==
  ASSUME NEW list \in Seq(Entry), NEW new \in Seq(Entry), NEW m,
         NEW ms, Stored(list, m, ms),
         \A c \in Channels : \A x \in Nat : Lies(new, x, c) => Lies(list, x, c)
  PROVE  Stored(new, m, ms)
BY DEF Stored

(* Counting one more message, although it was not stored, changes nothing  *)
(* for the others.                                                         *)
LEMMA MoreMessagesKeep ==
  ASSUME NEW list \in Seq(Entry), NEW m, NEW ms \in [Channels -> Nat], Stored(list, m, ms),
         NEW ch \in Channels
  PROVE  Stored(list, m, Counted(ms, ch))
<1> DEFINE ms2 == Counted(ms, ch)
<1>1. \A c \in Channels : 0 .. ms[c] \subseteq 0 .. ms2[c]
  <2>1. ASSUME NEW c \in Channels
        PROVE  0 .. ms[c] \subseteq 0 .. ms2[c]
    <3>1. ms[c] \in Nat /\ (ms2[c] = ms[c] \/ ms2[c] = ms[c] + 1)
      BY DEF Counted
    <3>2. QED
      BY <3>1
  <2>2. QED
    BY <2>1
<1>2. QED
  BY <1>1 DEF Stored

(* Appending to the last entry of a channel writes where nothing unread    *)
(* is.                                                                     *)
LEMMA AppendsKeeps ==
  ASSUME NEW list \in Seq(Entry), NEW k \in Nat, InPages(list), Paged(list, k),
         NEW ch \in Channels, NEW n \in Nat, NEW l \in 1 .. Len(list), list[l].ch = ch,
         InPages(Longer(list, l, n))
  PROVE  /\ Paged(Longer(list, l, n), k)
         /\ Clear(list, list[l].addr + End(list[l]), n)
         /\ Grows(list, Longer(list, l, n), l, ch, list[l].addr + End(list[l]), n)
<1> DEFINE a   == list[l].addr + End(list[l])
           new == Longer(list, l, n)
<1> HIDE DEF a, new
<1>1. PICK e \in Entry : e = list[l]
  OBVIOUS
<1>2. PICK ad \in Nat, of \in Nat, sz \in Nat :
        e.addr = ad /\ e.off = of /\ e.size = sz /\ End(e) = sz + of
  BY EntryNumbers
<1>3. PICK q \in Entry : /\ q = With(e, of, sz + n)
                         /\ q.ch = e.ch /\ q.addr = ad
                         /\ q.off = of /\ q.size = sz + n
  <2>1. PICK z \in Nat : z = sz + n
    OBVIOUS
  <2>2. PICK w \in Entry : /\ w = With(e, of, z) /\ w.ch = e.ch /\ w.addr = e.addr
                          /\ w.off = of /\ w.size = z
    <3>1. With(e, of, z) \in Entry
      BY WithIsEntry
    <3>2. QED
      BY <3>1 DEF With
  <2>3. QED
    BY <1>2, <2>1, <2>2
<1>4. PICK s \in Seq(Entry) :
        /\ s = new /\ Len(s) = Len(list)
        /\ \A i \in 1 .. Len(list) : s[i] = IF i = l THEN q ELSE list[i]
  <2>1. new = [list EXCEPT ![l] = q]
    BY <1>1, <1>2, <1>3 DEF new, Longer
  <2>2. QED
    BY <2>1, Replaced
<1>5. a \in Nat /\ a = ad + (sz + of)
  BY <1>1, <1>2 DEF a
<1>6. a + n <= ad + PageSize - 1
  <2>1. End(s[l]) \in 1 .. PageSize - 1
    <3>1. InPages(s)
      BY <1>4 DEF new
    <3>2. QED
      BY <1>4, <3>1 DEF InPages
  <2>2. End(q) = (sz + n) + of
    BY <1>3 DEF End
  <2>3. (sz + n) + of <= PageSize - 1
    BY <1>4, <2>1, <2>2
  <2>4. QED
    BY <1>5, <2>3, SizeIsNat
<1>7. Paged(s, k)
  <2>1. \A i \in 1 .. Len(list) : s[i].addr = list[i].addr
    <3>1. s[l].addr = list[l].addr
      BY <1>1, <1>2, <1>3, <1>4
    <3>2. QED
      BY <1>4, <3>1
  <2>2. QED
    BY <1>4, <2>1, SamePages
<1>8. ASSUME NEW i \in 1 .. Len(list), i # l, NEW x \in Unread(list[i])
      PROVE  x \notin a .. a + n - 1
  <2>1. PICK b \in Nat : b = list[i].addr
    BY EntryTypes
  <2>2. b <= x /\ x < b + PageSize /\ x \in Nat
    BY <2>1, OnPage
  <2>3. ad + PageSize <= b \/ b + PageSize <= ad
    BY <1>1, <1>2, <1>8, <2>1 DEF Paged
  <2>4. QED
    BY <1>5, <1>6, <2>2, <2>3, SizeIsNat
<1>9. Clear(list, a, n)
  <2>1. ASSUME NEW x \in Unread(list[l])
        PROVE  x \notin a .. a + n - 1
    <3>1. x \in ad + of .. ad + of + sz - 1
      BY <1>1, <1>2 DEF Unread
    <3>2. QED
      BY <1>5, <3>1
  <2>2. QED
    BY <1>8, <2>1 DEF Clear
<1>10. ASSUME NEW i \in 1 .. Len(s), NEW x \in Unread(s[i])
       PROVE  \/ /\ i \in 1 .. Len(list) /\ s[i].ch = list[i].ch /\ x \in Unread(list[i])
                 /\ x \notin a .. a + n - 1
              \/ i = l /\ s[i].ch = ch /\ x \in a .. a + n - 1
  <2>1. CASE i = l
    <3>1. s[i].ch = ch /\ list[i].ch = ch /\ i \in 1 .. Len(list)
      BY <1>1, <1>3, <1>4, <2>1
    <3>2. x \in ad + of .. ad + of + (sz + n) - 1
      BY <1>3, <1>4, <2>1 DEF Unread
    <3>3. x \notin a .. a + n - 1 => x \in ad + of .. ad + of + sz - 1
      BY <1>5, <3>2
    <3>4. x \notin a .. a + n - 1 => x \in Unread(list[i])
      BY <1>1, <1>2, <2>1, <3>3 DEF Unread
    <3>5. QED
      BY <2>1, <3>1, <3>4
  <2>2. CASE i # l
    <3>1. i \in 1 .. Len(list) /\ s[i] = list[i]
      BY <1>4, <2>2
    <3>2. QED
      BY <1>8, <2>2, <3>1
  <2>3. QED
    BY <2>1, <2>2
<1>11. Grows(list, s, l, ch, a, n)
  BY <1>10 DEF Grows
<1>12. QED
  BY <1>4, <1>7, <1>9, <1>11 DEF a, new

(* So does a new entry, on pages of its own.                               *)
LEMMA BeginsKeeps ==
  ASSUME NEW list \in Seq(Entry), NEW k \in Nat, InPages(list), Paged(list, k),
         NEW ch \in Channels, NEW n \in Nat,
         NEW new, new = list \/ new = OneMore(list, ch, n, k), InPages(new)
  PROVE  /\ Paged(new, k + Pages(n) * PageSize)
         /\ Clear(list, k, n)
         /\ Grows(list, new, Len(list) + 1, ch, k, n)
<1> DEFINE k2 == k + Pages(n) * PageSize
<1> HIDE DEF k2
<1>1. PageSize <= k /\ k2 \in Nat /\ k <= k2
  <2>1. PICK p \in Nat : p = Pages(n) * PageSize
    BY PagesNat
  <2>2. k2 = k + p
    BY <2>1 DEF k2
  <2>3. QED
    BY <2>2 DEF Paged
<1>2. Clear(list, k, n)
  <2>1. ASSUME NEW i \in 1 .. Len(list), NEW x \in Unread(list[i])
        PROVE  x \notin k .. k + n - 1
    <3>1. x \in Nat /\ x < k
      BY OnPage
    <3>2. QED
      BY <3>1
  <2>2. QED
    BY <2>1 DEF Clear
<1>3. CASE new = list
  <2>1. Paged(list, k2)
    <3>1. ASSUME NEW i \in 1 .. Len(list)
          PROVE  list[i].addr + PageSize <= k2
      <4>1. PICK b \in Nat : b = list[i].addr
        BY EntryTypes
      <4>2. b + PageSize <= k
        BY <4>1 DEF Paged
      <4>3. b + PageSize <= k2
        BY <1>1, <4>2, SizeIsNat
      <4>4. QED
        BY <4>1, <4>3
    <3>2. k2 >= PageSize
      BY <1>1, SizeIsNat
    <3>3. QED
      BY <3>1, <3>2 DEF Paged
  <2>2. Grows(list, list, Len(list) + 1, ch, k, n)
    BY <1>2 DEF Grows, Clear
  <2>3. QED
    BY <1>2, <1>3, <2>1, <2>2 DEF k2
<1>4. CASE new = OneMore(list, ch, n, k)
  <2>1. PICK q \in Entry : /\ q = [ch |-> ch, off |-> 0, size |-> n, addr |-> k]
                           /\ q.ch = ch /\ q.off = 0 /\ q.size = n /\ q.addr = k
    <3>1. [ch |-> ch, off |-> 0, size |-> n, addr |-> k] \in Entry
      BY DEF Entry
    <3>2. QED
      BY <3>1
  <2> DEFINE N == Len(list)
  <2>2. PICK s \in Seq(Entry) : s = new /\ s = Append(list, q)
    <3>1. Append(list, q) \in Seq(Entry)
      OBVIOUS
    <3>2. QED
      BY <1>4, <2>1, <3>1 DEF OneMore
  <2>3. /\ N \in Nat /\ Len(s) = N + 1 /\ s[N + 1] = q
        /\ \A i \in 1 .. N : s[i] = list[i]
    BY <2>2
  <2> HIDE DEF N
  <2>4. \A i \in 1 .. Len(s) : i \in 1 .. N \/ i = N + 1
    BY <2>3
  <2>5. k + PageSize <= k2
    <3>1. n \in 1 .. PageSize - 1
      <4>1. N + 1 \in 1 .. Len(s)
        BY <2>3
      <4>2. End(s[N + 1]) \in 1 .. PageSize - 1
        BY <2>2, <4>1 DEF InPages
      <4>3. End(q) = n
        <5>1. End(q) = q.size + q.off
          BY DEF End
        <5>2. QED
          BY <2>1, <5>1
      <4>4. QED
        BY <2>3, <4>2, <4>3
    <3>2. n \div PageSize = 0 /\ n % PageSize # 0
      BY <3>1, SizeIsNat
    <3>3. Pages(n) = 1
      BY <3>2 DEF Pages
    <3>4. QED
      BY <3>3, SizeIsNat DEF k2
  <2>6. ASSUME NEW i \in 1 .. N
        PROVE  PageSize <= list[i].addr /\ list[i].addr + PageSize <= k
    BY DEF Paged, N
  <2>7. ASSUME NEW i \in 1 .. Len(s)
        PROVE  PageSize <= s[i].addr /\ s[i].addr + PageSize <= k2
    <3>1. PICK b \in Nat : b = s[i].addr
      <4>1. PICK e \in Entry : e = s[i]
        OBVIOUS
      <4>2. QED
        BY <4>1, EntryTypes
    <3>2. CASE i \in 1 .. N
      <4>1. PageSize <= b /\ b + PageSize <= k
        BY <2>3, <2>6, <3>1, <3>2
      <4>2. PageSize <= b /\ b + PageSize <= k2
        BY <1>1, <4>1, SizeIsNat
      <4>3. QED
        BY <3>1, <4>2
    <3>3. CASE i = N + 1
      BY <1>1, <2>1, <2>3, <2>5, <3>3
    <3>4. QED
      BY <2>4, <3>2, <3>3
  <2>8. ASSUME NEW i \in 1 .. Len(s), NEW j \in 1 .. Len(s), i # j
        PROVE  s[i].addr + PageSize <= s[j].addr \/ s[j].addr + PageSize <= s[i].addr
    <3>1. CASE i \in 1 .. N /\ j \in 1 .. N
      BY <2>3, <2>8, <3>1 DEF Paged, N
    <3>2. CASE i \in 1 .. N /\ j = N + 1
      BY <2>1, <2>3, <2>6, <3>2
    <3>3. CASE i = N + 1 /\ j \in 1 .. N
      BY <2>1, <2>3, <2>6, <3>3
    <3>4. QED
      BY <2>4, <2>8, <3>1, <3>2, <3>3
  <2>9. Paged(s, k2)
    <3>1. k2 >= PageSize
      BY <1>1, SizeIsNat
    <3>2. QED
      BY <2>7, <2>8, <3>1 DEF Paged
  <2>10. ASSUME NEW i \in 1 .. Len(s), NEW x \in Unread(s[i])
         PROVE  \/ /\ i \in 1 .. N /\ s[i].ch = list[i].ch /\ x \in Unread(list[i])
                   /\ x \notin k .. k + n - 1
                \/ i = N + 1 /\ s[i].ch = ch /\ x \in k .. k + n - 1
    <3>1. CASE i \in 1 .. N
      <4>1. s[i] = list[i]
        BY <2>3, <3>1
      <4>2. x \notin k .. k + n - 1
        BY <1>2, <3>1, <4>1 DEF Clear, N
      <4>3. QED
        BY <3>1, <4>1, <4>2
    <3>2. CASE i = N + 1
      <4>1. x \in q.addr + q.off .. q.addr + q.off + q.size - 1
        BY <2>3, <3>2 DEF Unread
      <4>2. k + 0 = k
        OBVIOUS
      <4>3. QED
        BY <2>1, <2>3, <3>2, <4>1, <4>2
    <3>3. QED
      BY <2>4, <3>1, <3>2
  <2>11. Grows(list, s, N + 1, ch, k, n)
    BY <2>10 DEF Grows, N
  <2>12. QED
    BY <1>2, <2>2, <2>9, <2>11 DEF k2, N
<1>5. QED
  BY <1>3, <1>4

(* Receiving takes bytes away from one entry and moves none.               *)
LEMMA TakesKeeps ==
  ASSUME NEW list \in Seq(Entry), NEW k \in Nat, NEW m, NEW ms,
         InPages(list), Paged(list, k), Stored(list, m, ms), Whole(list, m),
         NEW n \in Nat, NEW i \in 1 .. Len(list), n <= list[i].size
  PROVE  /\ list[i].off + n < PageSize
         /\ Shorter(list, i, n) \in Seq(Entry)
         /\ Paged(Shorter(list, i, n), k) /\ Stored(Shorter(list, i, n), m, ms)
         /\ Whole(Shorter(list, i, n), m)
         /\ \A c \in Channels : \A x \in Nat :
              Lies(Shorter(list, i, n), x, c) =>
                /\ Lies(list, x, c)
                /\ x \notin list[i].addr + list[i].off .. list[i].addr + list[i].off + n - 1
<1> DEFINE new == Shorter(list, i, n)
<1> HIDE DEF new
<1>1. PICK e \in Entry : e = list[i]
  OBVIOUS
<1>2. PICK ad \in Nat, of \in Nat, sz \in Nat :
        e.addr = ad /\ e.off = of /\ e.size = sz /\ End(e) = sz + of
  BY EntryNumbers
<1>3. of + n < PageSize /\ n <= sz
  <2>1. sz + of \in 1 .. PageSize - 1 /\ n <= sz
    BY <1>1, <1>2 DEF InPages
  <2>2. QED
    BY <2>1, SizeIsNat
<1>4. WrappedOff(of + n) = of + n
  BY <1>3, SizeIsNat DEF WrappedOff
<1>5. PICK q \in Entry : /\ q = With(e, of + n, sz - n)
                         /\ q.ch = e.ch /\ q.addr = ad
                         /\ q.off = of + n /\ q.size = sz - n
  <2>1. PICK y \in Nat, z \in Nat : y = of + n /\ z = sz - n
    BY <1>3
  <2>2. PICK w \in Entry : /\ w = With(e, y, z) /\ w.ch = e.ch /\ w.addr = e.addr
                          /\ w.off = y /\ w.size = z
    <3>1. With(e, y, z) \in Entry
      BY WithIsEntry
    <3>2. QED
      BY <3>1 DEF With
  <2>3. QED
    BY <1>2, <2>1, <2>2
<1>6. PICK s \in Seq(Entry) :
        /\ s = new /\ Len(s) = Len(list)
        /\ \A j \in 1 .. Len(list) : s[j] = IF j = i THEN q ELSE list[j]
  <2>1. new = [list EXCEPT ![i] = q]
    BY <1>1, <1>2, <1>4, <1>5 DEF new, Shorter
  <2>2. QED
    BY <2>1, Replaced
<1>7. Paged(s, k)
  <2>1. \A j \in 1 .. Len(list) : s[j].addr = list[j].addr
    <3>1. s[i].addr = list[i].addr
      BY <1>1, <1>2, <1>5, <1>6
    <3>2. QED
      BY <1>6, <3>1
  <2>2. QED
    BY <1>6, <2>1, SamePages
<1>8. ASSUME NEW j \in 1 .. Len(list), NEW x \in Unread(s[j])
      PROVE  /\ s[j].ch = list[j].ch /\ x \in Unread(list[j])
             /\ x \notin ad + of .. ad + of + n - 1
  <2>1. CASE j = i
    <3>1. x \in ad + (of + n) .. ad + (of + n) + (sz - n) - 1
      BY <1>5, <1>6, <2>1 DEF Unread
    <3>2. /\ x \in ad + of .. ad + of + sz - 1
          /\ x \notin ad + of .. ad + of + n - 1
      BY <1>3, <3>1
    <3>3. x \in Unread(list[i]) /\ s[i].ch = list[i].ch
      BY <1>1, <1>2, <1>5, <1>6, <3>2 DEF Unread
    <3>4. QED
      BY <2>1, <3>2, <3>3
  <2>2. CASE j # i
    <3>1. s[j] = list[j]
      BY <1>6, <2>2
    <3>2. CASE x \in ad + of .. ad + of + n - 1
      <4>1. x \in ad + of .. ad + of + sz - 1
        BY <1>3, <3>2
      <4>2. x \in Unread(list[i])
        BY <1>1, <1>2, <4>1 DEF Unread
      <4>3. QED
        BY <2>2, <3>1, <4>2, OnePage
    <3>3. QED
      BY <3>1, <3>2
  <2>3. QED
    BY <2>1, <2>2
<1>9. Stored(s, m, ms)
  <2>1. \A c \in Channels : \A x \in Nat : Lies(s, x, c) => Lies(list, x, c)
    BY <1>6, <1>8 DEF Lies
  <2>2. QED
    BY <2>1, FewerKeeps
<1>11. Whole(s, m)
  <2>1. ASSUME NEW i2 \in 1 .. Len(list), NEW j2 \in 1 .. Len(list), i2 # j2,
               s[i2].ch = s[j2].ch, NEW x \in Unread(s[i2]), NEW y \in Unread(s[j2])
        PROVE  m[x].msg # m[y].msg
    <3>1. s[i2].ch = list[i2].ch /\ x \in Unread(list[i2])
      BY <1>8
    <3>2. s[j2].ch = list[j2].ch /\ y \in Unread(list[j2])
      BY <1>8
    <3>3. QED
      BY <2>1, <3>1, <3>2 DEF Whole
  <2>2. QED
    BY <1>6, <2>1 DEF Whole
<1>12. \A c \in Channels : \A x \in Nat :
         Lies(s, x, c) => Lies(list, x, c) /\ x \notin ad + of .. ad + of + n - 1
  BY <1>6, <1>8 DEF Lies
<1>13. QED
  BY <1>1, <1>2, <1>3, <1>6, <1>7, <1>9, <1>11, <1>12 DEF new

(* A message written anywhere but at NULL is copied byte by byte.          *)
LEMMA WrittenIsCopied ==
  ASSUME NEW a \in Nat, a # Null, NEW ch \in Channels, NEW k \in Nat, NEW n \in Nat
  PROVE  Written(a, Message(ch, k, n)) = Copied(mem, ch, k, n, a)
<1>1. Len(Message(ch, k, n)) = n
  BY MessageBytes
<1>2. QED
  BY <1>1 DEF Written, Copied

(* The invariant about buffers at first: there are none.                   *)
LEMMA BuffersInit == Init => Buffers
<1> SUFFICES ASSUME Init
             PROVE  /\ InPages(entries) /\ Paged(entries, kvirt)
                    /\ Stored(entries, mem, msgs) /\ Whole(entries, mem)
  BY DEF Buffers
<1>1. entries = <<>> /\ Len(entries) = 0 /\ kvirt = PageSize
  BY DEF Init
<1>2. InPages(entries) /\ Paged(entries, kvirt)
  BY <1>1, SizeIsNat DEF InPages, Paged
<1>3. \A c, x : ~Lies(entries, x, c)
  BY <1>1 DEF Lies
<1>4. Whole(entries, mem)
  BY <1>1 DEF Whole
<1>5. QED
  BY <1>2, <1>3, <1>4 DEF Stored

(* Every step that stays within pages keeps it.                            *)
LEMMA BuffersNext == Types /\ Buffers /\ [Next]_vars => Buffers'
<1> SUFFICES ASSUME Types, Buffers, [Next]_vars, beyond' = 0
             PROVE  (/\ InPages(entries) /\ Paged(entries, kvirt)
                     /\ Stored(entries, mem, msgs) /\ Whole(entries, mem))'
  BY DEF Buffers
<1>1. CASE UNCHANGED vars
  BY <1>1 DEF Buffers, vars
<1>2. CASE Next
  <2>1. beyond = 0 /\ WithinPage'
    BY <1>2 DEF Next, Types
  <2>2. PICK list \in Seq(Entry) : list = entries
    BY DEF Types
  <2>3. PICK new \in Seq(Entry) : new = entries'
    <3>1. Types'
      BY TypesNext
    <3>2. QED
      BY <3>1 DEF Types
  <2>4. PICK k \in Nat : k = kvirt
    BY DEF Types
  <2>5. PICK m : m = mem
    OBVIOUS
  <2>6. PICK ms \in [Channels -> Nat] : ms = msgs
    BY DEF Types
  <2>7. InPages(list) /\ Paged(list, k) /\ Stored(list, m, ms) /\ Whole(list, m) /\ k # Null
    <3>1. InPages(list) /\ Paged(list, k) /\ Stored(list, m, ms) /\ Whole(list, m)
      BY <2>1, <2>2, <2>4, <2>5, <2>6 DEF Buffers
    <3>2. QED
      BY <3>1, SizeIsNat DEF Paged, Null
  <2>8. InPages(new)
    BY <2>1, <2>3 DEF InPages, WithinPage, End
  <2>9. ASSUME NEW ch \in Channels, NEW size \in Sizes, send(ch, size)
        PROVE  Paged(new, kvirt') /\ Stored(new, mem', msgs') /\ Whole(new, mem')
    <3>1. size \in Nat /\ ms[ch] + 1 \in Nat
      BY SizeIsNat
    <3>2. msgs' = Counted(ms, ch)
      BY <2>6, <2>9, SendStep DEF Counted
    <3>3. CASE UNCHANGED <<entries, mem, kvirt, kobjs>>
      <4>1. Stored(list, m, Counted(ms, ch))
        BY <2>7, MoreMessagesKeep
      <4>2. QED
        BY <2>2, <2>3, <2>4, <2>5, <2>7, <3>2, <3>3, <4>1
    <3>4. CASE Begins(ch, size)
      <4>1. kvirt' = k + Pages(size) * PageSize
        BY <2>4, <2>7, <3>4 DEF Begins
      <4>2. mem' = Written(k, Message(ch, ms[ch] + 1, size))
        BY <2>4, <2>6, <3>4 DEF Begins
      <4>3. mem' = Copied(m, ch, ms[ch] + 1, size, k)
        BY <2>5, <2>7, <3>1, <4>2, WrittenIsCopied
      <4>4. new = list \/ new = OneMore(list, ch, size, k)
        BY <2>2, <2>3, <2>4, <3>4 DEF Begins, OneMore
      <4>5. /\ Paged(new, k + Pages(size) * PageSize)
            /\ Grows(list, new, Len(list) + 1, ch, k, size)
        BY <2>7, <2>8, <3>1, <4>4, BeginsKeeps
      <4>7. /\ Stored(new, Copied(m, ch, ms[ch] + 1, size, k), Counted(ms, ch))
            /\ Whole(new, Copied(m, ch, ms[ch] + 1, size, k))
        BY <2>7, <3>1, <4>5, GrowsKeeps
      <4>6. QED
        BY <3>2, <4>1, <4>3, <4>5, <4>7
    <3>5. CASE \E l \in 1 .. Len(entries) : Appends(ch, size, l)
      <4>1. PICK l \in 1 .. Len(list) : Appends(ch, size, l)
        BY <2>2, <3>5
      <4>2. PICK a \in Nat : a = list[l].addr + End(list[l])
        BY EntryNumbers
      <4>3. list[l].ch = ch /\ kvirt' = k
        BY <2>2, <2>4, <4>1 DEF Appends
      <4>4. new = Longer(list, l, size)
        BY <2>2, <2>3, <4>1 DEF Appends, Longer
      <4>5. mem' = Written(a, Message(ch, ms[ch] + 1, size))
        BY <2>2, <2>6, <4>1, <4>2 DEF Appends
      <4>6. a # Null
        <5>1. PICK b \in Nat : b = list[l].addr
          <6>1. PICK e \in Entry : e = list[l]
            OBVIOUS
          <6>2. QED
            BY <6>1, EntryTypes
        <5>2. PICK n \in Nat : n = End(list[l])
          <6>1. PICK e \in Entry : e = list[l]
            OBVIOUS
          <6>2. QED
            BY <6>1, EntryTypes
        <5>3. PageSize <= b
          BY <2>7, <5>1 DEF Paged
        <5>4. QED
          BY <4>2, <5>1, <5>2, <5>3, SizeIsNat DEF Null
      <4>7. mem' = Copied(m, ch, ms[ch] + 1, size, a)
        BY <2>5, <3>1, <4>5, <4>6, WrittenIsCopied
      <4>8. /\ Paged(Longer(list, l, size), k)
            /\ Grows(list, Longer(list, l, size), l, ch, list[l].addr + End(list[l]), size)
        BY <2>7, <2>8, <3>1, <4>3, <4>4, AppendsKeeps
      <4>9. /\ Stored(new, Copied(m, ch, ms[ch] + 1, size, a), Counted(ms, ch))
            /\ Whole(new, Copied(m, ch, ms[ch] + 1, size, a))
        BY <2>7, <3>1, <4>2, <4>4, <4>8, GrowsKeeps
      <4>10. QED
        BY <3>2, <4>3, <4>4, <4>7, <4>8, <4>9
    <3>6. QED
      BY <2>9, <3>3, <3>4, <3>5, SendStep
  <2>10. ASSUME NEW ch \in Channels, NEW size \in Sizes, receive(ch, size)
         PROVE  Paged(new, kvirt') /\ Stored(new, mem', msgs') /\ Whole(new, mem')
    <3>1. mem' = m /\ msgs' = ms
      BY <2>5, <2>6, <2>10, ReceiveStep
    <3>2. CASE reply' = NoReply /\ entries' = entries /\ kvirt' = kvirt
      BY <2>2, <2>3, <2>4, <2>7, <3>1, <3>2
    <3>3. CASE \E i \in 1 .. Len(entries) : Takes(ch, size, i)
      <4>1. PICK i \in 1 .. Len(list) : Takes(ch, size, i)
        BY <2>2, <3>3
      <4>2. PICK ad \in Nat, of \in Nat, sz \in Nat :
              list[i].addr = ad /\ list[i].off = of /\ list[i].size = sz
        <5>1. PICK e \in Entry : e = list[i]
          OBVIOUS
        <5>2. QED
          BY <5>1, EntryNumbers
      <4>3. new = Shorter(list, i, size) /\ size <= list[i].size /\ size \in Nat
        BY <2>2, <2>3, <4>1, SizeIsNat DEF Takes, Shorter
      <4>4. /\ list[i].off + size < PageSize
            /\ Paged(Shorter(list, i, size), k) /\ Stored(Shorter(list, i, size), m, ms)
            /\ Whole(Shorter(list, i, size), m)
        BY <2>7, <4>3, TakesKeeps
      <4>5. kvirt' = k
        <5>1. kvirt' = k \/ list[i].off + size >= PageSize
          BY <2>2, <2>4, <4>1 DEF Takes
        <5>2. of + size < PageSize /\ (kvirt' = k \/ of + size >= PageSize)
          BY <4>2, <4>4, <5>1
        <5>3. QED
          BY <4>3, <5>2, SizeIsNat
      <4>6. QED
        BY <3>1, <4>3, <4>4, <4>5
    <3>4. QED
      BY <2>10, <3>2, <3>3, ReceiveStep
  <2>11. Paged(new, kvirt') /\ Stored(new, mem', msgs') /\ Whole(new, mem')
    BY <1>2, <2>9, <2>10 DEF Next
  <2>12. QED
    BY <2>3, <2>8, <2>11
<1>3. QED
  BY <1>1, <1>2

(* While data stays within pages, entries have pages of their own, and     *)
(* memory holds the unread bytes as they were sent.                        *)
THEOREM Invariant == Spec => []IInv
<1>1. Init => IInv
  BY TypesInit, BuffersInit DEF IInv
<1>2. IInv /\ [Next]_vars => IInv'
  BY TypesNext, BuffersNext DEF IInv
<1>3. QED
  BY <1>1, <1>2, PTL DEF Spec

(* What one receive returns: bytes of its channel, each once, and none of  *)
(* them still unread.                                                      *)
LEMMA IsolatedStep ==
  ASSUME IInv, Next, NEW ch \in Channels, NEW size \in Sizes, receive(ch, size),
         reply'.ok, beyond' = 0
  PROVE  /\ \A i \in 1 .. size : reply'.bytes[i].ch = ch
         /\ \A i \in 1 .. size : \A j \in 1 .. size :
              i # j => reply'.bytes[i] # reply'.bytes[j]
         /\ \A i \in 1 .. size :
              \A other \in Channels : \A j \in DOMAIN UnreadOf(other)' :
                reply'.bytes[i] # UnreadOf(other)'[j]
<1>1. beyond = 0 /\ Types
  BY DEF IInv, Types, Next
<1>2. PICK list \in Seq(Entry) : list = entries
  BY <1>1 DEF Types
<1>3. PICK new \in Seq(Entry) : new = entries'
  <2>1. Types'
    BY <1>1, TypesNext
  <2>2. QED
    BY <2>1 DEF Types
<1>4. PICK k \in Nat : k = kvirt
  BY <1>1 DEF Types
<1>5. PICK m : m = mem /\ m = mem' /\ \A x \in DOMAIN m : m[x] \in Byte
  BY <1>1, ReceiveStep DEF Types
<1>6. PICK ms \in [Channels -> Nat] : ms = msgs
  BY <1>1 DEF Types
<1>7. InPages(list) /\ Paged(list, k) /\ Stored(list, m, ms) /\ Whole(list, m)
  BY <1>1, <1>2, <1>4, <1>5, <1>6 DEF IInv, Buffers
<1>8. PICK i \in 1 .. Len(list) : Takes(ch, size, i)
  <2>1. reply' # NoReply
    <3>1. ~NoReply.ok
      BY DEF NoReply
    <3>2. QED
      BY <3>1
  <2>2. \E i \in 1 .. Len(entries) : Takes(ch, size, i)
    BY <1>1, <2>1, ReceiveStep
  <2>3. QED
    BY <1>2, <2>2
<1>9. PICK ad \in Nat, of \in Nat, sz \in Nat :
        list[i].addr = ad /\ list[i].off = of /\ list[i].size = sz
  <2>1. PICK e \in Entry : e = list[i]
    OBVIOUS
  <2>2. PICK a \in Nat, o \in Nat, s2 \in Nat :
          e.addr = a /\ e.off = o /\ e.size = s2 /\ End(e) = s2 + o
    BY EntryNumbers
  <2>3. QED
    BY <2>1, <2>2
<1>10. PICK n \in Nat : n = size
  BY SizeIsNat
<1>11. new = Shorter(list, i, n) /\ n <= sz /\ list[i].ch = ch
  BY <1>2, <1>3, <1>8, <1>9, <1>10 DEF Takes, Shorter
<1>12. \A c \in Channels : \A x \in Nat :
         Lies(new, x, c) => Lies(list, x, c) /\ x \notin ad + of .. ad + of + n - 1
  <2>1. n <= list[i].size
    BY <1>9, <1>11
  <2>2. \A c \in Channels : \A x \in Nat :
          Lies(Shorter(list, i, n), x, c) =>
            /\ Lies(list, x, c)
            /\ x \notin list[i].addr + list[i].off .. list[i].addr + list[i].off + n - 1
    BY <1>7, <2>1, TakesKeeps
  <2>3. QED
    BY <1>9, <1>11, <2>2
<1>13. ASSUME NEW j \in 1 .. n
       PROVE  /\ ad + of + j - 1 \in Nat
              /\ ad + of + j - 1 \in ad + of .. ad + of + n - 1
              /\ Lies(list, ad + of + j - 1, ch)
              /\ ad + of + j - 1 \in DOMAIN m
              /\ m[ad + of + j - 1].ch = ch
              /\ reply'.bytes[j] = m[ad + of + j - 1]
  <2>1. PICK x \in Nat : x = ad + of + j - 1 /\ x \in ad + of .. ad + of + n - 1
    OBVIOUS
  <2>2. x \in ad + of .. ad + of + sz - 1
    BY <1>11, <2>1
  <2>3. Lies(list, x, ch)
    BY <1>9, <1>11, <2>2 DEF Lies, Unread
  <2>4. x \in DOMAIN m /\ m[x].ch = ch
    BY <1>7, <2>3 DEF Stored
  <2>5. reply' = [ok |-> TRUE, bytes |-> Bytes(ad + of, n)]
    BY <1>2, <1>8, <1>9, <1>10 DEF Takes
  <2>6. reply'.bytes = Bytes(ad + of, n)
    BY <2>5
  <2>7. Bytes(ad + of, n)[j] = IF ad + of + j - 1 \in DOMAIN m
                               THEN m[ad + of + j - 1] ELSE Blank
    BY <1>5 DEF Bytes
  <2>8. QED
    BY <2>1, <2>3, <2>4, <2>6, <2>7
<1>14. ASSUME NEW j \in 1 .. n, NEW y \in Nat, NEW c \in Channels, Lies(list, y, c),
              reply'.bytes[j] = m[y]
       PROVE  y = ad + of + j - 1
  <2>1. PICK x \in Nat : x = ad + of + j - 1 /\ Lies(list, x, ch) /\ reply'.bytes[j] = m[x]
    BY <1>13
  <2>2. m[x] = m[y]
    BY <1>14, <2>1
  <2>3. QED
    BY <1>7, <1>14, <2>1, <2>2 DEF Stored
<1>15. ASSUME NEW j \in 1 .. n, NEW l \in 1 .. n, reply'.bytes[j] = reply'.bytes[l]
       PROVE  j = l
  <2>1. PICK y \in Nat : y = ad + of + l - 1 /\ Lies(list, y, ch) /\ reply'.bytes[l] = m[y]
    BY <1>13
  <2>2. y = ad + of + j - 1
    BY <1>14, <1>15, <2>1
  <2>3. QED
    BY <2>1, <2>2
<1>16. ASSUME NEW j \in 1 .. n, NEW other \in Channels, NEW l \in DOMAIN UnreadOf(other)',
              reply'.bytes[j] = UnreadOf(other)'[l]
       PROVE  FALSE
  <2>1. PICK s \in Seq(Byte) :
          /\ s = FlattenSeq(Parts(new, m, other))
          /\ \A p \in 1 .. Len(s) :
               \E q \in 1 .. Len(new) : \E r \in 1 .. new[q].size :
                 /\ new[q].ch = other
                 /\ s[p] = BytesOf(m, new[q].addr + new[q].off, new[q].size)[r]
    BY <1>5, UnreadFrom
  <2>2. UnreadOf(other)' = s
    BY <1>3, <1>5, <2>1, UnreadIsParts
  <2>3. l \in 1 .. Len(s) /\ reply'.bytes[j] = s[l]
    BY <1>16, <2>2
  <2>4. PICK q \in 1 .. Len(new) : \E r \in 1 .. new[q].size :
                 /\ new[q].ch = other
                 /\ s[l] = BytesOf(m, new[q].addr + new[q].off, new[q].size)[r]
    BY <2>1, <2>3
  <2>5. PICK aq \in Nat, oq \in Nat, sq \in Nat :
          new[q].addr = aq /\ new[q].off = oq /\ new[q].size = sq
    <3>1. PICK e \in Entry : e = new[q]
      OBVIOUS
    <3>2. PICK a \in Nat, o \in Nat, s2 \in Nat :
            e.addr = a /\ e.off = o /\ e.size = s2 /\ End(e) = s2 + o
      BY EntryNumbers
    <3>3. QED
      BY <3>1, <3>2
  <2>6. PICK r \in 1 .. sq :
          new[q].ch = other /\ s[l] = BytesOf(m, aq + oq, sq)[r]
    BY <2>4, <2>5
  <2>7. PICK y \in Nat : y = aq + oq + r - 1 /\ y \in aq + oq .. aq + oq + sq - 1
    OBVIOUS
  <2>8. Lies(new, y, other)
    BY <2>5, <2>6, <2>7 DEF Lies, Unread
  <2>9. Lies(list, y, other) /\ y \notin ad + of .. ad + of + n - 1
    BY <1>12, <2>8
  <2>10. y \in DOMAIN m
    BY <1>7, <2>9 DEF Stored
  <2>11. s[l] = m[y]
    BY <2>6, <2>7, <2>10 DEF BytesOf
  <2>12. y = ad + of + j - 1
    BY <1>14, <2>3, <2>9, <2>11
  <2>13. QED
    BY <1>13, <2>9, <2>12
<1>17. QED
  BY <1>10, <1>13, <1>15, <1>16

(* While data stays within pages, and whatever sizes are asked for, a      *)
(* receive returns bytes of its own channel, each once, and none that some *)
(* channel has still unread.                                               *)
THEOREM BytesAreApart == Spec => Isolation
<1>1. IInv /\ [Next]_vars =>
        [\A ch \in Channels, size \in Sizes :
           receive(ch, size) /\ reply'.ok /\ beyond' = 0 =>
             /\ \A i \in 1 .. size : reply'.bytes[i].ch = ch
             /\ \A i \in 1 .. size : \A j \in 1 .. size :
                  i # j => reply'.bytes[i] # reply'.bytes[j]
             /\ \A i \in 1 .. size :
                  \A other \in Channels : \A j \in DOMAIN UnreadOf(other)' :
                    reply'.bytes[i] # UnreadOf(other)'[j]]_vars
  BY IsolatedStep
<1>2. QED
  BY <1>1, Invariant, PTL DEF Spec, Isolation

(***************************************************************************)
(* Each channel is a first-in first-out stream: what a send, a receive and *)
(* a refused receive do to the unread bytes of every channel.              *)
(***************************************************************************)

Read(m, e) == BytesOf(m, e.addr + e.off, e.size)
StreamIn(list, m, c) == FlattenSeq(Parts(list, m, c))
Bytewise(m) == \A x \in DOMAIN m : m[x] \in Byte

IsParts(ss, list, m, c) ==
  /\ Len(ss) = Len(list)
  /\ \A i \in 1 .. Len(list) : ss[i] = IF list[i].ch = c THEN Read(m, list[i]) ELSE <<>>

(* What is read from an entry is as long as its size says.                 *)
LEMMA ReadTypes ==
  ASSUME NEW m, Bytewise(m), NEW e \in Entry
  PROVE  Read(m, e) \in Seq(Byte) /\ Len(Read(m, e)) = e.size
<1>1. e.addr + e.off \in Nat /\ e.size \in Nat
  BY EntryTypes
<1>2. QED
  BY <1>1, BytesOfTypes DEF Read, Bytewise

(* The parts of a channel are sequences of bytes, one per entry, empty for *)
(* the entries of other channels.                                          *)
LEMMA PartsTypes ==
  ASSUME NEW list \in Seq(Entry), NEW m, Bytewise(m), NEW c
  PROVE  \E ss \in Seq(Seq(Byte)) : ss = Parts(list, m, c) /\ IsParts(ss, list, m, c)
<1>1. \A i \in 1 .. Len(list) : Read(m, list[i]) \in Seq(Byte)
  BY ReadTypes
<1>2. Parts(list, m, c) \in [1 .. Len(list) -> Seq(Byte)]
  BY <1>1 DEF Parts, Read
<1>3. PICK ss \in Seq(Seq(Byte)) : ss = Parts(list, m, c) /\ Len(ss) = Len(list)
  BY <1>2
<1>4. IsParts(ss, list, m, c)
  BY <1>3 DEF Parts, IsParts, Read
<1>5. QED
  BY <1>3, <1>4

(* Two lists with the same parts.                                          *)
LEMMA SameParts ==
  ASSUME NEW list \in Seq(Entry), NEW m, Bytewise(m), NEW c,
         NEW new \in Seq(Entry), NEW m2, Bytewise(m2), Len(new) = Len(list),
         \A i \in 1 .. Len(list) :
           /\ (new[i].ch = c <=> list[i].ch = c)
           /\ (list[i].ch = c => Read(m2, new[i]) = Read(m, list[i]))
  PROVE  StreamIn(new, m2, c) = StreamIn(list, m, c)
<1>1. PICK ss \in Seq(Seq(Byte)) : ss = Parts(list, m, c) /\ IsParts(ss, list, m, c)
  BY PartsTypes
<1>2. PICK tt \in Seq(Seq(Byte)) : tt = Parts(new, m2, c) /\ IsParts(tt, new, m2, c)
  BY PartsTypes
<1>3. Len(ss) = Len(list) /\ Len(tt) = Len(list)
  BY <1>1, <1>2 DEF IsParts
<1>4. \A i \in 1 .. Len(list) : tt[i] = ss[i]
  BY <1>1, <1>2, <1>3 DEF IsParts
<1>5. tt = ss
  BY <1>3, <1>4, SeqEqual
<1>6. QED
  BY <1>1, <1>2, <1>5 DEF StreamIn

(* The unread bytes of entry e are in memory, outside the n bytes from a.  *)
Kept(m, e, a, n) == \A x \in Unread(e) : x \in DOMAIN m /\ x \notin a .. a + n - 1

(* Writing where nothing unread is keeps the unread bytes of every entry.  *)
LEMMA KeptEntries ==
  ASSUME NEW list \in Seq(Entry), NEW m, NEW ms, Stored(list, m, ms),
         NEW a, NEW n, Clear(list, a, n), NEW i \in 1 .. Len(list)
  PROVE  Kept(m, list[i], a, n)
<1>1. PICK e \in Entry : e = list[i]
  OBVIOUS
<1>2. ASSUME NEW x \in Unread(e)
      PROVE  x \in DOMAIN m /\ x \notin a .. a + n - 1
  <2>1. PICK ad \in Nat, of \in Nat, sz \in Nat :
          e.addr = ad /\ e.off = of /\ e.size = sz /\ End(e) = sz + of
    BY EntryNumbers
  <2>2. x \in ad + of .. ad + of + sz - 1
    BY <2>1 DEF Unread
  <2>3. x \in Nat
    BY <2>2
  <2>4. e.ch \in Channels /\ Lies(list, x, e.ch)
    BY <1>1, EntryTypes DEF Lies
  <2>5. QED
    BY <1>1, <2>3, <2>4 DEF Stored, Clear
<1>3. QED
  BY <1>1, <1>2 DEF Kept

(* A copy elsewhere does not change what an entry reads.                   *)
LEMMA SameRead ==
  ASSUME NEW e \in Entry, NEW m, NEW a \in Nat, NEW n \in Nat, Kept(m, e, a, n),
         NEW ch, NEW k
  PROVE  Read(Copied(m, ch, k, n, a), e) = Read(m, e)
<1> DEFINE m2 == Copied(m, ch, k, n, a)
<1>1. PICK ad \in Nat, of \in Nat, sz \in Nat :
        e.addr = ad /\ e.off = of /\ e.size = sz /\ End(e) = sz + of
  BY EntryNumbers
<1>2. ASSUME NEW i \in 1 .. sz
      PROVE  /\ ad + of + i - 1 \in DOMAIN m /\ ad + of + i - 1 \in DOMAIN m2
             /\ m2[ad + of + i - 1] = m[ad + of + i - 1]
  <2>1. ad + of + i - 1 \in ad + of .. ad + of + sz - 1
    OBVIOUS
  <2>2. PICK x \in Unread(e) : x = ad + of + i - 1
    BY <1>1, <2>1 DEF Unread
  <2>3. x \in DOMAIN m /\ x \notin a .. a + n - 1
    BY DEF Kept
  <2>4. x \in DOMAIN m2 /\ m2[x] = m[x]
    BY <2>3 DEF Copied
  <2>5. QED
    BY <2>2, <2>3, <2>4
<1> HIDE DEF m2
<1>3. [i \in 1 .. sz |-> IF ad + of + i - 1 \in DOMAIN m2 THEN m2[ad + of + i - 1] ELSE Blank]
        = [i \in 1 .. sz |-> IF ad + of + i - 1 \in DOMAIN m THEN m[ad + of + i - 1] ELSE Blank]
  BY <1>2
<1>4. Read(m2, e) = Read(m, e)
  BY <1>1, <1>3 DEF Read, BytesOf
<1>5. QED
  BY <1>4 DEF m2

(* How a joined sequence is recognised.                                    *)
LEMMA CatIs ==
  ASSUME NEW S, NEW s \in Seq(S), NEW t \in Seq(S), NEW u \in Seq(S),
         Len(u) = Len(s) + Len(t),
         \A i \in 1 .. Len(s) : u[i] = s[i],
         \A i \in 1 .. Len(t) : u[Len(s) + i] = t[i]
  PROVE  u = Cat(s, t)
<1>1. PICK v \in Seq(S) : v = s \o t
  <2>1. s \o t \in Seq(S)
    OBVIOUS
  <2>2. QED
    BY <2>1
<1>2. /\ Len(v) = Len(s) + Len(t)
      /\ \A i \in 1 .. Len(v) : v[i] = IF i <= Len(s) THEN s[i] ELSE t[i - Len(s)]
  BY <1>1
<1>3. ASSUME NEW i \in 1 .. Len(u)
      PROVE  u[i] = v[i]
  <2>1. PICK p \in Nat, q \in Nat : p = Len(s) /\ q = Len(t)
    OBVIOUS
  <2>2. i \in 1 .. p + q
    BY <2>1
  <2>3. CASE i <= p
    BY <1>2, <2>1, <2>2, <2>3
  <2>4. CASE ~(i <= p)
    <3>1. i - p \in 1 .. q /\ p + (i - p) = i
      BY <2>2, <2>4
    <3>2. u[p + (i - p)] = t[i - p]
      BY <2>1, <3>1
    <3>3. QED
      BY <1>2, <2>1, <2>2, <2>4, <3>1, <3>2
  <2>5. QED
    BY <2>3, <2>4
<1>4. u = v
  BY <1>2, <1>3
<1>5. QED
  BY <1>1, <1>4 DEF Cat

(* Reading more: an entry with a message behind its unread bytes.          *)
LEMMA ReadLonger ==
  ASSUME NEW e \in Entry, NEW m, NEW n \in Nat, Kept(m, e, e.addr + End(e), n),
         Bytewise(m), NEW ch \in Channels, NEW k \in Nat,
         Bytewise(Copied(m, ch, k, n, e.addr + End(e)))
  PROVE  Read(Copied(m, ch, k, n, e.addr + End(e)), With(e, e.off, e.size + n))
           = Cat(Read(m, e), Message(ch, k, n))
<1>1. PICK ad \in Nat, of \in Nat, sz \in Nat :
        e.addr = ad /\ e.off = of /\ e.size = sz /\ End(e) = sz + of
  BY EntryNumbers
<1>2. PICK a \in Nat : a = e.addr + End(e) /\ a = ad + of + sz
  BY <1>1
<1> DEFINE m2 == Copied(m, ch, k, n, a)
<1>3. PICK q \in Entry : /\ q = With(e, e.off, e.size + n)
                         /\ q.addr = ad /\ q.off = of /\ q.size = sz + n
  <2>1. PICK z \in Nat : z = sz + n
    OBVIOUS
  <2>2. With(e, of, z) \in Entry
    BY WithIsEntry
  <2>3. QED
    BY <1>1, <2>1, <2>2 DEF With
<1>4. PICK s \in Seq(Byte) : s = Read(m, e) /\ Len(s) = sz
  BY <1>1, ReadTypes
<1>5. PICK t \in Seq(Byte) : t = Message(ch, k, n) /\ Len(t) = n
  BY MessageBytes
<1>6. PICK u \in Seq(Byte) : u = Read(m2, q) /\ Len(u) = sz + n
  <2>1. Bytewise(m2)
    BY <1>2
  <2> HIDE DEF m2
  <2>2. QED
    BY <1>3, <2>1, ReadTypes
<1>7. ASSUME NEW i \in 1 .. sz
      PROVE  u[i] = s[i]
  <2>1. Read(m2, e) = Read(m, e)
    BY <1>2, SameRead
  <2>2. s[i] = IF ad + of + i - 1 \in DOMAIN m2 THEN m2[ad + of + i - 1] ELSE Blank
    <3> HIDE DEF m2
    <3>1. QED
      BY <1>1, <1>4, <2>1 DEF Read, BytesOf
  <2>3. u[i] = IF ad + of + i - 1 \in DOMAIN m2 THEN m2[ad + of + i - 1] ELSE Blank
    <3>1. i \in 1 .. sz + n
      OBVIOUS
    <3> HIDE DEF m2
    <3>2. QED
      BY <1>3, <1>6, <3>1 DEF Read, BytesOf
  <2>4. QED
    BY <2>2, <2>3
<1>8. ASSUME NEW i \in 1 .. n
      PROVE  u[sz + i] = t[i]
  <2>1. sz + i \in 1 .. sz + n /\ ad + of + (sz + i) - 1 = a + i - 1
    BY <1>2
  <2>2. u[sz + i] = IF a + i - 1 \in DOMAIN m2 THEN m2[a + i - 1] ELSE Blank
    <3> HIDE DEF m2
    <3>1. QED
      BY <1>3, <1>6, <2>1 DEF Read, BytesOf
  <2>3. PICK x \in a .. a + n - 1 : x = a + i - 1 /\ x - a + 1 = i
    OBVIOUS
  <2>4. x \in DOMAIN m2 /\ m2[x] = Message(ch, k, n)[x - a + 1]
    BY DEF Copied
  <2>5. QED
    BY <1>5, <2>2, <2>3, <2>4
<1>9. u = Cat(s, t)
  <2>1. /\ Len(u) = Len(s) + Len(t) /\ \A i \in 1 .. Len(s) : u[i] = s[i]
        /\ \A i \in 1 .. Len(t) : u[Len(s) + i] = t[i]
    BY <1>4, <1>5, <1>6, <1>7, <1>8
  <2>2. QED
    BY <2>1, CatIs
<1>10. QED
  BY <1>2, <1>3, <1>4, <1>5, <1>6, <1>9

(* Reading less: the first n bytes of an entry and the rest.               *)
LEMMA ReadShorter ==
  ASSUME NEW e \in Entry, NEW m, Bytewise(m), NEW n \in Nat, n <= e.size
  PROVE  /\ BytesOf(m, e.addr + e.off, n) \in Seq(Byte)
         /\ Len(BytesOf(m, e.addr + e.off, n)) = n
         /\ Read(m, e) = Cat(BytesOf(m, e.addr + e.off, n),
                             Read(m, With(e, e.off + n, e.size - n)))
<1>1. PICK ad \in Nat, of \in Nat, sz \in Nat :
        e.addr = ad /\ e.off = of /\ e.size = sz /\ End(e) = sz + of
  BY EntryNumbers
<1>2. PICK y \in Nat, z \in Nat : y = of + n /\ z = sz - n
  BY <1>1
<1>3. PICK q \in Entry : /\ q = With(e, e.off + n, e.size - n)
                         /\ q.addr = ad /\ q.off = y /\ q.size = z
  <2>1. With(e, y, z) \in Entry
    BY WithIsEntry
  <2>2. QED
    BY <1>1, <1>2, <2>1 DEF With
<1>4. PICK u \in Seq(Byte) : u = Read(m, e) /\ Len(u) = sz
  BY <1>1, ReadTypes
<1>5. PICK t \in Seq(Byte) : t = Read(m, q) /\ Len(t) = z
  BY <1>3, ReadTypes
<1>6. PICK s \in Seq(Byte) : s = BytesOf(m, e.addr + e.off, n) /\ Len(s) = n
  <2>1. PICK x \in Nat : x = e.addr + e.off
    BY <1>1
  <2>2. QED
    BY <2>1, BytesOfTypes DEF Bytewise
<1>7. n + z = sz
  BY <1>2
<1>8. ASSUME NEW i \in 1 .. n
      PROVE  u[i] = s[i]
  <2>1. i \in 1 .. sz
    BY <1>1
  <2>2. QED
    BY <1>1, <1>4, <1>6, <2>1 DEF Read, BytesOf
<1>9. ASSUME NEW i \in 1 .. z
      PROVE  u[n + i] = t[i]
  <2>1. n + i \in 1 .. sz /\ ad + of + (n + i) - 1 = ad + y + i - 1
    BY <1>1, <1>2
  <2>2. QED
    BY <1>1, <1>3, <1>4, <1>5, <2>1 DEF Read, BytesOf
<1>10. u = Cat(s, t)
  <2>1. /\ Len(u) = Len(s) + Len(t) /\ \A i \in 1 .. Len(s) : u[i] = s[i]
        /\ \A i \in 1 .. Len(t) : u[Len(s) + i] = t[i]
    BY <1>4, <1>5, <1>6, <1>7, <1>8, <1>9
  <2>2. QED
    BY <2>1, CatIs
<1>11. QED
  BY <1>3, <1>4, <1>5, <1>6, <1>10

(* A message behind the unread bytes of a channel's last entry.            *)
LEMMA AppendStream ==
  ASSUME NEW list \in Seq(Entry), NEW m, Bytewise(m), NEW ms, Stored(list, m, ms),
         NEW n \in Nat, NEW k \in Nat, NEW ch \in Channels, NEW l \in 1 .. Len(list),
         list[l].ch = ch, \A i \in 1 .. Len(list) : i > l => list[i].ch # ch,
         NEW a \in Nat, a = list[l].addr + End(list[l]), Clear(list, a, n),
         Bytewise(Copied(m, ch, k, n, a)), NEW c
  PROVE  StreamIn(Longer(list, l, n), Copied(m, ch, k, n, a), c)
           = IF c = ch THEN Cat(StreamIn(list, m, c), Message(ch, k, n))
             ELSE StreamIn(list, m, c)
<1>1. PICK e \in Entry : e = list[l]
  OBVIOUS
<1>2. PICK ad \in Nat, of \in Nat, sz \in Nat :
        e.addr = ad /\ e.off = of /\ e.size = sz /\ End(e) = sz + of
  BY EntryNumbers
<1>3. PICK q \in Entry : q = With(e, e.off, e.size + n) /\ q.ch = e.ch
  <2>1. PICK z \in Nat : z = sz + n
    OBVIOUS
  <2>2. With(e, of, z) \in Entry
    BY WithIsEntry
  <2>3. QED
    BY <1>2, <2>1, <2>2 DEF With
<1>4. PICK new \in Seq(Entry) :
        /\ new = Longer(list, l, n) /\ Len(new) = Len(list)
        /\ \A i \in 1 .. Len(list) : new[i] = IF i = l THEN q ELSE list[i]
  <2>1. Longer(list, l, n) = [list EXCEPT ![l] = q]
    BY <1>1, <1>3 DEF Longer
  <2>2. QED
    BY <2>1, Replaced
<1>5. PICK m2 : m2 = Copied(m, ch, k, n, a) /\ Bytewise(m2)
  OBVIOUS
<1>6. ASSUME NEW i \in 1 .. Len(list)
      PROVE  Read(m2, list[i]) = Read(m, list[i])
  <2>1. PICK f \in Entry : f = list[i]
    OBVIOUS
  <2>2. Kept(m, f, a, n)
    BY <2>1, KeptEntries
  <2>3. QED
    BY <1>5, <2>1, <2>2, SameRead
<1>7. CASE c # ch
  <2>1. \A i \in 1 .. Len(list) :
          /\ (new[i].ch = c <=> list[i].ch = c)
          /\ (list[i].ch = c => Read(m2, new[i]) = Read(m, list[i]))
    <3>1. ASSUME NEW i \in 1 .. Len(list)
          PROVE  /\ (new[i].ch = c <=> list[i].ch = c)
                 /\ (list[i].ch = c => Read(m2, new[i]) = Read(m, list[i]))
      <4>1. CASE i = l
        BY <1>1, <1>3, <1>4, <1>7, <4>1
      <4>2. CASE i # l
        BY <1>4, <1>6, <4>2
      <4>3. QED
        BY <4>1, <4>2
    <3>2. QED
      BY <3>1
  <2>2. StreamIn(new, m2, c) = StreamIn(list, m, c)
    BY <1>4, <1>5, <2>1, SameParts
  <2>3. QED
    BY <1>4, <1>5, <1>7, <2>2
<1>8. CASE c = ch
  <2>1. PICK ss \in Seq(Seq(Byte)) : ss = Parts(list, m, c) /\ IsParts(ss, list, m, c)
    BY PartsTypes
  <2>2. PICK tt \in Seq(Seq(Byte)) : tt = Parts(new, m2, c) /\ IsParts(tt, new, m2, c)
    BY <1>5, PartsTypes
  <2>3. Len(ss) = Len(list) /\ Len(tt) = Len(ss)
    BY <1>4, <2>1, <2>2 DEF IsParts
  <2>4. SameBut(ss, tt, l)
    <3>1. ASSUME NEW i \in 1 .. Len(list), i < l
          PROVE  tt[i] = ss[i]
      <4>1. new[i] = list[i]
        BY <1>4, <3>1
      <4>2. QED
        BY <1>4, <1>6, <2>1, <2>2, <4>1 DEF IsParts
    <3>2. QED
      BY <2>3, <3>1 DEF SameBut
  <2>5. NoneAfter(ss, l) /\ NoneAfter(tt, l)
    <3>1. ASSUME NEW i \in 1 .. Len(list), i > l
          PROVE  ss[i] = <<>> /\ tt[i] = <<>>
      <4>1. new[i] = list[i] /\ list[i].ch # c
        BY <1>4, <1>8, <3>1
      <4>2. QED
        BY <1>4, <2>1, <2>2, <4>1 DEF IsParts
    <3>2. QED
      BY <2>3, <3>1 DEF NoneAfter
  <2>6. PICK b \in Seq(Byte) : b = Message(ch, k, n)
    BY MessageBytes
  <2>7. tt[l] = Cat(ss[l], b)
    <3>1. ss[l] = Read(m, e)
      BY <1>1, <1>8, <2>1 DEF IsParts
    <3>2. tt[l] = Read(m2, q)
      BY <1>1, <1>3, <1>4, <1>8, <2>2 DEF IsParts
    <3>3. Read(m2, q) = Cat(Read(m, e), b)
      <4>1. a = e.addr + End(e)
        BY <1>1
      <4>2. Kept(m, e, e.addr + End(e), n)
        BY <1>1, <4>1, KeptEntries
      <4>3. Bytewise(Copied(m, ch, k, n, e.addr + End(e)))
        BY <4>1
      <4>4. Read(Copied(m, ch, k, n, e.addr + End(e)), With(e, e.off, e.size + n))
              = Cat(Read(m, e), Message(ch, k, n))
        BY <4>2, <4>3, ReadLonger
      <4>5. QED
        BY <1>3, <1>5, <2>6, <4>1, <4>4
    <3>4. QED
      BY <3>1, <3>2, <3>3
  <2>8. FlattenSeq(tt) = Cat(FlattenSeq(ss), b)
    <3>1. l \in 1 .. Len(ss)
      BY <2>3
    <3>2. QED
      BY <2>3, <2>4, <2>5, <2>7, <3>1, LastLonger
  <2>9. QED
    BY <1>4, <1>5, <1>8, <2>1, <2>2, <2>6, <2>8 DEF StreamIn
<1>9. QED
  BY <1>7, <1>8

(* A message whose link in the list is lost, and one in a new entry.       *)
LEMMA LostStream ==
  ASSUME NEW list \in Seq(Entry), NEW m, Bytewise(m), NEW ms, Stored(list, m, ms),
         NEW n \in Nat, NEW k \in Nat, NEW ch, NEW a \in Nat, Clear(list, a, n),
         Bytewise(Copied(m, ch, k, n, a)), NEW c
  PROVE  StreamIn(list, Copied(m, ch, k, n, a), c) = StreamIn(list, m, c)
<1>1. PICK m2 : m2 = Copied(m, ch, k, n, a) /\ Bytewise(m2)
  OBVIOUS
<1>2. ASSUME NEW i \in 1 .. Len(list)
      PROVE  Read(m2, list[i]) = Read(m, list[i])
  <2>1. PICK f \in Entry : f = list[i]
    OBVIOUS
  <2>2. Kept(m, f, a, n)
    BY <2>1, KeptEntries
  <2>3. QED
    BY <1>1, <2>1, <2>2, SameRead
<1>3. StreamIn(list, m2, c) = StreamIn(list, m, c)
  BY <1>1, <1>2, SameParts
<1>4. QED
  BY <1>1, <1>3

(* A new entry adds its message at the end of the channel, and to no       *)
(* other.                                                                  *)
LEMMA BeginStream ==
  ASSUME NEW list \in Seq(Entry), NEW m, Bytewise(m), NEW ms, Stored(list, m, ms),
         NEW n \in Nat, NEW k \in Nat, NEW ch \in Channels, NEW a \in Nat,
         Clear(list, a, n), Bytewise(Copied(m, ch, k, n, a)), NEW c
  PROVE  StreamIn(OneMore(list, ch, n, a), Copied(m, ch, k, n, a), c)
           = IF c = ch THEN Cat(StreamIn(list, m, c), Message(ch, k, n))
             ELSE StreamIn(list, m, c)
<1>1. PICK m2 : m2 = Copied(m, ch, k, n, a) /\ Bytewise(m2)
  OBVIOUS
<1>2. PICK q \in Entry : /\ q = [ch |-> ch, off |-> 0, size |-> n, addr |-> a]
                         /\ q.ch = ch /\ q.off = 0 /\ q.size = n /\ q.addr = a
  <2>1. [ch |-> ch, off |-> 0, size |-> n, addr |-> a] \in Entry
    BY DEF Entry
  <2>2. QED
    BY <2>1
<1>3. PICK new \in Seq(Entry) : new = OneMore(list, ch, n, a)
  <2>1. Append(list, q) \in Seq(Entry)
    OBVIOUS
  <2>2. QED
    BY <1>2, <2>1 DEF OneMore
<1>4. PICK N \in Nat : N = Len(list) /\ N + 1 \in 1 .. N + 1
  OBVIOUS
<1>5. /\ Len(new) = N + 1 /\ new[N + 1] = q
      /\ \A i \in 1 .. N : new[i] = list[i]
  BY <1>2, <1>3, <1>4 DEF OneMore
<1>6. PICK ss \in Seq(Seq(Byte)) : ss = Parts(list, m2, c) /\ IsParts(ss, list, m2, c)
  BY <1>1, PartsTypes
<1>7. PICK tt \in Seq(Seq(Byte)) : tt = Parts(new, m2, c) /\ IsParts(tt, new, m2, c)
  BY <1>1, PartsTypes
<1>8. PICK b \in Seq(Byte) : b = IF c = ch THEN Message(ch, k, n) ELSE <<>>
  <2>1. Message(ch, k, n) \in Seq(Byte)
    BY MessageBytes
  <2>2. <<>> \in Seq(Byte)
    OBVIOUS
  <2>3. QED
    BY <2>1, <2>2
<1>9. c = ch => Read(m2, q) = Message(ch, k, n)
  <2>1. PICK t \in Seq(Byte) : t = Message(ch, k, n) /\ Len(t) = n
    BY MessageBytes
  <2>2. PICK u \in Seq(Byte) : u = Read(m2, q) /\ Len(u) = n
    BY <1>1, <1>2, ReadTypes
  <2>3. ASSUME NEW i \in 1 .. n
        PROVE  u[i] = t[i]
    <3>1. a + 0 + i - 1 = a + i - 1
      OBVIOUS
    <3>2. u[i] = IF a + i - 1 \in DOMAIN m2 THEN m2[a + i - 1] ELSE Blank
      BY <1>2, <2>2, <3>1 DEF Read, BytesOf
    <3>3. PICK x \in a .. a + n - 1 : x = a + i - 1 /\ x - a + 1 = i
      OBVIOUS
    <3>4. x \in DOMAIN m2 /\ m2[x] = Message(ch, k, n)[x - a + 1]
      BY <1>1 DEF Copied
    <3>5. QED
      BY <2>1, <3>2, <3>3, <3>4
  <2>4. u = t
    BY <2>1, <2>2, <2>3, SeqEqual
  <2>5. QED
    BY <2>1, <2>2, <2>4
<1>10. tt = Append(ss, b)
  <2>1. Len(ss) = N /\ Len(tt) = N + 1
    BY <1>4, <1>5, <1>6, <1>7 DEF IsParts
  <2>2. PICK uu \in Seq(Seq(Byte)) : /\ uu = Append(ss, b)
    <3>1. Append(ss, b) \in Seq(Seq(Byte))
      OBVIOUS
    <3>2. QED
      BY <3>1
  <2>3. Len(uu) = N + 1 /\ uu[N + 1] = b /\ \A i \in 1 .. N : uu[i] = ss[i]
    BY <1>4, <2>1, <2>2
  <2>4. ASSUME NEW i \in 1 .. N
        PROVE  tt[i] = ss[i]
    <3>1. i \in 1 .. Len(list) /\ i \in 1 .. Len(new) /\ new[i] = list[i]
      BY <1>4, <1>5
    <3>2. QED
      BY <1>6, <1>7, <3>1 DEF IsParts
  <2>5. tt[N + 1] = b
    <3>1. tt[N + 1] = IF q.ch = c THEN Read(m2, q) ELSE <<>>
      BY <1>4, <1>5, <1>7 DEF IsParts
    <3>2. QED
      BY <1>2, <1>8, <1>9, <3>1
  <2>6. \A i \in 1 .. N + 1 : i = N + 1 \/ i \in 1 .. N
    BY <1>4
  <2>7. \A i \in 1 .. N + 1 : tt[i] = uu[i]
    BY <2>3, <2>4, <2>5, <2>6
  <2>8. tt = uu
    BY <2>1, <2>3, <2>7, SeqEqual
  <2>9. QED
    BY <2>2, <2>8
<1>11. FlattenSeq(tt) = Cat(FlattenSeq(ss), b)
  BY <1>10, PartAdded
<1>12. FlattenSeq(ss) = StreamIn(list, m, c)
  <2>1. StreamIn(list, m2, c) = StreamIn(list, m, c)
    BY <1>1, LostStream
  <2>2. QED
    BY <1>6, <2>1 DEF StreamIn
<1>13. CASE c = ch
  BY <1>1, <1>3, <1>7, <1>8, <1>11, <1>12, <1>13 DEF StreamIn
<1>14. CASE c # ch
  <2>1. b = <<>>
    BY <1>8, <1>14
  <2>2. PICK s \in Seq(Byte) : s = FlattenSeq(ss)
    BY JoinedFrom
  <2>3. Cat(s, <<>>) = s
    BY ConcatEmptySeq DEF Cat
  <2>4. QED
    BY <1>1, <1>3, <1>7, <1>11, <1>12, <1>14, <2>1, <2>2, <2>3 DEF StreamIn
<1>15. QED
  BY <1>13, <1>14

(* The beginning and the rest of two sequences that were joined.           *)
LEMMA CatParts ==
  ASSUME NEW S, NEW s \in Seq(S), NEW t \in Seq(S)
  PROVE  /\ Len(s) <= Len(Cat(s, t))
         /\ SubSeq(Cat(s, t), 1, Len(s)) = s
         /\ SubSeq(Cat(s, t), Len(s) + 1, Len(Cat(s, t))) = t
<1>1. PICK u \in Seq(S) : u = s \o t
  <2>1. s \o t \in Seq(S)
    OBVIOUS
  <2>2. QED
    BY <2>1
<1>2. /\ Len(u) = Len(s) + Len(t)
      /\ \A i \in 1 .. Len(u) : u[i] = IF i <= Len(s) THEN s[i] ELSE t[i - Len(s)]
  BY <1>1
<1>3. PICK p \in Nat, q \in Nat : p = Len(s) /\ q = Len(t) /\ Len(u) = p + q
  BY <1>2
<1>4. SubSeq(u, 1, p) = s
  <2>1. SubSeq(u, 1, p) \in Seq(S) /\ Len(SubSeq(u, 1, p)) = p
    BY <1>3
  <2>2. PICK v \in Seq(S) : v = SubSeq(u, 1, p) /\ Len(v) = p
    BY <2>1
  <2>3. \A i \in 1 .. p : v[i] = u[i]
    BY <1>3, <2>2
  <2>4. \A i \in 1 .. p : v[i] = s[i]
    BY <1>2, <1>3, <2>3
  <2>5. v = s
    BY <1>3, <2>2, <2>4, SeqEqual
  <2>6. QED
    BY <2>2, <2>5
<1>5. SubSeq(u, p + 1, p + q) = t
  <2>1. SubSeq(u, p + 1, p + q) \in Seq(S) /\ Len(SubSeq(u, p + 1, p + q)) = q
    BY <1>3
  <2>2. PICK v \in Seq(S) : v = SubSeq(u, p + 1, p + q) /\ Len(v) = q
    BY <2>1
  <2>3. ASSUME NEW i \in 1 .. q
        PROVE  v[i] = t[i]
    <3>1. v[i] = u[p + i]
      BY <1>3, <2>2
    <3>2. p + i \in 1 .. p + q /\ ~(p + i <= p) /\ (p + i) - p = i
      OBVIOUS
    <3>3. u[p + i] = t[(p + i) - p]
      BY <1>2, <1>3, <3>2
    <3>4. QED
      BY <3>1, <3>2, <3>3
  <2>4. v = t
    BY <1>3, <2>2, <2>3, SeqEqual
  <2>5. QED
    BY <2>2, <2>4
<1>6. u = Cat(s, t) /\ Len(s) <= Len(u)
  BY <1>1, <1>3 DEF Cat
<1>7. QED
  BY <1>3, <1>4, <1>5, <1>6

(* Entry i is the first of channel ch with unread bytes.                   *)
FirstUnread(list, ch, i) ==
  /\ list[i].ch = ch
  /\ \A j \in 1 .. Len(list) : j < i /\ list[j].ch = ch => list[j].size = 0

(* The unread bytes that lie behind entry i.                               *)
Later(r, list, m, ch, i) ==
  \A j \in 1 .. Len(r) : \E f \in 1 .. Len(list) :
    /\ f # i /\ list[f].ch = ch
    /\ \E x \in Unread(list[f]) : r[j] = m[x]

(* Each byte read from an entry is one of its unread bytes.                *)
LEMMA ReadByte ==
  ASSUME NEW e \in Entry, NEW m, NEW a, NEW n, Kept(m, e, a, n), NEW j \in 1 .. e.size
  PROVE  \E x \in Unread(e) : Read(m, e)[j] = m[x]
<1>1. PICK ad \in Nat, of \in Nat, sz \in Nat :
        e.addr = ad /\ e.off = of /\ e.size = sz /\ End(e) = sz + of
  BY EntryNumbers
<1>2. ad + of + j - 1 \in ad + of .. ad + of + sz - 1
  BY <1>1
<1>3. PICK x \in Unread(e) : x = ad + of + j - 1
  BY <1>1, <1>2 DEF Unread
<1>4. x \in DOMAIN m
  BY DEF Kept
<1>5. j \in 1 .. sz
  BY <1>1
<1>6. Read(m, e)[j] = m[x]
  BY <1>1, <1>3, <1>4, <1>5 DEF Read, BytesOf
<1>7. QED
  BY <1>6

(* The stream of a channel begins with what its first entry with unread    *)
(* bytes holds, and the bytes behind it do not depend on that entry.       *)
LEMMA StreamFront ==
  ASSUME NEW list \in Seq(Entry), NEW m, Bytewise(m), NEW ms, Stored(list, m, ms),
         NEW i \in 1 .. Len(list), NEW ch, FirstUnread(list, ch, i),
         NEW new \in Seq(Entry), Len(new) = Len(list), new[i].ch = ch,
         \A j \in 1 .. Len(list) : j # i => new[j] = list[j]
  PROVE  \E r \in Seq(Byte) :
           /\ StreamIn(list, m, ch) = Cat(Read(m, list[i]), r)
           /\ StreamIn(new, m, ch) = Cat(Read(m, new[i]), r)
           /\ Later(r, list, m, ch, i)
<1>1. PICK ss \in Seq(Seq(Byte)) : ss = Parts(list, m, ch) /\ IsParts(ss, list, m, ch)
  BY PartsTypes
<1>2. PICK tt \in Seq(Seq(Byte)) : tt = Parts(new, m, ch) /\ IsParts(tt, new, m, ch)
  BY PartsTypes
<1>3. Len(ss) = Len(list) /\ Len(tt) = Len(ss) /\ i \in 1 .. Len(ss)
  BY <1>1, <1>2 DEF IsParts
<1>4. ASSUME NEW j \in 1 .. Len(list), j # i
      PROVE  tt[j] = ss[j]
  BY <1>1, <1>2, <1>3, <1>4 DEF IsParts
<1>5. ASSUME NEW j \in 1 .. Len(list), j < i
      PROVE  ss[j] = <<>> /\ tt[j] = <<>>
  <2>1. ss[j] = <<>>
    <3>1. CASE list[j].ch = ch
      <4>1. PICK e \in Entry : e = list[j] /\ e.size = 0
        BY <1>5, <3>1 DEF FirstUnread
      <4>2. PICK u \in Seq(Byte) : u = Read(m, e) /\ Len(u) = 0
        BY <4>1, ReadTypes
      <4>3. u = <<>>
        BY <4>2
      <4>4. QED
        BY <1>1, <3>1, <4>1, <4>2, <4>3 DEF IsParts
    <3>2. CASE list[j].ch # ch
      BY <1>1, <3>2 DEF IsParts
    <3>3. QED
      BY <3>1, <3>2
  <2>2. j # i
    BY <1>5
  <2>3. QED
    BY <1>4, <2>1, <2>2
<1>6. NoneBefore(ss, i) /\ NoneBefore(tt, i)
  BY <1>3, <1>5 DEF NoneBefore
<1>7. SameAfter(ss, tt, i)
  <2>1. ASSUME NEW j \in 1 .. Len(ss), j > i
        PROVE  tt[j] = ss[j]
    <3>1. j \in 1 .. Len(list) /\ j # i
      BY <1>3, <2>1
    <3>2. QED
      BY <1>4, <3>1
  <2>2. QED
    BY <2>1 DEF SameAfter
<1>8. PICK r \in Seq(Byte) :
        /\ FlattenSeq(ss) = Cat(ss[i], r)
        /\ FlattenSeq(tt) = Cat(tt[i], r)
        /\ Behind(r, ss, i)
  BY <1>3, <1>6, <1>7, FirstChanged
<1>9. ASSUME NEW j \in 1 .. Len(r)
      PROVE  \E f \in 1 .. Len(list) :
               /\ f # i /\ list[f].ch = ch
               /\ \E x \in Unread(list[f]) : r[j] = m[x]
  <2>1. PICK f \in i + 1 .. Len(ss) : \E k \in 1 .. Len(ss[f]) : r[j] = ss[f][k]
    BY <1>8 DEF Behind
  <2>2. f \in 1 .. Len(list) /\ f # i
    <3>1. PICK p \in Nat : p = Len(list) /\ p = Len(ss)
      BY <1>3
    <3>2. i \in 1 .. p /\ f \in i + 1 .. p
      BY <3>1
    <3>3. f \in 1 .. p /\ f # i
      BY <3>2
    <3>4. QED
      BY <3>1, <3>3
  <2>3. PICK k \in 1 .. Len(ss[f]) : r[j] = ss[f][k]
    BY <2>1
  <2>4. list[f].ch = ch
    <3>1. Len(<<>>) = 0
      OBVIOUS
    <3>2. CASE list[f].ch # ch
      <4>1. ss[f] = <<>>
        BY <1>1, <2>2, <3>2 DEF IsParts
      <4>2. QED
        BY <3>1, <4>1
    <3>3. QED
      BY <3>2
  <2>5. PICK e \in Entry : e = list[f]
    <3>1. list[f] \in Entry
      BY <2>2
    <3>2. QED
      BY <3>1
  <2>6. ss[f] = Read(m, e) /\ Len(Read(m, e)) = e.size
    BY <1>1, <2>2, <2>4, <2>5, ReadTypes DEF IsParts
  <2>7. Kept(m, e, 1, 0)
    <3>1. Clear(list, 1, 0)
      BY DEF Clear
    <3>2. QED
      BY <2>2, <2>5, <3>1, KeptEntries
  <2>8. PICK x \in Unread(e) : Read(m, e)[k] = m[x]
    BY <2>3, <2>6, <2>7, ReadByte
  <2>9. QED
    BY <2>2, <2>3, <2>4, <2>5, <2>6, <2>8
<1>10. ss[i] = Read(m, list[i]) /\ tt[i] = Read(m, new[i])
  BY <1>1, <1>2, <1>3 DEF IsParts, FirstUnread
<1>11. Later(r, list, m, ch, i)
  BY <1>9 DEF Later
<1>12. QED
  BY <1>1, <1>2, <1>8, <1>10, <1>11 DEF StreamIn

(* The list new has n bytes less in entry i, those in front of the stream  *)
(* of channel ch, and nothing else is gone.                                *)
TakesFront(list, new, m, ch, i, n) ==
  /\ n <= Len(StreamIn(list, m, ch))
  /\ SubSeq(StreamIn(list, m, ch), 1, n) = BytesOf(m, list[i].addr + list[i].off, n)
  /\ StreamIn(new, m, ch) = SubSeq(StreamIn(list, m, ch), n + 1, Len(StreamIn(list, m, ch)))
  /\ \A c : c # ch => StreamIn(new, m, c) = StreamIn(list, m, c)

(* Receiving from the first entry with unread bytes takes the front of the *)
(* channel.                                                                *)
LEMMA TakeStream ==
  ASSUME NEW list \in Seq(Entry), NEW m, Bytewise(m), NEW ms, Stored(list, m, ms),
         NEW n \in Nat, NEW i \in 1 .. Len(list), n <= list[i].size,
         list[i].off + n < PageSize, NEW ch, FirstUnread(list, ch, i)
  PROVE  TakesFront(list, Shorter(list, i, n), m, ch, i, n)
<1>1. PICK e \in Entry : e = list[i] /\ e.ch = ch
  BY DEF FirstUnread
<1>2. PICK ad \in Nat, of \in Nat, sz \in Nat :
        e.addr = ad /\ e.off = of /\ e.size = sz /\ End(e) = sz + of
  BY EntryNumbers
<1>3. PICK y \in Nat, z \in Nat : y = of + n /\ z = sz - n
  BY <1>1, <1>2
<1>4. WrappedOff(of + n) = of + n
  <2>1. of + n < PageSize
    BY <1>1, <1>2
  <2>2. QED
    BY <2>1, SizeIsNat DEF WrappedOff
<1>5. PICK q \in Entry : q = With(e, of + n, sz - n) /\ q.ch = ch
  <2>1. With(e, y, z) \in Entry
    BY WithIsEntry
  <2>2. QED
    BY <1>1, <1>3, <2>1 DEF With
<1>6. PICK new \in Seq(Entry) :
        /\ new = Shorter(list, i, n) /\ Len(new) = Len(list)
        /\ \A j \in 1 .. Len(list) : new[j] = IF j = i THEN q ELSE list[j]
  <2>1. Shorter(list, i, n) = [list EXCEPT ![i] = q]
    BY <1>1, <1>2, <1>4, <1>5 DEF Shorter
  <2>2. QED
    BY <2>1, Replaced
<1>7. PICK r \in Seq(Byte) :
        /\ StreamIn(list, m, ch) = Cat(Read(m, list[i]), r)
        /\ StreamIn(new, m, ch) = Cat(Read(m, new[i]), r)
        /\ Later(r, list, m, ch, i)
  <2>1. new[i].ch = ch /\ \A j \in 1 .. Len(list) : j # i => new[j] = list[j]
    BY <1>5, <1>6
  <2>2. QED
    BY <1>6, <2>1, StreamFront
<1>8. PICK s \in Seq(Byte) : s = BytesOf(m, e.addr + e.off, n) /\ Len(s) = n
  BY <1>1, ReadShorter
<1>9. PICK t \in Seq(Byte) : t = Read(m, q)
  BY ReadTypes
<1>10. Read(m, e) = Cat(s, t)
  <2>1. Read(m, e) = Cat(BytesOf(m, e.addr + e.off, n), Read(m, With(e, e.off + n, e.size - n)))
    BY <1>1, ReadShorter
  <2>2. QED
    BY <1>2, <1>5, <1>8, <1>9, <2>1
<1>11. StreamIn(list, m, ch) = Cat(s, Cat(t, r))
  <2>1. Cat(Cat(s, t), r) = Cat(s, Cat(t, r))
    BY CatAssociative
  <2>2. QED
    BY <1>1, <1>7, <1>10, <2>1
<1>12. StreamIn(new, m, ch) = Cat(t, r)
  BY <1>6, <1>7, <1>9
<1>13. PICK w \in Seq(Byte) : w = Cat(t, r)
  <2>1. t \o r \in Seq(Byte)
    OBVIOUS
  <2>2. QED
    BY <2>1 DEF Cat
<1>14. /\ Len(s) <= Len(Cat(s, w))
       /\ SubSeq(Cat(s, w), 1, Len(s)) = s
       /\ SubSeq(Cat(s, w), Len(s) + 1, Len(Cat(s, w))) = w
  <2>1. Len(s) <= Len(Cat(s, w))
    BY CatParts
  <2>2. SubSeq(Cat(s, w), 1, Len(s)) = s
    BY CatParts
  <2>3. SubSeq(Cat(s, w), Len(s) + 1, Len(Cat(s, w))) = w
    BY CatParts
  <2>4. QED
    BY <2>1, <2>2, <2>3
<1>15. ASSUME NEW c, c # ch
       PROVE  StreamIn(new, m, c) = StreamIn(list, m, c)
  <2>1. \A j \in 1 .. Len(list) :
          /\ (new[j].ch = c <=> list[j].ch = c)
          /\ (list[j].ch = c => Read(m, new[j]) = Read(m, list[j]))
    BY <1>1, <1>5, <1>6, <1>15
  <2>2. QED
    BY <1>6, <2>1, SameParts
<1>16. TakesFront(list, new, m, ch, i, n)
  BY <1>1, <1>8, <1>11, <1>12, <1>13, <1>14, <1>15 DEF TakesFront
<1>17. QED
  BY <1>6, <1>16

(* A channel with unread bytes has a first entry with unread bytes.        *)
LEMMA FirstExists ==
  ASSUME NEW list \in Seq(Entry), NEW ch, NEW i \in 1 .. Len(list),
         list[i].ch = ch, list[i].size # 0
  PROVE  \E f \in 1 .. Len(list) : FirstUnread(list, ch, f) /\ list[f].size # 0
<1> DEFINE T == {j \in 1 .. Len(list) : list[j].ch = ch /\ list[j].size # 0}
<1>1. T \in SUBSET Nat /\ T # {}
  OBVIOUS
<1>2. PICK f \in T : \A j \in T : f <= j
  BY <1>1, LeastNumber
<1>3. ASSUME NEW j \in 1 .. Len(list), j < f, list[j].ch = ch, list[j].size # 0
      PROVE  FALSE
  <2>1. j \in T /\ f \in 1 .. Len(list)
    BY <1>2, <1>3
  <2>2. f <= j
    BY <1>2, <2>1
  <2>3. QED
    BY <1>3, <2>1, <2>2
<1>4. QED
  BY <1>2, <1>3 DEF FirstUnread

(* A channel with an entry that has unread bytes is not empty.             *)
LEMMA SomeUnread ==
  ASSUME NEW list \in Seq(Entry), NEW m, Bytewise(m), NEW ms, Stored(list, m, ms),
         NEW ch, NEW i \in 1 .. Len(list), list[i].ch = ch, list[i].size # 0
  PROVE  StreamIn(list, m, ch) # <<>>
<1>1. PICK f \in 1 .. Len(list) : FirstUnread(list, ch, f) /\ list[f].size # 0
  BY FirstExists
<1>2. PICK r \in Seq(Byte) : StreamIn(list, m, ch) = Cat(Read(m, list[f]), r)
  <2>1. list[f].ch = ch
    BY <1>1 DEF FirstUnread
  <2>2. QED
    BY <1>1, <2>1, StreamFront
<1>3. PICK u \in Seq(Byte) : u = Read(m, list[f]) /\ Len(u) # 0
  <2>1. PICK e \in Entry : e = list[f]
    OBVIOUS
  <2>2. QED
    BY <1>1, <2>1, ReadTypes
<1>4. Len(u \o r) # 0 /\ Len(<<>>) = 0
  <2>1. Len(u \o r) = Len(u) + Len(r) /\ Len(u) \in Nat /\ Len(r) \in Nat
    OBVIOUS
  <2>2. QED
    BY <1>3, <2>1
<1>5. QED
  BY <1>2, <1>3, <1>4 DEF Cat

(* The bytes that can be received at once lie in the first entry.          *)
LEMMA ReadyFront ==
  ASSUME NEW list \in Seq(Entry), NEW m, Bytewise(m), NEW ms, Stored(list, m, ms),
         Whole(list, m), NEW ch, NEW n \in Nat, n # 0,
         Stream!Ready(StreamIn(list, m, ch), n)
  PROVE  \E f \in 1 .. Len(list) : FirstUnread(list, ch, f) /\ n <= list[f].size
<1>1. PICK s \in Seq(Byte) :
        /\ s = StreamIn(list, m, ch)
        /\ \A j \in 1 .. Len(s) :
             \E i \in 1 .. Len(list) : \E k \in 1 .. list[i].size :
               /\ list[i].ch = ch
               /\ s[j] = BytesOf(m, list[i].addr + list[i].off, list[i].size)[k]
  <2>1. \A x \in DOMAIN m : m[x] \in Byte
    BY DEF Bytewise
  <2>2. \E s \in Seq(Byte) :
           /\ s = FlattenSeq(Parts(list, m, ch))
           /\ \A j \in 1 .. Len(s) :
                \E i \in 1 .. Len(list) : \E k \in 1 .. list[i].size :
                  /\ list[i].ch = ch
                  /\ s[j] = BytesOf(m, list[i].addr + list[i].off, list[i].size)[k]
    BY <2>1, UnreadFrom
  <2>3. QED
    BY <2>2 DEF StreamIn
<1>2. n <= Len(s) /\ Len(s) \in Nat /\ \A j \in 1 .. n : s[j].msg = s[1].msg
  BY <1>1 DEF Stream!Ready
<1>3. PICK f \in 1 .. Len(list) : FirstUnread(list, ch, f) /\ list[f].size # 0
  <2>1. 1 \in 1 .. Len(s)
    BY <1>2
  <2>2. PICK i \in 1 .. Len(list) : list[i].ch = ch /\ \E k \in 1 .. list[i].size : TRUE
    BY <1>1, <2>1
  <2>3. list[i].size # 0
    BY <2>2
  <2>4. QED
    BY <2>2, <2>3, FirstExists
<1>4. PICK e \in Entry, sz \in Nat : e = list[f] /\ e.size = sz /\ e.ch = ch /\ sz # 0
  <2>1. PICK e \in Entry : e = list[f]
    OBVIOUS
  <2>2. QED
    BY <1>3, <2>1, EntryTypes DEF FirstUnread
<1>5. PICK r \in Seq(Byte) : s = Cat(Read(m, e), r) /\ Later(r, list, m, ch, f)
  BY <1>1, <1>3, <1>4, StreamFront
<1>6. PICK u \in Seq(Byte) : u = Read(m, e) /\ Len(u) = sz
  BY <1>4, ReadTypes
<1>7. ASSUME sz < n
      PROVE  FALSE
  <2>1. /\ Len(s) = sz + Len(r) /\ Len(r) \in Nat
        /\ \A j \in 1 .. Len(s) : s[j] = IF j <= sz THEN u[j] ELSE r[j - sz]
    BY <1>5, <1>6 DEF Cat
  <2>2. /\ 1 \in 1 .. Len(r) /\ sz + 1 \in 1 .. n /\ sz + 1 \in 1 .. Len(s)
        /\ ~(sz + 1 <= sz) /\ (sz + 1) - sz = 1
        /\ 1 \in 1 .. Len(s) /\ 1 <= sz /\ 1 \in 1 .. sz
    BY <1>2, <1>4, <1>7, <2>1
  <2>3. s[1] = u[1] /\ s[sz + 1] = r[1]
    BY <2>1, <2>2
  <2>4. PICK y \in Unread(e) : u[1] = m[y]
    <3>1. Clear(list, 1, 0)
      BY DEF Clear
    <3>2. Kept(m, e, 1, 0)
      BY <1>4, <3>1, KeptEntries
    <3>3. 1 \in 1 .. e.size
      BY <1>4, <2>2
    <3>4. QED
      BY <1>6, <3>2, <3>3, ReadByte
  <2>5. PICK g \in 1 .. Len(list) : /\ g # f /\ list[g].ch = ch
                                    /\ \E x \in Unread(list[g]) : r[1] = m[x]
    BY <1>5, <2>2 DEF Later
  <2>6. PICK x \in Unread(list[g]) : r[1] = m[x]
    BY <2>5
  <2>7. m[x].msg # m[y].msg
    BY <1>4, <2>4, <2>5, <2>6 DEF Whole
  <2>8. s[sz + 1].msg = s[1].msg
    BY <1>2, <2>2
  <2>9. QED
    BY <2>3, <2>4, <2>6, <2>7, <2>8
<1>8. n <= sz
  BY <1>7
<1>9. QED
  BY <1>3, <1>4, <1>8

(* The streams of all channels before and after a step.                    *)
Streaming == [c \in Channels |-> UnreadOf(c)]

(* What each call has to leave to be a step of the streams.                *)
LEMMA SendStream ==
  ASSUME NEW ch \in Channels, NEW size \in Sizes, msgs' = [msgs EXCEPT ![ch] = @ + 1],
         reply' = NoReply,
         \/ \A c \in Channels : UnreadOf(c)' = UnreadOf(c)
         \/ \A c \in Channels :
              UnreadOf(c)' = IF c = ch THEN Cat(UnreadOf(c), Message(ch, msgs[ch] + 1, size))
                             ELSE UnreadOf(c)
  PROVE  Stream!Next
<1>1. CASE \A c \in Channels : UnreadOf(c)' = UnreadOf(c)
  <2>1. Streaming' = Streaming
    BY <1>1 DEF Streaming
  <2>2. Stream!Send(ch, size)
    BY <2>1 DEF Stream!Send, Stream!NoReply, NoReply, Streaming
  <2>3. QED
    BY <2>2 DEF Stream!Next
<1>2. CASE \A c \in Channels :
             UnreadOf(c)' = IF c = ch THEN Cat(UnreadOf(c), Message(ch, msgs[ch] + 1, size))
                            ELSE UnreadOf(c)
  <2>1. Streaming' = [Streaming EXCEPT ![ch] = @ \o Message(ch, msgs[ch] + 1, size)]
    BY <1>2 DEF Streaming, Cat
  <2>2. Stream!Message(ch, msgs[ch] + 1, size) = Message(ch, msgs[ch] + 1, size)
    BY DEF Stream!Message, Message
  <2>3. Stream!Send(ch, size)
    BY <2>1, <2>2 DEF Stream!Send, Stream!NoReply, NoReply, Streaming
  <2>4. QED
    BY <2>3 DEF Stream!Next
<1>3. QED
  BY <1>1, <1>2

(* A receive that takes the front of its channel is a receive of the       *)
(* streams,                                                                *)
LEMMA ReceiveStream ==
  ASSUME NEW ch \in Channels, NEW size \in Sizes, msgs' = msgs,
         size <= Len(UnreadOf(ch)),
         reply' = [ok |-> TRUE, bytes |-> SubSeq(UnreadOf(ch), 1, size)],
         UnreadOf(ch)' = SubSeq(UnreadOf(ch), size + 1, Len(UnreadOf(ch))),
         \A c \in Channels : c # ch => UnreadOf(c)' = UnreadOf(c)
  PROVE  Stream!Next
<1>1. Streaming' = [Streaming EXCEPT ![ch] = SubSeq(@, size + 1, Len(@))]
  BY DEF Streaming
<1>2. Streaming[ch] = UnreadOf(ch)
  BY DEF Streaming
<1>3. Stream!Receive(ch, size)
  BY <1>1, <1>2 DEF Stream!Receive, Streaming
<1>4. QED
  BY <1>3 DEF Stream!Next

(* ... and so is one that returns nothing when not enough is ready.        *)
LEMMA RefusedStream ==
  ASSUME NEW ch \in Channels, NEW size \in Sizes, msgs' = msgs, reply' = NoReply,
         \A c \in Channels : UnreadOf(c)' = UnreadOf(c),
         size = 0 \/ ~Stream!Ready(UnreadOf(ch), size)
  PROVE  Stream!Next
<1>1. Streaming' = Streaming /\ Streaming[ch] = UnreadOf(ch)
  BY DEF Streaming
<1>2. Stream!Receive(ch, size)
  BY <1>1 DEF Stream!Receive, Stream!NoReply, NoReply, Streaming
<1>3. QED
  BY <1>2 DEF Stream!Next

(* No channel has unread bytes at the start.                               *)
LEMMA StreamInit == Init => Stream!Init
<1> SUFFICES ASSUME Init
             PROVE  Stream!Init
  OBVIOUS
<1>1. ASSUME NEW c \in Channels
      PROVE  UnreadOf(c) = <<>>
  <2>1. entries = <<>> /\ DOMAIN entries = {}
    BY DEF Init
  <2>2. PICK ss \in Seq(Seq(Byte)) : ss = Parts(entries, mem, c) /\ ss = <<>>
    <3>1. Parts(entries, mem, c) = <<>>
      BY <2>1 DEF Parts
    <3>2. <<>> \in Seq(Seq(Byte))
      OBVIOUS
    <3>3. QED
      BY <3>1, <3>2
  <2>3. FlattenSeq(ss) = ss
    <3>1. Len(ss) = 0
      BY <2>2
    <3>2. QED
      BY <3>1 DEF FlattenSeq
  <2>4. QED
    BY <2>2, <2>3, UnreadIsParts
<1>2. Streaming = [c \in Channels |-> <<>>]
  BY <1>1 DEF Streaming
<1>3. QED
  BY <1>2 DEF Stream!Init, Stream!NoReply, NoReply, Streaming, Init

(* Every step of the ports is a step of the streams, or stutters, or is    *)
(* the one left out, or goes beyond the end of a page.                     *)
LEMMA StreamNext ==
  Types /\ Buffers /\ [Next]_vars
    => [Stream!Next \/ OutOfStep \/ beyond' # 0]_(Stream!vars)
<1> SUFFICES ASSUME Types, Buffers, [Next]_vars, beyond' = 0
             PROVE  Stream!Next \/ OutOfStep \/ UNCHANGED Stream!vars
  OBVIOUS
<1>1. CASE UNCHANGED vars
  <2>1. UNCHANGED <<entries, mem, msgs, reply>>
    BY <1>1 DEF vars
  <2>2. \A c \in Channels : UnreadOf(c)' = UnreadOf(c)
    BY <2>1, UnreadIsParts
  <2>3. Streaming' = Streaming
    BY <2>2 DEF Streaming
  <2>4. QED
    BY <2>1, <2>3 DEF Stream!vars, Streaming
<1>2. CASE Next
  <2>1. beyond = 0 /\ WithinPage'
    BY <1>2 DEF Next, Types
  <2>2. PICK list \in Seq(Entry) : list = entries
    BY DEF Types
  <2>types. Types'
    BY TypesNext
  <2>memory. PICK m2 : m2 = mem' /\ Bytewise(m2)
    BY <2>types DEF Types, Bytewise
  <2>3. PICK new \in Seq(Entry) : new = entries' /\ m2 = mem' /\ Bytewise(m2)
    BY <2>types, <2>memory DEF Types
  <2>4. PICK k \in Nat : k = kvirt
    BY DEF Types
  <2>5. PICK m : m = mem /\ Bytewise(m)
    BY DEF Types, Bytewise
  <2>6. PICK ms \in [Channels -> Nat] : ms = msgs
    BY DEF Types
  <2>7. InPages(list) /\ Paged(list, k) /\ Stored(list, m, ms) /\ Whole(list, m) /\ k # Null
    <3>1. InPages(list) /\ Paged(list, k) /\ Stored(list, m, ms) /\ Whole(list, m)
      BY <2>1, <2>2, <2>4, <2>5, <2>6 DEF Buffers
    <3>2. QED
      BY <3>1, SizeIsNat DEF Paged, Null
  <2>8. InPages(new)
    BY <2>1, <2>3 DEF InPages, WithinPage, End
  <2>9. \A c \in Channels : /\ UnreadOf(c) = StreamIn(list, m, c)
                            /\ UnreadOf(c)' = StreamIn(new, m2, c)
    BY <2>2, <2>3, <2>5, UnreadIsParts DEF StreamIn
  <2>10. ASSUME NEW ch \in Channels, NEW size \in Sizes, send(ch, size)
         PROVE  Stream!Next
    <3>1. size \in Nat /\ ms[ch] + 1 \in Nat
      BY SizeIsNat
    <3>2. msgs' = [msgs EXCEPT ![ch] = @ + 1] /\ reply' = NoReply
      BY <2>10, SendStep DEF send
    <3>3. CASE UNCHANGED <<entries, mem, kvirt, kobjs>>
      <4>1. \A c \in Channels : UnreadOf(c)' = UnreadOf(c)
        BY <3>3, UnreadIsParts
      <4>2. QED
        BY <3>2, <4>1, SendStream
    <3>4. CASE Begins(ch, size)
      <4>1. mem' = Written(k, Message(ch, ms[ch] + 1, size))
        BY <2>4, <2>6, <3>4 DEF Begins
      <4>2. m2 = Copied(m, ch, ms[ch] + 1, size, k)
        BY <2>3, <2>5, <2>7, <3>1, <4>1, WrittenIsCopied
      <4>3. new = list \/ new = OneMore(list, ch, size, k)
        BY <2>2, <2>3, <2>4, <3>4 DEF Begins, OneMore
      <4>4. Clear(list, k, size)
        BY <2>7, <2>8, <3>1, <4>3, BeginsKeeps
      <4>5. Bytewise(Copied(m, ch, ms[ch] + 1, size, k))
        BY <2>3, <4>2
      <4>6. CASE new = list
        <5>1. ASSUME NEW c \in Channels
              PROVE  UnreadOf(c)' = UnreadOf(c)
          <6>1. StreamIn(list, Copied(m, ch, ms[ch] + 1, size, k), c) = StreamIn(list, m, c)
            BY <2>5, <2>7, <3>1, <4>4, <4>5, LostStream
          <6>2. QED
            BY <2>9, <4>2, <4>6, <6>1
        <5>2. QED
          BY <3>2, <5>1, SendStream
      <4>7. CASE new = OneMore(list, ch, size, k)
        <5>1. ASSUME NEW c \in Channels
              PROVE  UnreadOf(c)'
                       = IF c = ch THEN Cat(UnreadOf(c), Message(ch, msgs[ch] + 1, size))
                         ELSE UnreadOf(c)
          <6>1. StreamIn(OneMore(list, ch, size, k), Copied(m, ch, ms[ch] + 1, size, k), c)
                  = IF c = ch THEN Cat(StreamIn(list, m, c), Message(ch, ms[ch] + 1, size))
                    ELSE StreamIn(list, m, c)
            BY <2>5, <2>7, <3>1, <4>4, <4>5, BeginStream
          <6>2. QED
            BY <2>6, <2>9, <4>2, <4>7, <6>1
        <5>2. QED
          BY <3>2, <5>1, SendStream
      <4>8. QED
        BY <4>3, <4>6, <4>7
    <3>5. CASE \E l \in 1 .. Len(entries) : Appends(ch, size, l)
      <4>1. PICK l \in 1 .. Len(list) : Appends(ch, size, l)
        BY <2>2, <3>5
      <4>2. PICK a \in Nat : a = list[l].addr + End(list[l])
        BY EntryNumbers
      <4>3. list[l].ch = ch /\ \A i \in 1 .. Len(list) : i > l => list[i].ch # ch
        BY <2>2, <4>1 DEF Appends
      <4>4. new = Longer(list, l, size)
        BY <2>2, <2>3, <4>1 DEF Appends, Longer
      <4>5. mem' = Written(a, Message(ch, ms[ch] + 1, size))
        BY <2>2, <2>6, <4>1, <4>2 DEF Appends
      <4>6. a # Null
        <5>1. PICK b \in Nat : b = list[l].addr
          <6>1. PICK e \in Entry : e = list[l]
            OBVIOUS
          <6>2. QED
            BY <6>1, EntryTypes
        <5>2. PICK n \in Nat : n = End(list[l])
          <6>1. PICK e \in Entry : e = list[l]
            OBVIOUS
          <6>2. QED
            BY <6>1, EntryTypes
        <5>3. PageSize <= b
          BY <2>7, <5>1 DEF Paged
        <5>4. QED
          BY <4>2, <5>1, <5>2, <5>3, SizeIsNat DEF Null
      <4>7. m2 = Copied(m, ch, ms[ch] + 1, size, a)
        BY <2>3, <2>5, <3>1, <4>5, <4>6, WrittenIsCopied
      <4>8. Clear(list, a, size)
        <5>1. Clear(list, list[l].addr + End(list[l]), size)
          BY <2>7, <2>8, <3>1, <4>3, <4>4, AppendsKeeps
        <5>2. QED
          BY <4>2, <5>1
      <4>9. Bytewise(Copied(m, ch, ms[ch] + 1, size, a))
        BY <2>3, <4>7
      <4>10. ASSUME NEW c \in Channels
             PROVE  UnreadOf(c)'
                      = IF c = ch THEN Cat(UnreadOf(c), Message(ch, msgs[ch] + 1, size))
                        ELSE UnreadOf(c)
        <5>1. StreamIn(Longer(list, l, size), Copied(m, ch, ms[ch] + 1, size, a), c)
                = IF c = ch THEN Cat(StreamIn(list, m, c), Message(ch, ms[ch] + 1, size))
                  ELSE StreamIn(list, m, c)
          BY <2>5, <2>7, <3>1, <4>2, <4>3, <4>8, <4>9, AppendStream
        <5>2. QED
          BY <2>6, <2>9, <4>4, <4>7, <5>1
      <4>11. QED
        BY <3>2, <4>10, SendStream
    <3>6. QED
      BY <2>10, <3>3, <3>4, <3>5, SendStep
  <2>11. ASSUME NEW ch \in Channels, NEW size \in Sizes, receive(ch, size)
         PROVE  Stream!Next \/ OutOfStep
    <3>1. m2 = m /\ msgs' = msgs /\ size \in Nat
      BY <2>3, <2>5, <2>11, ReceiveStep, SizeIsNat
    <3>2. ASSUME size # 0, Stream!Ready(UnreadOf(ch), size)
          PROVE  \E f \in 1 .. Len(list) : FirstUnread(list, ch, f) /\ size <= list[f].size
      <4>1. Stream!Ready(StreamIn(list, m, ch), size)
        BY <2>9, <3>2
      <4>2. QED
        BY <2>5, <2>7, <3>1, <3>2, <4>1, ReadyFront
    <3>3. CASE /\ reply' = NoReply /\ entries' = entries /\ kvirt' = kvirt
               /\ \A j \in 1 .. Len(entries) :
                    entries[j].ch = ch => ~(size <= entries[j].size)
      <4>1. \A c \in Channels : UnreadOf(c)' = UnreadOf(c)
        BY <2>2, <2>3, <2>9, <3>1, <3>3
      <4>2. size = 0 \/ ~Stream!Ready(UnreadOf(ch), size)
        BY <2>2, <3>2, <3>3 DEF FirstUnread
      <4>3. Stream!Next
        BY <3>1, <3>3, <4>1, <4>2, RefusedStream
      <4>4. QED
        BY <4>3
    <3>4. CASE \E i \in 1 .. Len(entries) : Takes(ch, size, i)
      <4>1. PICK i \in 1 .. Len(list) : Takes(ch, size, i)
        BY <2>2, <3>4
      <4>2. /\ list[i].ch = ch /\ size <= list[i].size
            /\ \A j \in 1 .. Len(list) : list[j].ch = ch /\ size <= list[j].size => i <= j
            /\ reply' = [ok |-> TRUE, bytes |-> Bytes(list[i].addr + list[i].off, size)]
            /\ new = Shorter(list, i, size)
        BY <2>2, <2>3, <4>1 DEF Takes, Shorter
      <4>3. list[i].off + size < PageSize
        BY <2>7, <3>1, <4>2, TakesKeeps
      <4>4. CASE FirstUnread(list, ch, i)
        <5>1. TakesFront(list, new, m, ch, i, size)
          <6>1. TakesFront(list, Shorter(list, i, size), m, ch, i, size)
            BY <2>5, <2>7, <3>1, <4>2, <4>3, <4>4, TakeStream
          <6>2. QED
            BY <4>2, <6>1
        <5>2. Bytes(list[i].addr + list[i].off, size)
                = BytesOf(m, list[i].addr + list[i].off, size)
          BY <2>5 DEF Bytes, BytesOf
        <5>3. /\ size <= Len(UnreadOf(ch))
              /\ reply' = [ok |-> TRUE, bytes |-> SubSeq(UnreadOf(ch), 1, size)]
              /\ UnreadOf(ch)' = SubSeq(UnreadOf(ch), size + 1, Len(UnreadOf(ch)))
              /\ \A c \in Channels : c # ch => UnreadOf(c)' = UnreadOf(c)
          BY <2>9, <3>1, <4>2, <5>1, <5>2 DEF TakesFront
        <5>4. Stream!Next
          BY <3>1, <5>3, ReceiveStream
        <5>5. QED
          BY <5>4
      <4>5. CASE ~FirstUnread(list, ch, i)
        <5>1. PICK j \in 1 .. Len(list) : j < i /\ list[j].ch = ch /\ list[j].size # 0
          BY <4>2, <4>5 DEF FirstUnread
        <5>2. list[j].size \in Nat
          BY EntryTypes
        <5>3. size # 0
          <6>1. i \in Nat /\ j \in Nat /\ ~(i <= j)
            BY <5>1
          <6>2. ~(size <= list[j].size)
            BY <4>2, <5>1, <6>1
          <6>3. QED
            BY <5>2, <6>2
        <5>4. ~Stream!Ready(UnreadOf(ch), size)
          <6>1. ASSUME NEW f \in 1 .. Len(list), FirstUnread(list, ch, f), size <= list[f].size
                PROVE  FALSE
            <7>1. list[f].ch = ch /\ i <= f
              BY <4>2, <6>1 DEF FirstUnread
            <7>2. j < f
              BY <5>1, <7>1
            <7>3. QED
              BY <5>1, <6>1, <7>2 DEF FirstUnread
          <6>2. QED
            BY <3>2, <5>3, <6>1
        <5>5. StreamIn(list, m, ch) # <<>>
          BY <2>5, <2>7, <5>1, SomeUnread
        <5>6. UnreadOf(ch) # <<>>
          BY <2>9, <5>5
        <5>7. OutOfStep
          BY <2>11, <5>4, <5>6 DEF OutOfStep
        <5>8. QED
          BY <5>7
      <4>6. QED
        BY <4>4, <4>5
    <3>5. QED
      BY <2>11, <3>3, <3>4, ReceiveStep
  <2>12. QED
    BY <1>2, <2>10, <2>11 DEF Next
<1>3. QED
  BY <1>1, <1>2

(* The ports implement the streams of Streams.tla while data stays within  *)
(* pages: no send or receive reorders, repeats or mixes the bytes of a     *)
(* channel, nor loses part of a message.  The one step left out is that of *)
(* a receiver that asks for more bytes than the message in front has left; *)
(* the steps after it are not.                                             *)
THEOREM StreamsKept == Spec => ImplementsStream
<1>1. Spec => Stream!Init
  BY StreamInit DEF Spec
<1>2. IInv /\ [Next]_vars => [Stream!Next \/ OutOfStep \/ beyond' # 0]_(Stream!vars)
  BY StreamNext DEF IInv
<1>3. QED
  BY <1>1, <1>2, Invariant, PTL DEF Spec, ImplementsStream
=============================================================================
