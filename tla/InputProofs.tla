---------------------------- MODULE InputProofs ----------------------------
(***************************************************************************)
(* Theorems about the keyboard ring and about what comes through it.       *)
(*                                                                         *)
(* The ring keeps its types and implements the bounded queue of KeyFifo,   *)
(* for a ring of any size.  On top of that queue every key typed arrives   *)
(* once and in order, the buttons and the pointer are what the packets     *)
(* say, and a letter carries the shift it was typed with, for any keys,    *)
(* packets and buffers: until bytes are mixed up.                          *)
(***************************************************************************)
EXTENDS Input, FiniteSetTheorems, WellFoundedInduction, SequenceTheorems, TLAPS

(***************************************************************************)
(* Numbers and sequences.                                                  *)
(***************************************************************************)

(* A set of numbers has a least one.  The initial segments below its       *)
(* members are finite sets, which strict inclusion orders well: this is    *)
(* where every induction below comes from.                                 *)
LEMMA LeastNumber ==
  ASSUME NEW T \in SUBSET Nat, T # {}
  PROVE  \E x \in T : \A y \in T : x <= y
<1> DEFINE TT == {0 .. n : n \in T}
<1>1. TT \subseteq FiniteSubsetsOf(Nat) /\ TT # {}
  <2>1. \A n \in T : IsFiniteSet(0 .. n)
    BY FS_Interval
  <2>2. TT \subseteq FiniteSubsetsOf(Nat)
    BY <2>1 DEF FiniteSubsetsOf
  <2>3. TT # {}
    OBVIOUS
  <2>4. QED
    BY <2>2, <2>3
<1> HIDE DEF TT
<1>2. PICK x \in TT : \A y \in TT : <<y, x>> \notin StrictSubsetOrdering(Nat)
  <2>1. IsWellFoundedOn(StrictSubsetOrdering(Nat), FiniteSubsetsOf(Nat))
    BY FS_StrictSubsetOrderingWellFounded
  <2>2. QED
    BY <1>1, <2>1, WFMin, Zenon
<1>3. PICK n \in T : x = 0 .. n
  BY DEF TT
<1>4. ASSUME NEW m \in T, m < n
      PROVE  FALSE
  <2>1. 0 .. m \in TT
    BY DEF TT
  <2>2. /\ 0 .. m \in SUBSET Nat /\ 0 .. n \in SUBSET Nat
        /\ 0 .. m \subseteq 0 .. n
    BY <1>4
  <2>3. n \in 0 .. n /\ n \notin 0 .. m
    BY <1>4
  <2>4. <<0 .. m, 0 .. n>> \in StrictSubsetOrdering(Nat)
    BY <2>2, <2>3, Zenon DEF StrictSubsetOrdering
  <2>5. QED
    BY <1>2, <1>3, <2>1, <2>4
<1>5. QED
  BY <1>4

(* Induction: what holds of 0 and of each next number holds of all.        *)
LEMMA Upwards ==
  ASSUME NEW N \in Nat, NEW G, 0 \in G, \A m \in 1 .. N : m - 1 \in G => m \in G
  PROVE  \A m \in 0 .. N : m \in G
<1> DEFINE T == {m \in 0 .. N : m \notin G}
<1>1. CASE T = {}
  BY <1>1
<1>2. CASE T # {}
  <2>1. T \in SUBSET Nat
    OBVIOUS
  <2>2. PICK m \in T : \A k \in T : m <= k
    BY <1>2, <2>1, LeastNumber
  <2>3. m \in 1 .. N /\ m - 1 \in 0 .. N /\ ~(m <= m - 1)
    BY <2>2
  <2>4. m - 1 \in G
    BY <2>2, <2>3
  <2>5. QED
    BY <2>2, <2>3, <2>4
<1>3. QED
  BY <1>1, <1>2

(* The first n elements of a sequence and the rest, which make it up.      *)
LEMMA Split ==
  ASSUME NEW T, NEW s \in Seq(T), NEW n \in 0 .. Len(s)
  PROVE  /\ SubSeq(s, 1, n) \in Seq(T) /\ Len(SubSeq(s, 1, n)) = n
         /\ \A i \in 1 .. n : SubSeq(s, 1, n)[i] = s[i]
         /\ SubSeq(s, n + 1, Len(s)) \in Seq(T) /\ Len(SubSeq(s, n + 1, Len(s))) = Len(s) - n
         /\ \A i \in 1 .. Len(s) - n : SubSeq(s, n + 1, Len(s))[i] = s[n + i]
         /\ s = SubSeq(s, 1, n) \o SubSeq(s, n + 1, Len(s))
<1>1. PICK N \in Nat : N = Len(s)
  BY LenProperties
<1>2. \A i \in 1 .. N : s[i] \in T
  BY <1>1, ElementOfSeq
<1>3. n \in Int /\ n + 1 \in Int /\ N \in Int /\ 1 \in Int /\ n <= N /\ n >= 0
  BY <1>1
<1>4. /\ SubSeq(s, 1, n) \in Seq(T) /\ Len(SubSeq(s, 1, n)) = n
      /\ \A i \in 1 .. n : SubSeq(s, 1, n)[i] = s[i]
  <2>1. \A i \in 1 .. n : s[i] \in T
    BY <1>2, <1>3
  <2>2. QED
    BY <1>3, <2>1, SubSeqProperties
<1>5. PICK r : r = SubSeq(s, n + 1, N)
  OBVIOUS
<1>51. /\ r \in Seq(T)
       /\ Len(r) = IF n + 1 <= N THEN N - (n + 1) + 1 ELSE 0
       /\ \A i \in 1 .. N - (n + 1) + 1 : r[i] = s[(n + 1) + i - 1]
  <2>1. \A i \in n + 1 .. N : s[i] \in T
    BY <1>2, <1>3
  <2>2. QED
    BY <1>3, <1>5, <2>1, SubSeqProperties
<1>6. SubSeq(s, 1, n) \o SubSeq(s, n + 1, N) = SubSeq(s, 1, N)
  <2>1. 1 \in 1 .. Len(s) + 1 /\ n \in 1 - 1 .. Len(s) /\ N \in n .. Len(s)
    BY <1>1, <1>3
  <2>2. QED
    BY <2>1, ConcatAdjacentSubSeq, Zenon
<1>7. SubSeq(s, 1, N) = s
  BY <1>1, SubSeqFull
<1>71. Len(r) = N - n
  BY <1>3, <1>51
<1>8. ASSUME NEW i \in 1 .. N - n
      PROVE  r[i] = s[n + i]
  <2>1. N - (n + 1) + 1 = N - n /\ (n + 1) + i - 1 = n + i
    BY <1>3
  <2>2. r[i] = s[(n + 1) + i - 1]
    BY <1>51, <2>1, Zenon
  <2>3. QED
    BY <2>1, <2>2, Zenon
<1>9. QED
  BY <1>1, <1>4, <1>5, <1>51, <1>6, <1>7, <1>71, <1>8

(* Three sequences of bytes are joined in either order.                    *)
LEMMA Regroup ==
  \A x, y, z \in Seq(Bytes) : (x \o y) \o z = x \o (y \o z)
BY ConcatAssociative, SMTT(60)

(* One more element at the end of the second of two sequences.             *)
LEMMA CatAppend ==
  ASSUME NEW T, NEW x \in Seq(T), NEW y \in Seq(T), NEW e \in T
  PROVE  x \o Append(y, e) = Append(x \o y, e)
<1>1. <<e>> \in Seq(T) /\ x \o y \in Seq(T)
  BY ConcatProperties
<1>2. Append(y, e) = y \o <<e>> /\ Append(x \o y, e) = (x \o y) \o <<e>>
  BY <1>1, AppendIsConcat
<1>3. (x \o y) \o <<e>> = x \o (y \o <<e>>)
  BY <1>1, ConcatAssociative
<1>4. QED
  BY <1>2, <1>3

(* The first n elements are the first n - 1 and one more.                  *)
LEMMA OneMore ==
  ASSUME NEW T, NEW s \in Seq(T), NEW n \in 1 .. Len(s)
  PROVE  SubSeq(s, 1, n) = Append(SubSeq(s, 1, n - 1), s[n])
<1>1. Len(s) \in Nat /\ 1 \in 1 .. Len(s) /\ n \in 1 .. Len(s) /\ n - 1 \in 0 .. Len(s)
  BY LenProperties
<1>2. SubSeq(s, 1, n) = SubSeq(s, 1, n - 1) \o <<s[n]>>
  BY <1>1, SubSeqRecursiveSecond, Zenon
<1>3. SubSeq(s, 1, n - 1) \in Seq(T) /\ s[n] \in T
  BY <1>1, Split, ElementOfSeq
<1>4. QED
  BY <1>2, <1>3, AppendIsConcat

(***************************************************************************)
(* The elements of a sequence that are in a set.                           *)
(***************************************************************************)

(* What the recursion of Only says.                                        *)
Picked(s, S, t) ==
  /\ t[0] = <<>>
  /\ \A i \in 1 .. Len(s) : t[i] = IF s[i] \in S THEN Append(t[i - 1], s[i]) ELSE t[i - 1]

(* Only is computed element by element.                                    *)
LEMMA OnlyIs ==
  ASSUME NEW s, NEW S, Len(s) \in Nat
  PROVE  \E t : /\ Picked(s, S, t) /\ Only(s, S) = t[Len(s)]
                /\ \A i \in 0 .. Len(s) : t[i] \in Seq(S)
<1> DEFINE Step(g, l) == IF l = 0 THEN <<>>
                         ELSE IF s[l] \in S THEN Append(g[l - 1], s[l]) ELSE g[l - 1]
<1> DEFINE G == {m \in 0 .. Len(s) : \E g : g = [l \in 0 .. m |-> Step(g, l)]}
<1>0. Len(s) \in Nat
  OBVIOUS
<1>1. 0 \in G
  <2> DEFINE g == [l \in 0 .. 0 |-> <<>>]
  <2>1. \A l \in 0 .. 0 : l = 0
    OBVIOUS
  <2>2. g = [l \in 0 .. 0 |-> Step(g, l)]
    BY <2>1
  <2>3. \E e : e = [l \in 0 .. 0 |-> Step(e, l)]
    BY <2>2
  <2>4. QED
    BY <1>0, <2>3
<1>2. ASSUME NEW m \in 1 .. Len(s), m - 1 \in G
      PROVE  m \in G
  <2>1. PICK g : g = [l \in 0 .. m - 1 |-> Step(g, l)]
    BY <1>2
  <2> DEFINE h == [l \in 0 .. m |-> IF l = m THEN Step(g, m) ELSE g[l]]
  <2>2. ASSUME NEW l \in 0 .. m
        PROVE  h[l] = Step(h, l)
    <3>1. m # 0 /\ m - 1 \in 0 .. m /\ m - 1 # m
      OBVIOUS
    <3>2. CASE l = m
      <4>1. h[m - 1] = g[m - 1]
        BY <3>1
      <4>2. QED
        BY <3>1, <3>2, <4>1
    <3>3. CASE l # m
      <4>1. l \in 0 .. m - 1 /\ h[l] = g[l]
        BY <3>3
      <4>2. g[l] = Step(g, l)
        BY <2>1, <4>1
      <4>3. CASE l = 0
        BY <4>1, <4>2, <4>3
      <4>4. CASE l # 0
        <5>1. l - 1 \in 0 .. m /\ l - 1 # m
          BY <4>1, <4>4
        <5>2. h[l - 1] = g[l - 1]
          BY <5>1
        <5>3. QED
          BY <4>1, <4>2, <4>4, <5>2
      <4>5. QED
        BY <4>3, <4>4
    <3>4. QED
      BY <3>2, <3>3
  <2>3. h = [l \in 0 .. m |-> Step(h, l)]
    BY <2>2
  <2>4. \E e : e = [l \in 0 .. m |-> Step(e, l)]
    BY <2>3
  <2>5. m \in 0 .. Len(s)
    BY <1>0
  <2>6. QED
    BY <2>4, <2>5, Zenon
<1>3. Len(s) \in G
  <2> HIDE DEF G
  <2>1. \A m \in 0 .. Len(s) : m \in G
    BY <1>0, <1>1, <1>2, Upwards, Zenon
  <2>2. QED
    BY <1>0, <2>1
<1>4. \E g : g = [l \in 0 .. Len(s) |-> Step(g, l)]
  BY <1>3
<1>5. PICK t : t = [l \in 0 .. Len(s) |-> Step(t, l)] /\ Only(s, S) = t[Len(s)]
  BY <1>4 DEF Only
<1>6. \A l \in 0 .. Len(s) : t[l] = Step(t, l)
  BY <1>5
<1>7. 0 \in 0 .. Len(s) /\ \A l \in 1 .. Len(s) : l \in 0 .. Len(s) /\ l # 0
  BY <1>0
<1>8. Picked(s, S, t)
  BY <1>6, <1>7 DEF Picked
<1> DEFINE H == {m \in 0 .. Len(s) : t[m] \in Seq(S)}
<1>9. 0 \in H
  <2>1. t[0] = <<>> /\ <<>> \in Seq(S)
    BY <1>8, EmptySeq DEF Picked
  <2>2. QED
    BY <1>7, <2>1
<1>10. ASSUME NEW m \in 1 .. Len(s), m - 1 \in H
       PROVE  m \in H
  <2>1. t[m] = IF s[m] \in S THEN Append(t[m - 1], s[m]) ELSE t[m - 1]
    BY <1>8 DEF Picked
  <2>2. t[m - 1] \in Seq(S)
    BY <1>10
  <2>3. CASE s[m] \in S
    <3>1. Append(t[m - 1], s[m]) \in Seq(S)
      BY <2>2, <2>3, AppendProperties
    <3>2. QED
      BY <1>7, <2>1, <2>3, <3>1
  <2>4. CASE s[m] \notin S
    BY <1>7, <2>1, <2>2, <2>4
  <2>5. QED
    BY <2>3, <2>4
<1>11. \A m \in 0 .. Len(s) : m \in H
  <2> HIDE DEF H
  <2>1. QED
    BY <1>0, <1>9, <1>10, Upwards, Zenon
<1>12. QED
  BY <1>5, <1>8, <1>11

(* Any function with that recursion gives the same.                        *)
LEMMA OnlyFrom ==
  ASSUME NEW s, NEW S, Len(s) \in Nat, NEW u, Picked(s, S, u)
  PROVE  Only(s, S) = u[Len(s)]
<1>1. PICK t : Picked(s, S, t) /\ Only(s, S) = t[Len(s)]
  BY OnlyIs
<1> DEFINE G == {m \in 0 .. Len(s) : t[m] = u[m]}
<1>2. Len(s) \in Nat /\ 0 \in G
  BY <1>1 DEF Picked
<1>3. ASSUME NEW m \in 1 .. Len(s), m - 1 \in G
      PROVE  m \in G
  <2>1. t[m] = IF s[m] \in S THEN Append(t[m - 1], s[m]) ELSE t[m - 1]
    BY <1>1 DEF Picked
  <2>2. u[m] = IF s[m] \in S THEN Append(u[m - 1], s[m]) ELSE u[m - 1]
    BY DEF Picked
  <2>3. t[m - 1] = u[m - 1] /\ m \in 0 .. Len(s)
    BY <1>3
  <2>4. QED
    BY <2>1, <2>2, <2>3
<1>4. \A m \in 0 .. Len(s) : m \in G
  <2> HIDE DEF G
  <2>1. QED
    BY <1>2, <1>3, Upwards, Zenon
<1>5. QED
  BY <1>1, <1>2, <1>4

(* Only gives a sequence over the set.                                     *)
LEMMA OnlyType ==
  ASSUME NEW T, NEW S, NEW s \in Seq(T)
  PROVE  Only(s, S) \in Seq(S)
<1>1. Len(s) \in Nat
  BY LenProperties
<1>2. PICK t : Only(s, S) = t[Len(s)] /\ \A i \in 0 .. Len(s) : t[i] \in Seq(S)
  BY <1>1, OnlyIs
<1>3. QED
  BY <1>1, <1>2

(* Only of two sequences together.                                         *)
LEMMA OnlyCat ==
  ASSUME NEW T, NEW S, NEW s \in Seq(T), NEW r \in Seq(T)
  PROVE  Only(s \o r, S) = Only(s, S) \o Only(r, S)
<1>1. PICK n \in Nat : n = Len(s)
  BY LenProperties
<1>2. PICK m \in Nat : m = Len(r)
  BY LenProperties
<1>3. PICK t : /\ Picked(s, S, t) /\ Only(s, S) = t[n]
               /\ \A i \in 0 .. n : t[i] \in Seq(S)
  BY <1>1, OnlyIs
<1>4. PICK v : /\ Picked(r, S, v) /\ Only(r, S) = v[m]
               /\ \A i \in 0 .. m : v[i] \in Seq(S)
  BY <1>2, OnlyIs
<1>5. PICK u : u = [i \in 0 .. n + m |-> IF i <= n THEN t[i] ELSE t[n] \o v[i - n]]
  OBVIOUS
<1>6. /\ Len(s \o r) = n + m /\ n + m \in Nat
      /\ \A i \in 1 .. n + m : (s \o r)[i] = IF i <= n THEN s[i] ELSE r[i - n]
  BY <1>1, <1>2, ConcatProperties
<1>7. u[0] = <<>>
  BY <1>3, <1>5 DEF Picked
<1>8. ASSUME NEW i \in 1 .. n + m
      PROVE  u[i] = IF (s \o r)[i] \in S THEN Append(u[i - 1], (s \o r)[i]) ELSE u[i - 1]
  <2>1. i \in 0 .. n + m /\ i - 1 \in 0 .. n + m
    OBVIOUS
  <2>2. CASE i <= n
    <3>1. i \in 1 .. n /\ i - 1 <= n /\ (s \o r)[i] = s[i]
      BY <1>6, <2>2
    <3>2. u[i] = t[i] /\ u[i - 1] = t[i - 1]
      BY <1>5, <2>1, <2>2, <3>1
    <3>3. t[i] = IF s[i] \in S THEN Append(t[i - 1], s[i]) ELSE t[i - 1]
      BY <1>1, <1>3, <3>1 DEF Picked
    <3>4. QED
      BY <3>1, <3>2, <3>3
  <2>3. CASE ~(i <= n)
    <3>1. PICK k : k = i - n
      OBVIOUS
    <3>2. k \in 1 .. m /\ k - 1 \in 0 .. m /\ n \in 0 .. n /\ (s \o r)[i] = r[k] /\ i - 1 - n = k - 1
      BY <1>6, <2>3, <3>1
    <3>3. u[i] = t[n] \o v[k]
      BY <1>5, <2>1, <2>3, <3>1
    <3>4. u[i - 1] = t[n] \o v[k - 1]
      <4>1. CASE i - 1 <= n
        <5>1. i - 1 = n /\ k - 1 = 0 /\ v[0] = <<>>
          BY <1>4, <2>3, <3>1, <4>1 DEF Picked
        <5>2. t[n] \in Seq(S)
          BY <1>3, <3>2
        <5>3. t[n] \o <<>> = t[n]
          BY <5>2, ConcatEmptySeq
        <5>4. u[i - 1] = t[n]
          BY <1>5, <2>1, <5>1
        <5>5. QED
          BY <5>1, <5>3, <5>4
      <4>2. CASE ~(i - 1 <= n)
        BY <1>5, <2>1, <3>2, <4>2
      <4>3. QED
        BY <4>1, <4>2
    <3>5. v[k] = IF r[k] \in S THEN Append(v[k - 1], r[k]) ELSE v[k - 1]
      BY <1>2, <1>4, <3>2 DEF Picked
    <3>6. t[n] \in Seq(S) /\ v[k - 1] \in Seq(S)
      BY <1>3, <1>4, <3>2
    <3>7. CASE r[k] \in S
      <4>1. PICK x \in Seq(S) : x = t[n]
        BY <3>6
      <4>2. PICK y \in Seq(S) : y = v[k - 1]
        BY <3>6
      <4>3. PICK e \in S : e = r[k]
        BY <3>7
      <4>4. x \o Append(y, e) = Append(x \o y, e)
        BY CatAppend
      <4>5. v[k] = Append(y, e)
        BY <3>5, <3>7, <4>2, <4>3, Zenon
      <4>6. u[i] = Append(u[i - 1], e)
        BY <3>3, <3>4, <4>1, <4>2, <4>4, <4>5, Zenon
      <4>7. (s \o r)[i] = e
        BY <3>2, <4>3, Zenon
      <4>8. QED
        BY <4>6, <4>7, Zenon
    <3>8. CASE r[k] \notin S
      BY <3>2, <3>3, <3>4, <3>5, <3>8
    <3>9. QED
      BY <3>7, <3>8
  <2>4. QED
    BY <2>2, <2>3
<1>9. Picked(s \o r, S, u)
  BY <1>6, <1>7, <1>8 DEF Picked
<1>10. Only(s \o r, S) = u[n + m]
  <2>1. Len(s \o r) \in Nat
    BY <1>6
  <2>2. QED
    BY <1>6, <1>9, <2>1, OnlyFrom
<1>11. u[n + m] = t[n] \o v[m]
  <2>1. n + m \in 0 .. n + m
    OBVIOUS
  <2>2. CASE m = 0
    <3>1. n + m = n /\ v[m] = <<>> /\ n + m <= n /\ n \in 0 .. n
      BY <1>4, <2>2 DEF Picked
    <3>2. u[n + m] = t[n]
      BY <1>5, <2>1, <3>1
    <3>3. t[n] \in Seq(S)
      BY <1>3, <3>1
    <3>4. QED
      BY <3>1, <3>2, <3>3, ConcatEmptySeq
  <2>3. CASE m # 0
    <3>1. ~(n + m <= n) /\ n + m - n = m
      BY <2>3
    <3>2. ASSUME NEW i \in 0 .. n + m, i = n + m
          PROVE  u[i] = t[n] \o v[m]
      <4>1. ~(i <= n) /\ i - n = m
        BY <2>3, <3>2
      <4>2. u[i] = t[n] \o v[i - n]
        BY <1>5, <4>1, Zenon
      <4>3. QED
        BY <4>1, <4>2, Zenon
    <3>3. QED
      BY <2>1, <3>2, Zenon
  <2>4. QED
    BY <2>2, <2>3
<1>12. QED
  BY <1>3, <1>4, <1>10, <1>11

(* Of a sequence over the set Only leaves out nothing.                     *)
LEMMA OnlyAll ==
  ASSUME NEW S, NEW s \in Seq(S)
  PROVE  Only(s, S) = s
<1>1. PICK n \in Nat : n = Len(s)
  BY LenProperties
<1>2. PICK u : u = [i \in 0 .. n |-> SubSeq(s, 1, i)]
  OBVIOUS
<1>3. u[0] = <<>>
  <2>1. 0 \in 0 .. n /\ 0 < 1 /\ 1 \in Int /\ 0 \in Int
    OBVIOUS
  <2>2. SubSeq(s, 1, 0) = <<>>
    BY <2>1, SubSeqEmpty, Zenon
  <2>3. QED
    BY <1>2, <2>1, <2>2
<1>4. ASSUME NEW i \in 1 .. n
      PROVE  u[i] = Append(u[i - 1], s[i]) /\ s[i] \in S
  <2>1. i \in 0 .. n /\ i - 1 \in 0 .. n
    OBVIOUS
  <2>2. SubSeq(s, 1, i) = Append(SubSeq(s, 1, i - 1), s[i])
    BY <1>1, OneMore
  <2>3. s[i] \in S
    BY <1>1, ElementOfSeq
  <2>4. QED
    BY <1>2, <2>1, <2>2, <2>3
<1>5. Picked(s, S, u)
  BY <1>1, <1>3, <1>4 DEF Picked
<1>6. Only(s, S) = u[n]
  BY <1>1, <1>5, OnlyFrom
<1>7. u[n] = s
  BY <1>1, <1>2, SubSeqFull
<1>8. QED
  BY <1>6, <1>7

(* Of a sequence with nothing of the set it leaves nothing.                *)
LEMMA OnlyNone ==
  ASSUME NEW T, NEW S, T \cap S = {}, NEW s \in Seq(T)
  PROVE  Only(s, S) = <<>>
<1>1. PICK n \in Nat : n = Len(s)
  BY LenProperties
<1>2. PICK u : u = [i \in 0 .. n |-> <<>>]
  OBVIOUS
<1>3. \A i \in 1 .. n : s[i] \notin S
  BY <1>1, ElementOfSeq
<1>4. Picked(s, S, u)
  BY <1>1, <1>2, <1>3 DEF Picked
<1>5. Only(s, S) = u[n]
  BY <1>1, <1>4, OnlyFrom
<1>6. QED
  BY <1>2, <1>5

(* Only of no element and of one.                                          *)
LEMMA OnlyOne ==
  ASSUME NEW S
  PROVE  /\ Only(<<>>, S) = <<>>
         /\ \A c : Only(<<c>>, S) = IF c \in S THEN <<c>> ELSE <<>>
<1>1. Only(<<>>, S) = <<>>
  <2>1. <<>> \in Seq({}) /\ {} \cap S = {}
    OBVIOUS
  <2>2. QED
    BY <2>1, OnlyNone, Zenon
<1>2. ASSUME NEW c, c \in S
      PROVE  Only(<<c>>, S) = <<c>>
  <2>1. <<c>> \in Seq(S)
    BY <1>2
  <2>2. QED
    BY <2>1, OnlyAll
<1>3. ASSUME NEW c, c \notin S
      PROVE  Only(<<c>>, S) = <<>>
  <2>1. <<c>> \in Seq({c}) /\ {c} \cap S = {}
    BY <1>3
  <2>2. QED
    BY <2>1, OnlyNone, Zenon
<1>4. QED
  BY <1>1, <1>2, <1>3

(* Only of a sequence that has one more element.                           *)
LEMMA OnlyAppend ==
  ASSUME NEW T, NEW S, NEW s \in Seq(T), NEW e \in T
  PROVE  Only(Append(s, e), S) = IF e \in S THEN Append(Only(s, S), e) ELSE Only(s, S)
<1>1. <<e>> \in Seq(T)
  OBVIOUS
<1>2. Append(s, e) = s \o <<e>>
  BY AppendIsConcat
<1>3. Only(Append(s, e), S) = Only(s, S) \o Only(<<e>>, S)
  BY <1>1, <1>2, OnlyCat
<1>4. Only(<<e>>, S) = IF e \in S THEN <<e>> ELSE <<>>
  BY OnlyOne
<1>5. Only(s, S) \in Seq(S)
  BY OnlyType
<1>6. CASE e \in S
  BY <1>3, <1>4, <1>5, <1>6, AppendIsConcat
<1>7. CASE e \notin S
  BY <1>3, <1>4, <1>5, <1>7, ConcatEmptySeq
<1>8. QED
  BY <1>6, <1>7

-----------------------------------------------------------------------------
(***************************************************************************)
(* The ring.                                                               *)
(***************************************************************************)

USE RingAssumption DEF RingAssumption

(* The index arithmetic stays inside the ring, and Used is a count that    *)
(* leaves the cell at the top spare.                                       *)
LEMMA Indices ==
  ASSUME NEW c \in Cells
  PROVE  /\ \A n \in 0 .. KEY_BUF_MAX_SIZE : Wrap(c + n) \in Cells
         /\ \A d \in Cells : Ahead(c, d) \in 0 .. KEY_BUF_MAX_SIZE - 1
BY DEF Cells, Wrap, Ahead

(* A window of the ring is a sequence of bytes, cell by cell.              *)
LEMMA WindowIsSeq ==
  ASSUME NEW ring \in [Cells -> Bytes], NEW c \in Cells,
         NEW n \in 0 .. KEY_BUF_MAX_SIZE
  PROVE  /\ Window(ring, c, n) \in Seq(Bytes)
         /\ Len(Window(ring, c, n)) = n
         /\ \A i \in 1 .. n : Window(ring, c, n)[i] = ring[Wrap(c + i - 1)]
<1>1. \A i \in 1 .. n : Wrap(c + i - 1) \in Cells
  BY DEF Cells, Wrap
<1>2. Window(ring, c, n) \in [1 .. n -> Bytes]
  BY <1>1 DEF Window
<1>3. QED
  BY <1>2, SeqDef DEF Window

(* A key, a read and a write keep the types, whatever the bytes.           *)
LEMMA KeyTypes ==
  ASSUME TypeOK, NEW k \in Bytes, key_int(k)
  PROVE  TypeOK'
<1>1. <<>> \in Seq(Bytes) /\ Used \in 0 .. KEY_BUF_MAX_SIZE - 1
  BY EmptySeq, Indices DEF TypeOK, Used
<1>2. QED
  BY <1>1 DEF TypeOK, key_int, NoReply, Cells, Wrap

(* Reading.                                                                *)
LEMMA ReadTypes ==
  ASSUME TypeOK, NEW size \in Nat, kb_read(size)
  PROVE  TypeOK'
<1> DEFINE n == Least(size, Used)
<1>1. Used \in 0 .. KEY_BUF_MAX_SIZE - 1
  BY Indices DEF TypeOK, Used
<1>2. n \in 0 .. KEY_BUF_MAX_SIZE - 1
  BY <1>1 DEF Least
<1>3. Window(key_buf, key_buf_bot, n) \in Seq(Bytes)
  BY <1>2, WindowIsSeq DEF TypeOK
<1>4. Wrap(key_buf_bot + n) \in Cells
  BY <1>2, Indices DEF TypeOK
<1>5. QED
  BY <1>2, <1>3, <1>4 DEF TypeOK, kb_read

(* Writing.                                                                *)
LEMMA WriteTypes ==
  ASSUME TypeOK, NEW buf \in Seq(Bytes), kb_write(buf)
  PROVE  TypeOK'
<1> DEFINE n == Least(Len(buf), KEY_BUF_MAX_SIZE - 1 - Used)
<1>0. <<>> \in Seq(Bytes) /\ Used \in 0 .. KEY_BUF_MAX_SIZE - 1
  BY EmptySeq, Indices DEF TypeOK, Used
<1>1. Len(buf) \in Nat
  BY LenProperties
<1>2. n \in 0 .. KEY_BUF_MAX_SIZE - 1 /\ n <= Len(buf)
  BY <1>0, <1>1 DEF Least
<1>3. ASSUME NEW c \in Cells, Ahead(key_buf_top, c) < n
      PROVE  buf[Ahead(key_buf_top, c) + 1] \in Bytes
  <2>1. Ahead(key_buf_top, c) \in 0 .. KEY_BUF_MAX_SIZE - 1
    BY Indices DEF TypeOK
  <2>2. Ahead(key_buf_top, c) + 1 \in 1 .. Len(buf)
    BY <1>1, <1>2, <1>3, <2>1
  <2>3. QED
    BY <1>1, <2>2, ElementOfSeq
<1>4. key_buf' \in [Cells -> Bytes]
  BY <1>3 DEF kb_write, TypeOK
<1>5. Wrap(key_buf_top + n) \in Cells
  BY <1>2, Indices DEF TypeOK
<1>6. QED
  BY <1>0, <1>2, <1>4, <1>5 DEF TypeOK, kb_write

(* The ring starts with its types.                                         *)
LEMMA RingInit == Init => TypeOK
BY EmptySeq DEF Init, TypeOK, NoReply, Cells

(* Type correctness: both indices stay on the ring and every cell and      *)
(* every byte returned is one that was stored.                             *)
THEOREM TypeCorrect == Spec => []TypeOK
<1>1. TypeOK /\ [Next]_vars => TypeOK'
  <2> SUFFICES ASSUME TypeOK, [Next]_vars
               PROVE  TypeOK'
    OBVIOUS
  <2>1. ASSUME NEW k \in Bytes, key_int(k)
        PROVE  TypeOK'
    BY <2>1, KeyTypes
  <2>2. ASSUME NEW size \in Sizes, kb_read(size)
        PROVE  TypeOK'
    BY <2>2, ReadTypes
  <2>3. ASSUME NEW buf \in Chunks, kb_write(buf)
        PROVE  TypeOK'
    BY <2>3, WriteTypes
  <2>4. ASSUME UNCHANGED vars
        PROVE  TypeOK'
    BY <2>4 DEF TypeOK, vars
  <2>5. QED
    BY <2>1, <2>2, <2>3, <2>4 DEF Next
<1>2. QED
  BY <1>1, RingInit, PTL DEF Spec

-----------------------------------------------------------------------------
(***************************************************************************)
(* The ring's arithmetic.  In each lemma b and t stand for the bottom and  *)
(* top indices and u for the count between them.                           *)
(***************************************************************************)

(* Moving the bottom forward by n uses up n bytes; moving the top adds n.  *)
LEMMA MoveIndex ==
  ASSUME NEW b \in Cells, NEW t \in Cells, NEW u, u = Ahead(b, t)
  PROVE  /\ u \in 0 .. KEY_BUF_MAX_SIZE - 1
         /\ \A n \in 0 .. u : Wrap(b + n) \in Cells /\ Ahead(Wrap(b + n), t) = u - n
         /\ \A n \in 0 .. KEY_BUF_MAX_SIZE - 1 - u :
              Wrap(t + n) \in Cells /\ Ahead(b, Wrap(t + n)) = u + n
BY DEF Cells, Wrap, Ahead

(* The unread cells are those the top reaches last, the spare ones those   *)
(* it reaches first.                                                       *)
LEMMA CellOrder ==
  ASSUME NEW b \in Cells, NEW t \in Cells, NEW u, u = Ahead(b, t)
  PROVE  /\ \A i \in 1 .. u :
              /\ Wrap(b + i - 1) \in Cells
              /\ Ahead(t, Wrap(b + i - 1)) = KEY_BUF_MAX_SIZE - u + i - 1
         /\ \A i \in 1 .. KEY_BUF_MAX_SIZE - u :
              /\ Wrap(b + u + i - 1) \in Cells
              /\ Ahead(t, Wrap(b + u + i - 1)) = i - 1
BY DEF Cells, Wrap, Ahead

(* A prefix of a window is the shorter window from the same cell, and the  *)
(* rest is the window that starts n cells later.                           *)
LEMMA WindowSplit ==
  ASSUME NEW ring \in [Cells -> Bytes], NEW c \in Cells,
         NEW u \in 0 .. KEY_BUF_MAX_SIZE - 1, NEW n \in 0 .. u
  PROVE  /\ Window(ring, c, n) = SubSeq(Window(ring, c, u), 1, n)
         /\ Window(ring, Wrap(c + n), u - n) = SubSeq(Window(ring, c, u), n + 1, u)
<1> DEFINE w == Window(ring, c, u)
<1>1. /\ w \in Seq(Bytes) /\ Len(w) = u
      /\ \A i \in 1 .. u : w[i] = ring[Wrap(c + i - 1)]
  <2>1. u \in 0 .. KEY_BUF_MAX_SIZE
    OBVIOUS
  <2>2. QED
    BY <2>1, WindowIsSeq
<1>2. \A i \in 1 .. u : w[i] \in Bytes
  BY <1>1, ElementOfSeq
<1>3. Wrap(c + n) \in Cells /\ n \in 0 .. KEY_BUF_MAX_SIZE
      /\ u - n \in 0 .. KEY_BUF_MAX_SIZE
  BY DEF Cells, Wrap
<1> HIDE DEF w
<1>4. Window(ring, c, n) = SubSeq(w, 1, n)
  <2>1. /\ SubSeq(w, 1, n) \in Seq(Bytes)
        /\ Len(SubSeq(w, 1, n)) = n
        /\ \A i \in 1 .. n : SubSeq(w, 1, n)[i] = w[i]
    BY <1>2, SubSeqProperties
  <2>2. /\ Window(ring, c, n) \in Seq(Bytes)
        /\ Len(Window(ring, c, n)) = n
        /\ \A i \in 1 .. n : Window(ring, c, n)[i] = ring[Wrap(c + i - 1)]
    BY <1>3, WindowIsSeq
  <2>3. \A i \in 1 .. n : Window(ring, c, n)[i] = SubSeq(w, 1, n)[i]
    BY <1>1, <2>1, <2>2
  <2>4. QED
    BY <2>1, <2>2, <2>3, SeqEqual
<1>5. Window(ring, Wrap(c + n), u - n) = SubSeq(w, n + 1, u)
  <2>1. /\ SubSeq(w, n + 1, u) \in Seq(Bytes)
        /\ Len(SubSeq(w, n + 1, u)) = u - n
        /\ \A i \in 1 .. u - n : SubSeq(w, n + 1, u)[i] = w[n + i]
    <3>1. n \in 0 .. Len(w)
      BY <1>1
    <3>2. QED
      BY <1>1, <3>1, Split
  <2>2. /\ Window(ring, Wrap(c + n), u - n) \in Seq(Bytes)
        /\ Len(Window(ring, Wrap(c + n), u - n)) = u - n
        /\ \A i \in 1 .. u - n :
             Window(ring, Wrap(c + n), u - n)[i] = ring[Wrap(Wrap(c + n) + i - 1)]
    BY <1>3, WindowIsSeq
  <2>3. \A i \in 1 .. u - n : Wrap(Wrap(c + n) + i - 1) = Wrap(c + (n + i) - 1)
    BY DEF Cells, Wrap
  <2>4. \A i \in 1 .. u - n :
          Window(ring, Wrap(c + n), u - n)[i] = SubSeq(w, n + 1, u)[i]
    BY <1>1, <2>1, <2>2, <2>3
  <2>5. QED
    BY <2>1, <2>2, <2>4, SeqEqual
<1>6. QED
  BY <1>4, <1>5 DEF w

(* A ring that keeps the bytes of a window and holds those of s after them *)
(* has the longer window: the old one with s at its end.                   *)
LEMMA WindowGrow ==
  ASSUME NEW ring \in [Cells -> Bytes], NEW ring2 \in [Cells -> Bytes],
         NEW c \in Cells, NEW u \in Nat, NEW s \in Seq(Bytes),
         u + Len(s) \in 0 .. KEY_BUF_MAX_SIZE - 1,
         \A i \in 1 .. u : ring2[Wrap(c + i - 1)] = ring[Wrap(c + i - 1)],
         \A i \in 1 .. Len(s) : ring2[Wrap(c + u + i - 1)] = s[i]
  PROVE  Window(ring2, c, u + Len(s)) = Window(ring, c, u) \o s
<1> DEFINE n == Len(s)
           w == Window(ring, c, u)
           v == Window(ring2, c, u + n)
<1>1. n \in Nat /\ u \in 0 .. KEY_BUF_MAX_SIZE /\ u + n \in 0 .. KEY_BUF_MAX_SIZE
  BY LenProperties
<1>2. /\ w \in Seq(Bytes) /\ Len(w) = u
      /\ \A i \in 1 .. u : w[i] = ring[Wrap(c + i - 1)]
  BY <1>1, WindowIsSeq
<1>3. /\ v \in Seq(Bytes) /\ Len(v) = u + n
      /\ \A i \in 1 .. u + n : v[i] = ring2[Wrap(c + i - 1)]
  BY <1>1, WindowIsSeq
<1> HIDE DEF w, v
<1>4. /\ w \o s \in Seq(Bytes) /\ Len(w \o s) = u + n
      /\ \A i \in 1 .. u + n : (w \o s)[i] = IF i <= u THEN w[i] ELSE s[i - u]
  BY <1>2, ConcatProperties
<1>5. ASSUME NEW i \in 1 .. u + n
      PROVE  v[i] = (w \o s)[i]
  <2>1. CASE i <= u
    <3>1. i \in 1 .. u
      BY <1>1, <2>1
    <3>2. QED
      BY <1>2, <1>3, <1>4, <2>1, <3>1
  <2>2. CASE i > u
    <3>1. i - u \in 1 .. n /\ c + u + (i - u) - 1 = c + i - 1
      BY <1>1, <2>2 DEF Cells
    <3>2. ring2[Wrap(c + i - 1)] = s[i - u]
      BY <3>1
    <3>3. QED
      BY <1>1, <1>3, <1>4, <2>2, <3>2
  <2>3. i <= u \/ i > u
    BY <1>1
  <2>4. QED
    BY <2>1, <2>2, <2>3
<1>6. v = w \o s
  BY <1>3, <1>4, <1>5, SeqEqual
<1>7. QED
  BY <1>6 DEF v, w

-----------------------------------------------------------------------------

(* The three operations of the ring, each against its operation on the     *)
(* bounded queue that the unread bytes form.                               *)
LEMMA KeyStep ==
  ASSUME TypeOK, TypeOK', NEW k \in Bytes, key_int(k)
  PROVE  Fifo!Key(k)
<1>1. PICK u : u = Used
  OBVIOUS
<1>2. /\ u = Ahead(key_buf_bot, key_buf_top)
      /\ u \in 0 .. KEY_BUF_MAX_SIZE - 1
      /\ Len(Unread) = u /\ Unread = Window(key_buf, key_buf_bot, u)
      /\ Unread \in Seq(Bytes)
  <2>1. u = Ahead(key_buf_bot, key_buf_top) /\ u \in 0 .. KEY_BUF_MAX_SIZE - 1
    BY <1>1, MoveIndex DEF TypeOK, Used
  <2>2. u \in 0 .. KEY_BUF_MAX_SIZE
    BY <2>1
  <2>3. QED
    BY <1>1, <2>1, <2>2, WindowIsSeq DEF TypeOK, Unread
<1>3. <<k>> \in Seq(Bytes) /\ Len(<<k>>) = 1 /\ <<k>>[1] = k
  OBVIOUS
<1>4. /\ key_buf \in [Cells -> Bytes] /\ key_buf' \in [Cells -> Bytes]
      /\ key_buf_bot \in Cells /\ key_buf_bot' \in Cells
  BY DEF TypeOK
<1>5. \A i \in 1 .. u : /\ Wrap(key_buf_bot + i - 1) \in Cells
                        /\ Wrap(key_buf_bot + i - 1) # key_buf_top
  BY <1>2 DEF Ahead, Wrap, TypeOK, Cells
<1>6. Wrap(key_buf_bot + u + 1 - 1) = key_buf_top
  BY <1>2 DEF Ahead, Wrap, TypeOK, Cells
<1>7. CASE u < KEY_BUF_MAX_SIZE - 1
  <2>1. key_buf_bot' = key_buf_bot /\ Used' = u + 1
    BY <1>2, <1>7 DEF key_int, Used, Ahead, Wrap, TypeOK, Cells
  <2>2. \A i \in 1 .. u :
          key_buf'[Wrap(key_buf_bot + i - 1)] = key_buf[Wrap(key_buf_bot + i - 1)]
    BY <1>5 DEF key_int, TypeOK
  <2>3. \A i \in 1 .. Len(<<k>>) : key_buf'[Wrap(key_buf_bot + u + i - 1)] = <<k>>[i]
    BY <1>3, <1>6 DEF key_int, TypeOK
  <2>4. u \in Nat /\ u + Len(<<k>>) \in 0 .. KEY_BUF_MAX_SIZE - 1
    BY <1>2, <1>3, <1>7
  <2>5. Window(key_buf', key_buf_bot, u + Len(<<k>>)) = Unread \o <<k>>
    <3>1. PICK s \in Seq(Bytes) : s = <<k>>
      BY <1>3
    <3>2. PICK r \in [Cells -> Bytes] : r = key_buf
      BY <1>4
    <3>3. PICK r2 \in [Cells -> Bytes] : r2 = key_buf'
      BY <1>4
    <3>4. PICK c \in Cells : c = key_buf_bot
      BY <1>4
    <3>5. u + Len(s) \in 0 .. KEY_BUF_MAX_SIZE - 1
      BY <2>4, <3>1, Zenon
    <3>6. \A i \in 1 .. u : r2[Wrap(c + i - 1)] = r[Wrap(c + i - 1)]
      BY <2>2, <3>2, <3>3, <3>4, Zenon
    <3>7. \A i \in 1 .. Len(s) : r2[Wrap(c + u + i - 1)] = s[i]
      BY <2>3, <3>1, <3>3, <3>4, Zenon
    <3>8. Window(r2, c, u + Len(s)) = Window(r, c, u) \o s
      BY <2>4, <3>5, <3>6, <3>7, WindowGrow, ZenonT(40)
    <3>9. QED
      BY <1>2, <3>1, <3>2, <3>3, <3>4, <3>8, Zenon
  <2>6. Unread' = Append(Unread, k)
    BY <1>2, <1>3, <2>1, <2>5, AppendIsConcat DEF Unread
  <2>7. QED
    BY <1>2, <1>7, <2>6 DEF Fifo!Key, key_int, NoReply, Fifo!NoReply
<1>8. CASE u = KEY_BUF_MAX_SIZE - 1
  <2>1. key_buf_bot' = Wrap(key_buf_bot + 1) /\ Used' = u /\ u >= 1
    BY <1>2, <1>8 DEF key_int, Used, Ahead, Wrap, TypeOK, Cells
  <2>2. Tail(Unread) = Window(key_buf, key_buf_bot', u - 1)
    <3>1. Unread # <<>>
      BY <1>2, <2>1, EmptySeq
    <3>2. Tail(Unread) = SubSeq(Unread, 2, u)
      BY <1>2, <3>1, TailIsSubSeq
    <3>3. 1 \in 0 .. u
      BY <1>2, <2>1
    <3>4. Window(key_buf, Wrap(key_buf_bot + 1), u - 1)
            = SubSeq(Window(key_buf, key_buf_bot, u), 1 + 1, u)
      BY <1>2, <3>3, WindowSplit DEF TypeOK
    <3>5. 1 + 1 = 2
      OBVIOUS
    <3>6. QED
      BY <1>2, <2>1, <3>2, <3>4, <3>5
  <2>3. \A i \in 1 .. u - 1 :
          /\ Wrap(key_buf_bot' + i - 1) = Wrap(key_buf_bot + (i + 1) - 1)
          /\ i + 1 \in 1 .. u
    BY <1>2, <1>8, <2>1 DEF Wrap, TypeOK, Cells
  <2>4. \A i \in 1 .. u - 1 :
          key_buf'[Wrap(key_buf_bot' + i - 1)] = key_buf[Wrap(key_buf_bot' + i - 1)]
    BY <1>5, <2>3 DEF key_int, TypeOK
  <2>5. Wrap(key_buf_bot' + (u - 1) + 1 - 1) = key_buf_top
    BY <1>2, <1>8, <2>1 DEF Ahead, Wrap, TypeOK, Cells
  <2>6. \A i \in 1 .. Len(<<k>>) :
          key_buf'[Wrap(key_buf_bot' + (u - 1) + i - 1)] = <<k>>[i]
    BY <1>3, <2>5 DEF key_int, TypeOK
  <2>7. /\ u - 1 \in Nat /\ (u - 1) + Len(<<k>>) \in 0 .. KEY_BUF_MAX_SIZE - 1
        /\ (u - 1) + Len(<<k>>) = u
    BY <1>2, <1>3, <2>1
  <2>8. Window(key_buf', key_buf_bot', (u - 1) + Len(<<k>>))
          = Window(key_buf, key_buf_bot', u - 1) \o <<k>>
    <3>1. PICK s \in Seq(Bytes) : s = <<k>>
      BY <1>3
    <3>2. PICK r \in [Cells -> Bytes] : r = key_buf
      BY <1>4
    <3>3. PICK r2 \in [Cells -> Bytes] : r2 = key_buf'
      BY <1>4
    <3>4. PICK c \in Cells : c = key_buf_bot'
      BY <1>4
    <3>5. PICK n \in Nat : n = u - 1
      BY <2>7
    <3>6. n + Len(s) \in 0 .. KEY_BUF_MAX_SIZE - 1
      BY <2>7, <3>1, <3>5, Zenon
    <3>7. \A i \in 1 .. n : r2[Wrap(c + i - 1)] = r[Wrap(c + i - 1)]
      BY <2>4, <3>2, <3>3, <3>4, <3>5, Zenon
    <3>8. \A i \in 1 .. Len(s) : r2[Wrap(c + n + i - 1)] = s[i]
      BY <2>6, <3>1, <3>3, <3>4, <3>5, Zenon
    <3>9. Window(r2, c, n + Len(s)) = Window(r, c, n) \o s
      BY <3>6, <3>7, <3>8, WindowGrow, ZenonT(40)
    <3>10. QED
      BY <3>1, <3>2, <3>3, <3>4, <3>5, <3>9, Zenon
  <2>9. Tail(Unread) \in Seq(Bytes)
    BY <1>2, <2>1, EmptySeq, HeadTailProperties
  <2>10. Unread' = Append(Tail(Unread), k)
    BY <2>1, <2>2, <2>7, <2>8, <2>9, AppendIsConcat DEF Unread
  <2>11. ~(Len(Unread) < KEY_BUF_MAX_SIZE - 1)
    BY <1>2, <1>8
  <2>12. QED
    BY <2>10, <2>11 DEF Fifo!Key, key_int, NoReply, Fifo!NoReply
<1>9. QED
  BY <1>2, <1>7, <1>8

(* kb_read takes the oldest bytes.                                         *)
LEMMA ReadStep ==
  ASSUME TypeOK, NEW size \in Nat, kb_read(size)
  PROVE  Fifo!Read(size)
<1>1. PICK u : u = Used
  OBVIOUS
<1>2. PICK n : n = Least(size, u)
  OBVIOUS
<1>3. u = Ahead(key_buf_bot, key_buf_top) /\ u \in 0 .. KEY_BUF_MAX_SIZE - 1
  BY <1>1, MoveIndex DEF TypeOK, Used
<1>4. n \in 0 .. u /\ u \in 0 .. KEY_BUF_MAX_SIZE
  BY <1>2, <1>3 DEF Least
<1>5. Len(Unread) = u /\ Unread = Window(key_buf, key_buf_bot, u)
  BY <1>1, <1>4, WindowIsSeq DEF TypeOK, Unread
<1>6. /\ Window(key_buf, key_buf_bot, n) = SubSeq(Unread, 1, n)
      /\ Window(key_buf, Wrap(key_buf_bot + n), u - n) = SubSeq(Unread, n + 1, u)
  BY <1>3, <1>4, <1>5, WindowSplit DEF TypeOK
<1>7. Ahead(Wrap(key_buf_bot + n), key_buf_top) = u - n
  BY <1>3, <1>4, MoveIndex DEF TypeOK
<1>8. Unread' = Window(key_buf, Wrap(key_buf_bot + n), u - n)
  BY <1>1, <1>2, <1>7 DEF kb_read, Unread, Used
<1>9. Fifo!Least(size, Len(Unread)) = n
  BY <1>2, <1>5 DEF Least, Fifo!Least
<1>10. QED
  BY <1>1, <1>2, <1>5, <1>6, <1>8, <1>9 DEF Fifo!Read, kb_read

(* kb_write adds as many bytes as there is room for.                       *)
LEMMA WriteStep ==
  ASSUME TypeOK, TypeOK', NEW buf \in Seq(Bytes), kb_write(buf)
  PROVE  Fifo!Write(buf)
<1>1. PICK u : u = Used
  OBVIOUS
<1>2. PICK n : n = Least(Len(buf), KEY_BUF_MAX_SIZE - 1 - u)
  OBVIOUS
<1>3. u = Ahead(key_buf_bot, key_buf_top) /\ u \in 0 .. KEY_BUF_MAX_SIZE - 1
  BY <1>1, MoveIndex DEF TypeOK, Used
<1>4. buf \in Seq(Bytes) /\ Len(buf) \in Nat
  BY LenProperties
<1>5. /\ n \in 0 .. KEY_BUF_MAX_SIZE - 1 - u /\ n \in 0 .. Len(buf)
      /\ u \in 0 .. KEY_BUF_MAX_SIZE
  BY <1>2, <1>3, <1>4 DEF Least
<1>6. Len(Unread) = u /\ Unread = Window(key_buf, key_buf_bot, u)
  BY <1>1, <1>5, WindowIsSeq DEF TypeOK, Unread
<1>7. PICK s : s = SubSeq(buf, 1, n)
  OBVIOUS
<1>8. s \in Seq(Bytes) /\ Len(s) = n /\ \A i \in 1 .. n : s[i] = buf[i]
  <2>1. \A i \in 1 .. n : buf[i] \in Bytes
    BY <1>4, <1>5, ElementOfSeq
  <2>2. QED
    BY <1>5, <1>7, <2>1, SubSeqProperties
<1>9. \A c \in Cells : key_buf'[c] = IF Ahead(key_buf_top, c) < n
                                     THEN buf[Ahead(key_buf_top, c) + 1]
                                     ELSE key_buf[c]
  BY <1>1, <1>2 DEF kb_write
<1>10. \A i \in 1 .. u :
         key_buf'[Wrap(key_buf_bot + i - 1)] = key_buf[Wrap(key_buf_bot + i - 1)]
  <2>1. \A i \in 1 .. u : /\ Wrap(key_buf_bot + i - 1) \in Cells
                          /\ Ahead(key_buf_top, Wrap(key_buf_bot + i - 1))
                               = KEY_BUF_MAX_SIZE - u + i - 1
    BY <1>3, CellOrder DEF TypeOK
  <2>2. \A i \in 1 .. u : ~(KEY_BUF_MAX_SIZE - u + i - 1 < n)
    BY <1>3, <1>5
  <2>3. QED
    BY <1>9, <2>1, <2>2
<1>11. \A i \in 1 .. Len(s) : key_buf'[Wrap(key_buf_bot + u + i - 1)] = s[i]
  <2>1. \A i \in 1 .. n : /\ Wrap(key_buf_bot + u + i - 1) \in Cells
                          /\ Ahead(key_buf_top, Wrap(key_buf_bot + u + i - 1)) = i - 1
    <3>1. \A i \in 1 .. n : i \in 1 .. KEY_BUF_MAX_SIZE - u
      BY <1>3, <1>5
    <3>2. QED
      BY <1>3, <3>1, CellOrder DEF TypeOK
  <2>2. \A i \in 1 .. n : i - 1 < n /\ i - 1 + 1 = i
    BY <1>5
  <2>3. QED
    BY <1>8, <1>9, <2>1, <2>2
<1>12. Window(key_buf', key_buf_bot, u + Len(s)) = Unread \o s
  <2>1. u \in Nat /\ u + Len(s) \in 0 .. KEY_BUF_MAX_SIZE - 1
    BY <1>3, <1>5, <1>8
  <2>2. /\ key_buf \in [Cells -> Bytes] /\ key_buf' \in [Cells -> Bytes]
        /\ key_buf_bot \in Cells
    BY DEF TypeOK
  <2>3. Window(key_buf', key_buf_bot, u + Len(s))
          = Window(key_buf, key_buf_bot, u) \o s
    <3>1. PICK t \in Seq(Bytes) : t = s
      BY <1>8
    <3>2. PICK r \in [Cells -> Bytes] : r = key_buf
      BY <2>2
    <3>3. PICK r2 \in [Cells -> Bytes] : r2 = key_buf'
      BY <2>2
    <3>4. PICK c \in Cells : c = key_buf_bot
      BY <2>2
    <3>5. u + Len(t) \in 0 .. KEY_BUF_MAX_SIZE - 1
      BY <2>1, <3>1, Zenon
    <3>6. \A i \in 1 .. u : r2[Wrap(c + i - 1)] = r[Wrap(c + i - 1)]
      BY <1>10, <3>2, <3>3, <3>4, Zenon
    <3>7. \A i \in 1 .. Len(t) : r2[Wrap(c + u + i - 1)] = t[i]
      BY <1>11, <1>8, <3>1, <3>3, <3>4, Zenon
    <3>8. Window(r2, c, u + Len(t)) = Window(r, c, u) \o t
      BY <2>1, <3>5, <3>6, <3>7, WindowGrow, ZenonT(40)
    <3>9. QED
      BY <3>1, <3>2, <3>3, <3>4, <3>8, Zenon
  <2>4. QED
    BY <1>6, <2>3
<1>13. Unread' = Unread \o s
  <2>1. Ahead(key_buf_bot, Wrap(key_buf_top + n)) = u + n
    BY <1>3, <1>5, MoveIndex DEF TypeOK
  <2>2. QED
    BY <1>1, <1>2, <1>8, <1>12, <2>1 DEF kb_write, Unread, Used
<1>14. Fifo!Least(Len(buf), KEY_BUF_MAX_SIZE - 1 - Len(Unread)) = n
  BY <1>2, <1>6 DEF Least, Fifo!Least
<1>15. QED
  BY <1>1, <1>2, <1>7, <1>13, <1>14 DEF Fifo!Write, kb_write

(* The ring implements the bounded queue: keys, reads and writes have the  *)
(* effect on the unread bytes that the queue's operations have.            *)
THEOREM RingIsFifo == Spec => ImplementsFifo
<1>1. Init => Fifo!Init
  <2> SUFFICES ASSUME Init PROVE Unread = <<>>
    BY DEF Init, Fifo!Init, NoReply, Fifo!NoReply
  <2>1. Used = 0
    BY DEF Init, Used, Ahead
  <2>2. QED
    BY <2>1 DEF Unread, Window
<1>2. TypeOK /\ TypeOK' /\ [Next]_vars => [Fifo!Next]_(Fifo!vars)
  <2> SUFFICES ASSUME TypeOK, TypeOK', [Next]_vars
               PROVE  [Fifo!Next]_(Fifo!vars)
    OBVIOUS
  <2>1. ASSUME NEW k \in Bytes, key_int(k)
        PROVE  Fifo!Next
    BY <2>1, KeyStep DEF Fifo!Next
  <2>2. ASSUME NEW size \in Sizes, kb_read(size)
        PROVE  Fifo!Next
    BY <2>2, ReadStep DEF Fifo!Next
  <2>3. ASSUME NEW buf \in Chunks, kb_write(buf)
        PROVE  Fifo!Next
    BY <2>3, WriteStep DEF Fifo!Next
  <2>4. ASSUME UNCHANGED vars
        PROVE  UNCHANGED Fifo!vars
    BY <2>4 DEF vars, Fifo!vars, Unread, Used
  <2>5. QED
    BY <2>1, <2>2, <2>3, <2>4 DEF Next
<1>3. QED
  BY <1>1, <1>2, TypeCorrect, PTL DEF Spec, Fifo!Spec, ImplementsFifo

-----------------------------------------------------------------------------
(***************************************************************************)
(* What the steps of the ring do to the unread bytes.                      *)
(***************************************************************************)

(* The unread bytes are a sequence, Used long.                             *)
LEMMA UnreadSeq ==
  ASSUME TypeOK
  PROVE  Unread \in Seq(Bytes) /\ Len(Unread) = Used /\ Used \in 0 .. KEY_BUF_MAX_SIZE - 1
<1>1. Used \in 0 .. KEY_BUF_MAX_SIZE - 1
  BY Indices DEF TypeOK, Used
<1>2. Used \in 0 .. KEY_BUF_MAX_SIZE
  BY <1>1
<1>3. QED
  BY <1>1, <1>2, WindowIsSeq DEF TypeOK, Unread

(* A key that finds the ring not full comes last.                          *)
LEMMA UnreadKey ==
  ASSUME TypeOK, NEW k \in Bytes, key_int(k), Used # KEY_BUF_MAX_SIZE - 1
  PROVE  Unread' = Unread \o <<k>>
<1>1. Len(Unread) < KEY_BUF_MAX_SIZE - 1 /\ Unread \in Seq(Bytes)
  BY UnreadSeq
<1>2. Fifo!Key(k)
  BY KeyTypes, KeyStep
<1>3. Unread' = Append(Unread, k)
  BY <1>1, <1>2 DEF Fifo!Key
<1>4. QED
  BY <1>1, <1>3, AppendIsConcat

(* What kb_read returns is what it takes away.                             *)
LEMMA UnreadRead ==
  ASSUME TypeOK, NEW size \in Nat, kb_read(size),
         NEW data, data = Window(key_buf, key_buf_bot, Least(size, Used))
  PROVE  /\ data \in Seq(Bytes) /\ Unread' \in Seq(Bytes)
         /\ data \o Unread' = Unread
<1>1. PICK n : n = Fifo!Least(size, Len(Unread))
  OBVIOUS
<1>0. PICK u : u = Unread
  OBVIOUS
<1>2. Unread \in Seq(Bytes) /\ Len(Unread) \in Nat
  BY UnreadSeq, LenProperties
<1>3. n \in 0 .. Len(u)
  BY <1>0, <1>1, <1>2 DEF Fifo!Least
<1>4. Fifo!Read(size)
  BY ReadStep
<1>5. reply'.data = SubSeq(u, 1, n) /\ Unread' = SubSeq(u, n + 1, Len(u))
  BY <1>0, <1>1, <1>4 DEF Fifo!Read
<1>6. reply'.data = data
  BY DEF kb_read
<1>7. u \in Seq(Bytes)
  BY <1>0, <1>2
<1>8. /\ SubSeq(u, 1, n) \in Seq(Bytes) /\ SubSeq(u, n + 1, Len(u)) \in Seq(Bytes)
      /\ u = SubSeq(u, 1, n) \o SubSeq(u, n + 1, Len(u))
  BY <1>3, <1>7, Split
<1>9. QED
  BY <1>0, <1>5, <1>6, <1>8, Zenon

(* Bytes that all fit come last.                                           *)
LEMMA UnreadWrite ==
  ASSUME TypeOK, NEW buf \in Seq(Bytes), kb_write(buf), ~(reply'.count < Len(buf))
  PROVE  Unread' = Unread \o buf
<1>1. PICK n : n = Fifo!Least(Len(buf), KEY_BUF_MAX_SIZE - 1 - Len(Unread))
  OBVIOUS
<1>2. /\ Unread \in Seq(Bytes) /\ Len(Unread) \in 0 .. KEY_BUF_MAX_SIZE - 1
      /\ Len(buf) \in Nat
  BY UnreadSeq, LenProperties
<1>3. Fifo!Write(buf)
  BY WriteTypes, WriteStep
<1>4. reply'.count = n /\ Unread' = Unread \o SubSeq(buf, 1, n)
  BY <1>1, <1>3 DEF Fifo!Write
<1>5. n = Len(buf)
  BY <1>1, <1>2, <1>4 DEF Fifo!Least
<1>6. SubSeq(buf, 1, Len(buf)) = buf
  BY SubSeqFull
<1>7. QED
  BY <1>4, <1>5, <1>6

HIDE RingAssumption

(***************************************************************************)
(* The controller's queue: the keys in it and the bytes of packets.        *)
(***************************************************************************)

Items == [key : BOOLEAN, byte : Bytes]

(* The bytes of those items of q that are keys, or of those that are not.  *)
Part(q, key) == [i \in DOMAIN Only(q, [key : {key}, byte : Bytes])
                   |-> Only(q, [key : {key}, byte : Bytes])[i].byte]

(* The bytes of the first n items.                                         *)
Front(q, n) == [i \in 1 .. n |-> q[i].byte]

(* The bytes of a sequence of items are bytes, one for one.                *)
LEMMA BytesOfItems ==
  ASSUME NEW r \in Seq(Items), NEW b, b = [i \in DOMAIN r |-> r[i].byte]
  PROVE  b \in Seq(Bytes) /\ Len(b) = Len(r) /\ \A i \in 1 .. Len(r) : b[i] = r[i].byte
<1>1. PICK n \in Nat : n = Len(r) /\ DOMAIN r = 1 .. n
  BY LenProperties
<1>2. \A i \in 1 .. n : r[i].byte \in Bytes
  <2>1. \A i \in 1 .. n : r[i] \in Items
    BY <1>1, ElementOfSeq
  <2>2. QED
    BY <2>1 DEF Items
<1>3. b \in [1 .. n -> Bytes]
  BY <1>1, <1>2
<1>4. b \in Seq(Bytes) /\ Len(b) = n
  BY <1>3, SeqDef
<1>5. QED
  BY <1>1, <1>4

(* The part of a queue is made of the parts of its pieces.                 *)
LEMMA PartCat ==
  ASSUME NEW q \in Seq(Items), NEW r \in Seq(Items), NEW key \in BOOLEAN
  PROVE  /\ Part(q, key) \in Seq(Bytes)
         /\ Part(q \o r, key) = Part(q, key) \o Part(r, key)
<1> DEFINE KI == [key : {key}, byte : Bytes]
<1>1. PICK a : a = Only(q, KI)
  OBVIOUS
<1>2. PICK b : b = Only(r, KI)
  OBVIOUS
<1>3. KI \subseteq Items
  BY DEF Items
<1>4. a \in Seq(KI) /\ b \in Seq(KI) /\ Only(q \o r, KI) = a \o b
  <2> HIDE DEF KI
  <2>1. Only(q, KI) \in Seq(KI)
    BY OnlyType, Zenon
  <2>2. Only(r, KI) \in Seq(KI)
    BY OnlyType, Zenon
  <2>3. Only(q \o r, KI) = Only(q, KI) \o Only(r, KI)
    BY OnlyCat, Zenon
  <2>4. QED
    BY <1>1, <1>2, <2>1, <2>2, <2>3, Zenon
<1>5. a \in Seq(Items) /\ b \in Seq(Items)
  BY <1>3, <1>4, SeqMonotonic
<1>6. PICK u : u = [i \in DOMAIN a |-> a[i].byte]
  OBVIOUS
<1>7. PICK v : v = [i \in DOMAIN b |-> b[i].byte]
  OBVIOUS
<1>8. PICK w : w = [i \in DOMAIN (a \o b) |-> (a \o b)[i].byte]
  OBVIOUS
<1>9. PICK n \in Nat : n = Len(a)
  BY <1>5, LenProperties
<1>10. PICK m \in Nat : m = Len(b)
  BY <1>5, LenProperties
<1>11. /\ a \o b \in Seq(Items) /\ Len(a \o b) = n + m
       /\ \A i \in 1 .. n + m : (a \o b)[i] = IF i <= n THEN a[i] ELSE b[i - n]
  BY <1>5, <1>9, <1>10, ConcatProperties
<1>12. u \in Seq(Bytes) /\ Len(u) = n /\ \A i \in 1 .. n : u[i] = a[i].byte
  BY <1>5, <1>6, <1>9, BytesOfItems
<1>13. v \in Seq(Bytes) /\ Len(v) = m /\ \A i \in 1 .. m : v[i] = b[i].byte
  BY <1>5, <1>7, <1>10, BytesOfItems
<1>14. w \in Seq(Bytes) /\ Len(w) = n + m /\ \A i \in 1 .. n + m : w[i] = (a \o b)[i].byte
  <2>1. PICK c \in Seq(Items) : c = a \o b
    BY <1>11
  <2>2. w = [i \in DOMAIN c |-> c[i].byte]
    BY <1>8, <2>1
  <2>3. w \in Seq(Bytes) /\ Len(w) = Len(c) /\ \A i \in 1 .. Len(c) : w[i] = c[i].byte
    BY <2>2, BytesOfItems
  <2>4. QED
    BY <1>11, <2>1, <2>3
<1>15. /\ u \o v \in Seq(Bytes) /\ Len(u \o v) = n + m
       /\ \A i \in 1 .. n + m : (u \o v)[i] = IF i <= n THEN u[i] ELSE v[i - n]
  BY <1>12, <1>13, ConcatProperties
<1>16. ASSUME NEW i \in 1 .. n + m
       PROVE  w[i] = (u \o v)[i]
  <2>1. CASE i <= n
    <3>1. i \in 1 .. n
      BY <2>1
    <3>2. QED
      BY <1>11, <1>12, <1>14, <1>15, <2>1, <3>1
  <2>2. CASE ~(i <= n)
    <3>1. i - n \in 1 .. m
      BY <2>2
    <3>2. QED
      BY <1>11, <1>13, <1>14, <1>15, <2>2, <3>1
  <2>3. QED
    BY <2>1, <2>2
<1>17. w = u \o v
  BY <1>14, <1>15, <1>16, SeqEqual
<1>18. Part(q, key) = u
  BY <1>1, <1>6, Zenon DEF Part
<1>19. Part(r, key) = v
  BY <1>2, <1>7, Zenon DEF Part
<1>20. Part(q \o r, key) = w
  BY <1>4, <1>8, Zenon DEF Part
<1>21. QED
  BY <1>12, <1>17, <1>18, <1>19, <1>20

(* If all items are of the kind the part is all bytes, else if none is it  *)
(* is empty.                                                               *)
LEMMA PartAll ==
  ASSUME NEW q \in Seq(Items), NEW key \in BOOLEAN
  PROVE  /\ (\A i \in 1 .. Len(q) : q[i].key = key) => Part(q, key) = Front(q, Len(q))
         /\ (\A i \in 1 .. Len(q) : q[i].key # key) => Part(q, key) = <<>>
<1> DEFINE KI == [key : {key}, byte : Bytes]
<1>1. PICK n \in Nat : n = Len(q) /\ DOMAIN q = 1 .. n /\ q \in [1 .. n -> Items]
  BY LenProperties
<1>2. \A i \in 1 .. n : q[i] \in Items
  BY <1>1
<1>3. ASSUME \A i \in 1 .. Len(q) : q[i].key = key
      PROVE  Part(q, key) = Front(q, Len(q))
  <2>1. \A i \in 1 .. n : q[i] \in KI
    BY <1>1, <1>2, <1>3 DEF Items
  <2>2. q \in [1 .. n -> KI]
    BY <1>1, <2>1
  <2>3. q \in Seq(KI)
    <3> HIDE DEF KI
    <3>1. QED
      BY <2>2, SeqDef
  <2>4. Only(q, KI) = q
    BY <2>3, OnlyAll
  <2>5. QED
    BY <1>1, <2>4 DEF Part, Front
<1>4. ASSUME \A i \in 1 .. Len(q) : q[i].key # key
      PROVE  Part(q, key) = <<>>
  <2> DEFINE Others == {x \in Items : x.key # key}
  <2>1. \A i \in 1 .. n : q[i] \in Others
    BY <1>1, <1>2, <1>4
  <2>2. q \in [1 .. n -> Others]
    BY <1>1, <2>1
  <2>3. q \in Seq(Others)
    <3> HIDE DEF Others
    <3>1. QED
      BY <2>2, SeqDef
  <2>4. Others \cap KI = {}
    OBVIOUS
  <2>5. Only(q, KI) = <<>>
    BY <2>3, <2>4, OnlyNone, Zenon
  <2>6. PICK e \in Seq(Items) : e = <<>> /\ Len(e) = 0
    BY EmptySeq
  <2>7. Part(q, key) = [i \in DOMAIN e |-> e[i].byte]
    BY <2>5, <2>6, Zenon DEF Part
  <2>8. Part(q, key) \in Seq(Bytes) /\ Len(Part(q, key)) = 0
    BY <2>6, <2>7, BytesOfItems
  <2>9. QED
    BY <2>8, EmptySeq
<1>5. QED
  BY <1>3, <1>4

(* One more item.                                                          *)
LEMMA PartAppend ==
  ASSUME NEW q \in Seq(Items), NEW x \in Items, NEW key \in BOOLEAN
  PROVE  Part(Append(q, x), key) = Part(q, key) \o IF x.key = key THEN <<x.byte>> ELSE <<>>
<1>0. <<x>> \in Seq(Items) /\ Len(<<x>>) = 1 /\ <<x>>[1] = x
  OBVIOUS
<1>1. PICK s \in Seq(Items) : s = <<x>> /\ Len(s) = 1 /\ s[1] = x
  BY <1>0, Zenon
<1>2. Append(q, x) = q \o s
  BY <1>1, AppendIsConcat
<1>3. Part(Append(q, x), key) = Part(q, key) \o Part(s, key)
  BY <1>2, PartCat
<1>4. CASE x.key = key
  <2>1. \A i \in 1 .. Len(s) : s[i].key = key
    BY <1>1, <1>4
  <2>2. Part(s, key) = Front(s, Len(s))
    BY <2>1, PartAll
  <2>3. Front(s, Len(s)) = <<x.byte>>
    BY <1>1 DEF Front
  <2>4. QED
    BY <1>3, <1>4, <2>2, <2>3
<1>5. CASE x.key # key
  <2>1. \A i \in 1 .. Len(s) : s[i].key # key
    BY <1>1, <1>5
  <2>2. Part(s, key) = <<>>
    BY <2>1, PartAll
  <2>3. QED
    BY <1>3, <1>5, <2>2
<1>6. QED
  BY <1>4, <1>5

(* After the first n items have gone, what they held is gone from the part *)
(* and nothing else.                                                       *)
LEMMA PartRest ==
  ASSUME NEW q \in Seq(Items), NEW n \in 0 .. Len(q), NEW key \in BOOLEAN,
         NEW r, r = SubSeq(q, n + 1, Len(q))
  PROVE  /\ r \in Seq(Items) /\ Part(r, key) \in Seq(Bytes)
         /\ Front(q, n) \in Seq(Bytes) /\ Len(Front(q, n)) = n
         /\ (\A i \in 1 .. n : q[i].key = key) => Part(q, key) = Front(q, n) \o Part(r, key)
         /\ (\A i \in 1 .. n : q[i].key # key) => Part(q, key) = Part(r, key)
<1>1. PICK p : p = SubSeq(q, 1, n)
  OBVIOUS
<1>2. /\ p \in Seq(Items) /\ Len(p) = n /\ \A i \in 1 .. n : p[i] = q[i]
      /\ r \in Seq(Items) /\ q = p \o r
  BY <1>1, Split
<1>3. Part(q, key) = Part(p, key) \o Part(r, key) /\ Part(r, key) \in Seq(Bytes)
  <2>1. /\ Part(p \o r, key) = Part(p, key) \o Part(r, key)
        /\ Part(r, key) \in Seq(Bytes)
    <3>1. p \in Seq(Items) /\ r \in Seq(Items)
      BY <1>2
    <3>2. \A a, b \in Seq(Items) :
            /\ Part(a, key) \in Seq(Bytes)
            /\ Part(a \o b, key) = Part(a, key) \o Part(b, key)
      BY PartCat
    <3>3. QED
      BY <3>1, <3>2, Zenon
  <2>2. QED
    BY <1>2, <2>1, Zenon
<1>4. Front(p, n) = Front(q, n)
  BY <1>2 DEF Front
<1>5. Front(q, n) \in Seq(Bytes) /\ Len(Front(q, n)) = n
  <2>1. DOMAIN p = 1 .. n
    BY <1>2, LenProperties
  <2>2. Front(p, n) = [i \in DOMAIN p |-> p[i].byte]
    BY <2>1 DEF Front
  <2>3. QED
    BY <1>2, <1>4, <2>2, BytesOfItems
<1>6. (\A i \in 1 .. n : q[i].key = key) => Part(p, key) = Front(q, n)
  BY <1>2, <1>4, PartAll
<1>7. (\A i \in 1 .. n : q[i].key # key) => Part(p, key) = <<>>
  BY <1>2, PartAll
<1>8. <<>> \o Part(r, key) = Part(r, key)
  BY <1>3, ConcatEmptySeq
<1>9. QED
  BY <1>2, <1>3, <1>5, <1>6, <1>7, <1>8

-----------------------------------------------------------------------------
(***************************************************************************)
(* The steps of the whole: what they keep, and what of the controller's    *)
(* queue they hand over to the ring while no byte is mixed up.             *)
(***************************************************************************)

(* The items of the queue that are keys are keys the user has.             *)
KeysAreKeys(q) == \A i \in 1 .. Len(q) : q[i].key => q[i].byte \in Keys

(* What every variable holds.                                              *)
Types ==
  /\ TypeOK
  /\ port \in Seq(Items) /\ KeysAreKeys(port)
  /\ device \in Seq(Bytes) /\ latch \in Bytes
  /\ got \in Seq(Bytes) /\ typed \in Seq(Keys)
  /\ mousex \in Int /\ mousey \in Int /\ swept.x \in Int /\ swept.y \in Int

(* The codes of buttons are codes of buttons, and no keys.                 *)
LEMMA CodesType ==
  ASSUME NEW btns
  PROVE  /\ Codes(btns) \in Seq(ButtonCodes) /\ Codes(btns) \in Seq(Bytes)
         /\ \A i \in Buttons : CodeIf(btns, i) \in Seq(ButtonCodes)
<1>1. \A i \in Buttons : CodeIf(btns, i) \in Seq(ButtonCodes)
  <2> SUFFICES ASSUME NEW i \in Buttons
               PROVE  CodeIf(btns, i) \in Seq(ButtonCodes)
    OBVIOUS
  <2>1. Bit(btns, i) \in BOOLEAN
    BY DEF Bit
  <2>2. Code(i, Bit(btns, i)) \in ButtonCodes
    BY <2>1 DEF ButtonCodes
  <2>3. <<>> \in Seq(ButtonCodes) /\ <<Code(i, Bit(btns, i))>> \in Seq(ButtonCodes)
    BY <2>2
  <2>4. QED
    BY <2>3 DEF CodeIf
<1>2. 0 \in Buttons /\ 1 \in Buttons /\ 2 \in Buttons
  BY DEF Buttons
<1>3. CodeIf(btns, 0) \o CodeIf(btns, 1) \in Seq(ButtonCodes)
  BY <1>1, <1>2, ConcatProperties
<1>4. Codes(btns) \in Seq(ButtonCodes)
  BY <1>1, <1>2, <1>3, ConcatProperties DEF Codes
<1>5. ButtonCodes \subseteq Bytes
  BY InputAssumption
<1>6. QED
  BY <1>1, <1>4, <1>5, SeqMonotonic

(* What get_mouse_pos hands on as keys is the front of the queue.          *)
LEMMA HandedOnIs ==
  ASSUME NEW q \in Seq(Items)
  PROVE  /\ Len(HandedOn(q)) \in 0 .. Len(q)
         /\ HandedOn(q) = Front(q, Len(HandedOn(q)))
         /\ HandedOn(q) \in Seq(Bytes)
         /\ Len(q) \in Nat
<1>1. PICK n \in Nat : n = Len(q)
  BY LenProperties
<1>2. q # <<>> => n >= 1
  BY <1>1, EmptySeq
<1>3. Front(q, 0) = <<>> /\ Front(q, 1) = <<q[1].byte>> /\ Front(q, 2) = <<q[1].byte, q[2].byte>>
  <2>1. Front(q, 0) = <<>>
    BY DEF Front
  <2>2. Front(q, 1) = <<q[1].byte>>
    BY DEF Front
  <2>3. Front(q, 2) = <<q[1].byte, q[2].byte>>
    BY DEF Front
  <2>4. QED
    BY <2>1, <2>2, <2>3
<1>4. Packet(q) => n >= 2
  BY <1>1 DEF Packet
<1>5. PICK m \in {0, 1, 2} : m <= n /\ HandedOn(q) = Front(q, m)
  <2>1. CASE q = <<>>
    <3>1. HandedOn(q) = <<>>
      BY <2>1 DEF HandedOn
    <3>2. QED
      BY <1>1, <1>3, <3>1
  <2>2. CASE q # <<>> /\ ~Packet(q)
    <3>1. HandedOn(q) = <<q[1].byte>>
      BY <2>2, Zenon DEF HandedOn
    <3>2. QED
      BY <1>2, <1>3, <2>2, <3>1
  <2>3. CASE q # <<>> /\ Packet(q) /\ Len(q) = 2
    <3>1. HandedOn(q) = <<q[1].byte, q[2].byte>>
      BY <2>3, Zenon DEF HandedOn
    <3>2. QED
      BY <1>3, <1>4, <2>3, <3>1
  <2>4. CASE q # <<>> /\ Packet(q) /\ Len(q) # 2
    <3>1. HandedOn(q) = <<>>
      BY <2>4, Zenon DEF HandedOn
    <3>2. QED
      BY <1>1, <1>3, <3>1
  <2>5. QED
    BY <2>1, <2>2, <2>3, <2>4
<1>6. m \in 0 .. Len(q)
  BY <1>1, <1>5
<1>7. Front(q, m) \in Seq(Bytes) /\ Len(Front(q, m)) = m
  BY <1>6, PartRest
<1>8. QED
  BY <1>1, <1>5, <1>6, <1>7

(* Reading the queue keeps its types.                                      *)
LEMMA ReadOutTypes ==
  ASSUME Types, NEW n \in 0 .. Len(port), ReadOut(n)
  PROVE  port' \in Seq(Items) /\ KeysAreKeys(port') /\ latch' \in Bytes
<1>1. port \in Seq(Items) /\ Len(port) \in Nat
  BY LenProperties DEF Types
<1>2. PICK q : q = port
  OBVIOUS
<1>3. PICK r : r = port'
  OBVIOUS
<1>4. r = SubSeq(q, n + 1, Len(q)) /\ q \in Seq(Items) /\ n \in 0 .. Len(q)
  BY <1>1, <1>2, <1>3 DEF ReadOut
<1>5. r \in Seq(Items) /\ Len(r) = Len(q) - n /\ \A i \in 1 .. Len(q) - n : r[i] = q[n + i]
  BY <1>4, Split
<1>6. KeysAreKeys(r)
  <2> SUFFICES ASSUME NEW i \in 1 .. Len(r), r[i].key
               PROVE  r[i].byte \in Keys
    BY DEF KeysAreKeys
  <2>1. r[i] = q[n + i] /\ n + i \in 1 .. Len(q)
    BY <1>1, <1>2, <1>5
  <2>2. KeysAreKeys(q)
    BY <1>2 DEF Types
  <2>3. QED
    BY <2>1, <2>2 DEF KeysAreKeys
<1>7. latch' \in Bytes
  <2>1. CASE n = 0
    BY <2>1 DEF ReadOut, Types
  <2>2. CASE n # 0
    <3>1. n \in 1 .. Len(port)
      BY <1>1, <2>2
    <3>2. port[n] \in Items
      BY <1>1, <3>1, ElementOfSeq
    <3>3. QED
      BY <2>2, <3>2 DEF ReadOut, Items
  <2>3. QED
    BY <2>1, <2>2
<1>8. QED
  BY <1>3, <1>5, <1>6, <1>7

(* What comes to the queue keeps its types.                                *)
LEMMA ComesTypes ==
  ASSUME Types, NEW x \in Items, x.key => x.byte \in Keys, Comes(x)
  PROVE  port' \in Seq(Items) /\ KeysAreKeys(port') /\ port' = Append(port, x)
<1>1. PICK q : q = port
  OBVIOUS
<1>2. q \in Seq(Items) /\ KeysAreKeys(q) /\ Len(q) \in Nat
  BY <1>1, LenProperties DEF Types
<1>3. PICK r : r = port'
  OBVIOUS
<1>4. r = Append(q, x)
  BY <1>1, <1>3 DEF Comes
<1>5. /\ r \in Seq(Items) /\ Len(r) = Len(q) + 1
      /\ \A i \in 1 .. Len(q) : r[i] = q[i]
      /\ r[Len(q) + 1] = x
  BY <1>2, <1>4, AppendProperties
<1>6. KeysAreKeys(r)
  <2> SUFFICES ASSUME NEW i \in 1 .. Len(r), r[i].key
               PROVE  r[i].byte \in Keys
    BY DEF KeysAreKeys
  <2>1. CASE i \in 1 .. Len(q)
    BY <1>2, <1>5, <2>1 DEF KeysAreKeys
  <2>2. CASE i = Len(q) + 1
    BY <1>5, <2>2
  <2>3. QED
    BY <1>2, <1>5, <2>1, <2>2
<1>7. QED
  BY <1>1, <1>3, <1>4, <1>5, <1>6

(* The ring's and the rusk's parts stay when they are not touched.         *)
LEMMA TypeStays ==
  ASSUME TypeOK, UNCHANGED vars
  PROVE  TypeOK' /\ Unread' = Unread
BY DEF TypeOK, vars, Unread, Used

(* The bytes of a packet.                                                  *)
LEMMA PacketIs ==
  ASSUME NEW pressed \in Presses, NEW d \in Moves
  PROVE  /\ PacketOf(pressed, d) \in Seq(Bytes) /\ Len(PacketOf(pressed, d)) = 3
         /\ PacketOf(pressed, d)[2] = d.x % 256 /\ PacketOf(pressed, d)[3] = d.y % 256
         /\ d.x \in Int /\ Signed(d.x % 256) = d.x
         /\ d.y \in Int /\ Signed(d.y % 256) = d.y
<1>1. d.x \in -128 .. 127 /\ d.y \in -128 .. 127
  BY InputAssumption
<1>2. \A z \in -128 .. 127 : Signed(z % 256) = z
  BY DEF Signed
<1>3. PacketOf(pressed, d) \in Seq(Bytes)
  BY InputAssumption
<1>4. /\ Len(PacketOf(pressed, d)) = 3
      /\ PacketOf(pressed, d)[2] = d.x % 256 /\ PacketOf(pressed, d)[3] = d.y % 256
  BY DEF PacketOf
<1>5. d.x \in Int /\ Signed(d.x % 256) = d.x
  <2>1. PICK z \in -128 .. 127 : z = d.x
    BY <1>1
  <2>2. Signed(z % 256) = z
    BY <1>2, Zenon
  <2>3. z \in Int
    OBVIOUS
  <2>4. QED
    BY <2>1, <2>2, <2>3, Zenon
<1>6. d.y \in Int /\ Signed(d.y % 256) = d.y
  <2>1. PICK z \in -128 .. 127 : z = d.y
    BY <1>1
  <2>2. Signed(z % 256) = z
    BY <1>2, Zenon
  <2>3. z \in Int
    OBVIOUS
  <2>4. QED
    BY <2>1, <2>2, <2>3, Zenon
<1>7. QED
  BY <1>3, <1>4, <1>5, <1>6, Zenon

(* Each step keeps the types.                                              *)
LEMMA PressTypes ==
  ASSUME Types, NEW k \in Keys, press(k)
  PROVE  Types'
<1>1. PICK x : x = [key |-> TRUE, byte |-> k]
  OBVIOUS
<1>2. k \in Bytes
  BY InputAssumption DEF KeyBytes
<1>3. x \in Items /\ x.byte \in Keys
  BY <1>1, <1>2 DEF Items
<1>4. Comes(x) /\ UNCHANGED vars /\ typed' = Append(typed, k)
      /\ UNCHANGED <<device, latch, got, mousex, mousey, swept>>
  BY <1>1 DEF press, mouseVars, ruskVars
<1>5. port' \in Seq(Items) /\ KeysAreKeys(port')
  BY <1>3, <1>4, ComesTypes
<1>6. TypeOK'
  BY <1>4, TypeStays DEF Types
<1>7. typed' \in Seq(Keys)
  BY <1>4, AppendProperties DEF Types
<1>8. QED
  BY <1>4, <1>5, <1>6, <1>7 DEF Types

(* A movement of the mouse.                                                *)
LEMMA MovesTypes ==
  ASSUME Types, NEW pressed \in Presses, NEW d \in Moves, moves(pressed, d)
  PROVE  Types'
<1>1. /\ device' = PacketOf(pressed, d) /\ UNCHANGED vars
      /\ swept'.x = swept.x + d.x /\ swept'.y = swept.y + d.y
      /\ UNCHANGED <<port, latch, got, mousex, mousey, typed>>
  BY DEF moves, mouseVars, ruskVars
<1>2. device' \in Seq(Bytes) /\ d.x \in Int /\ d.y \in Int
  BY <1>1, PacketIs
<1>3. TypeOK'
  BY <1>1, TypeStays DEF Types
<1>4. QED
  BY <1>1, <1>2, <1>3 DEF Types

(* A byte of a packet comes to the controller.                             *)
LEMMA SendsTypes ==
  ASSUME Types, sends
  PROVE  Types'
<1>1. PICK x : x = [key |-> FALSE, byte |-> Head(device)]
  OBVIOUS
<1>2. device \in Seq(Bytes) /\ device # <<>>
  BY DEF Types, sends
<1>3. Head(device) \in Bytes /\ Tail(device) \in Seq(Bytes)
  BY <1>2, HeadTailProperties
<1>4. x \in Items /\ ~x.key
  BY <1>1, <1>3 DEF Items
<1>5. Comes(x) /\ UNCHANGED vars /\ device' = Tail(device)
      /\ UNCHANGED <<latch, got, mousex, mousey, swept, typed>>
  BY <1>1 DEF sends, mouseVars, ruskVars
<1>6. port' \in Seq(Items) /\ KeysAreKeys(port')
  BY <1>4, <1>5, ComesTypes
<1>7. TypeOK'
  BY <1>5, TypeStays DEF Types
<1>8. QED
  BY <1>3, <1>5, <1>6, <1>7 DEF Types

(* The interrupt.                                                          *)
LEMMA InterruptTypes ==
  ASSUME Types, interrupt
  PROVE  Types'
<1>1. PICK n : n = IF port # <<>> THEN 1 ELSE 0
  OBVIOUS
<1>2. PICK byte : byte = IF port # <<>> THEN port[1].byte ELSE latch
  OBVIOUS
<1>3. /\ key_int(byte) /\ ReadOut(n)
      /\ UNCHANGED <<device, got, mousex, mousey, swept, typed>>
  BY <1>1, <1>2 DEF interrupt, mouseVars, ruskVars
<1>4. port \in Seq(Items) /\ (port # <<>> => Len(port) \in Nat \ {0}) /\ Len(port) \in Nat
  BY EmptySeq, LenProperties DEF Types
<1>5. n \in 0 .. Len(port)
  BY <1>1, <1>4
<1>6. byte \in Bytes
  <2>1. CASE port # <<>>
    <3>1. port[1] \in Items
      BY <1>4, <2>1, ElementOfSeq
    <3>2. QED
      BY <1>2, <2>1, <3>1 DEF Items
  <2>2. CASE port = <<>>
    BY <1>2, <2>2 DEF Types
  <2>3. QED
    BY <2>1, <2>2
<1>7. TypeOK'
  BY <1>3, <1>6, KeyTypes DEF Types
<1>8. port' \in Seq(Items) /\ KeysAreKeys(port') /\ latch' \in Bytes
  BY <1>3, <1>5, ReadOutTypes
<1>9. QED
  BY <1>3, <1>7, <1>8 DEF Types

(* A whole packet is at the front of the queue.                            *)
Whole == Packet(port) /\ Len(port) >= 3

(* What get_mouse_pos reads and writes.                                    *)
MouseN   == IF Whole THEN 3 ELSE Len(HandedOn(port))
MouseOut == IF Whole THEN Codes(port[1].byte) ELSE HandedOn(port)

(* get_mouse_pos in these terms.                                           *)
LEMMA MouseDoes ==
  ASSUME Types, get_mouse_pos
  PROVE  /\ kb_write(MouseOut) /\ ReadOut(MouseN)
         /\ IF Whole THEN Noted(port) ELSE UNCHANGED mouseVars
         /\ UNCHANGED <<device, got, swept, typed, held, events>>
         /\ MouseN \in 0 .. Len(port) /\ MouseOut \in Seq(Bytes)
         /\ ~mixed' => /\ ~mixed /\ ~(reply'.count < Len(MouseOut))
                       /\ \A i \in 1 .. MouseN : port[i].key # Whole
<1>1. port \in Seq(Items) /\ Len(port) \in Nat
  BY LenProperties DEF Types
<1>2. MouseOut \in Seq(Bytes)
  BY <1>1, HandedOnIs, CodesType DEF MouseOut
<1>3. MouseN \in 0 .. Len(port)
  <2>1. CASE Whole
    BY <1>1, <2>1 DEF MouseN, Whole
  <2>2. CASE ~Whole
    BY <1>1, <2>2, HandedOnIs DEF MouseN
  <2>3. QED
    BY <2>1, <2>2
<1>4. /\ kb_write(MouseOut) /\ ReadOut(MouseN)
      /\ IF Whole THEN Noted(port) ELSE UNCHANGED mouseVars
      /\ UNCHANGED <<device, got, swept, typed, held, events>>
  BY Zenon DEF get_mouse_pos, MouseOut, MouseN, Whole
<1>5. mixed' = (\/ mixed \/ reply'.count < Len(MouseOut)
                \/ \E i \in 1 .. MouseN : port[i].key = Whole
                \/ (irq1' /\ ~KeyFirst(port')))
  BY Zenon DEF get_mouse_pos, MouseOut, MouseN, Whole
<1>6. QED
  BY <1>2, <1>3, <1>4, <1>5, Zenon

(* rusk's poll of the mouse.                                               *)
LEMMA MouseTypes ==
  ASSUME Types, get_mouse_pos
  PROVE  Types'
<1>1. /\ kb_write(MouseOut) /\ ReadOut(MouseN)
      /\ IF Whole THEN Noted(port) ELSE UNCHANGED mouseVars
      /\ UNCHANGED <<device, got, swept, typed, held, events>>
      /\ MouseN \in 0 .. Len(port) /\ MouseOut \in Seq(Bytes)
  BY MouseDoes
<1>2. TypeOK'
  BY <1>1, WriteTypes DEF Types
<1>3. port' \in Seq(Items) /\ KeysAreKeys(port') /\ latch' \in Bytes
  BY <1>1, ReadOutTypes
<1>4. mousex' \in Int /\ mousey' \in Int
  <2>1. CASE Whole
    <3>1. port \in Seq(Items) /\ 2 \in 1 .. Len(port) /\ 3 \in 1 .. Len(port)
      <4>1. port \in Seq(Items) /\ Len(port) \in Nat /\ Len(port) >= 3
        BY <2>1, LenProperties DEF Types, Whole
      <4>2. QED
        BY <4>1
    <3>2. port[2] \in Items /\ port[3] \in Items
      BY <3>1, ElementOfSeq
    <3>3. port[2].byte \in 0 .. 255 /\ port[3].byte \in 0 .. 255
      BY <3>2, InputAssumption DEF Items
    <3>4. Signed(port[2].byte) \in Int /\ Signed(port[3].byte) \in Int
      BY <3>3 DEF Signed
    <3>5. mousex' = mousex + Signed(port[2].byte) /\ mousey' = mousey - Signed(port[3].byte)
      BY <1>1, <2>1 DEF Noted
    <3>6. QED
      BY <3>4, <3>5 DEF Types
  <2>2. CASE ~Whole
    BY <1>1, <2>2 DEF Types, mouseVars
  <2>3. QED
    BY <2>1, <2>2
<1>5. QED
  BY <1>1, <1>2, <1>3, <1>4 DEF Types

(* rusk's reading of the ring.                                             *)
LEMMA EventsTypes ==
  ASSUME Types, NEW size \in Sizes, process_events(size)
  PROVE  /\ Types'
         /\ \E data \in Seq(Bytes) : /\ data = Window(key_buf, key_buf_bot, Least(size, Used))
                                     /\ data \o Unread' = Unread /\ got' = got \o data
<1>1. PICK data : data = Window(key_buf, key_buf_bot, Least(size, Used))
  OBVIOUS
<1>2. /\ kb_read(size) /\ got' = got \o data
      /\ UNCHANGED <<port, latch, device, mousex, mousey, typed, swept>>
  BY <1>1 DEF process_events, deviceVars, mouseVars
<1>3. size \in Nat
  BY RingAssumption
<1>4. data \in Seq(Bytes) /\ data \o Unread' = Unread
  BY <1>1, <1>2, <1>3, UnreadRead DEF Types
<1>5. TypeOK'
  BY <1>2, <1>3, ReadTypes DEF Types
<1>6. got' \in Seq(Bytes)
  BY <1>2, <1>4, ConcatProperties DEF Types
<1>7. Types'
  BY <1>2, <1>5, <1>6 DEF Types
<1>8. QED
  BY <1>1, <1>2, <1>4, <1>7

(* Nothing happens.                                                        *)
LEMMA StutterTypes ==
  ASSUME Types, UNCHANGED inputVars
  PROVE  Types' /\ Unread' = Unread
<1>1. /\ UNCHANGED vars
      /\ UNCHANGED <<port, device, latch, got, typed, mousex, mousey, swept>>
  BY DEF inputVars, deviceVars, mouseVars, ruskVars
<1>2. TypeOK' /\ Unread' = Unread
  BY <1>1, TypeStays DEF Types
<1>3. QED
  BY <1>1, <1>2 DEF Types

(***************************************************************************)
(* What is handed over while nothing is mixed up: keys as they are, or a   *)
(* whole packet, for which the codes of the changed buttons are handed on. *)
(***************************************************************************)

KeysPass(n) ==
  /\ n \in 0 .. Len(port) /\ port' = SubSeq(port, n + 1, Len(port))
  /\ \A i \in 1 .. n : port[i].key = TRUE
  /\ Unread' = Unread \o Front(port, n)
  /\ UNCHANGED mouseVars

PacketPasses ==
  /\ 3 \in 0 .. Len(port) /\ port' = SubSeq(port, 3 + 1, Len(port))
  /\ \A i \in 1 .. 3 : port[i].key = FALSE
  /\ Unread' = Unread \o Codes(port[1].byte)
  /\ Noted(port)

(* The interrupt hands over one key.                                       *)
LEMMA InterruptPasses ==
  ASSUME Types, interrupt, ~mixed'
  PROVE  KeysPass(1) /\ UNCHANGED <<device, got, swept, typed, held, events>> /\ ~mixed
<1>1. KeyFirst(port) /\ Used # KEY_BUF_MAX_SIZE - 1 /\ ~mixed
  BY DEF interrupt
<1>2. port # <<>> /\ port[1].key
  BY <1>1 DEF KeyFirst
<1>3. key_int(port[1].byte) /\ ReadOut(1)
      /\ UNCHANGED <<device, got, swept, typed, held, events, mouseVars>>
  BY <1>2 DEF interrupt, ruskVars
<1>4. port \in Seq(Items) /\ 1 \in 1 .. Len(port) /\ 1 \in 0 .. Len(port)
  <2>1. port \in Seq(Items) /\ Len(port) \in Nat \ {0}
    BY <1>2, EmptySeq DEF Types
  <2>2. QED
    BY <2>1
<1>5. port[1] \in Items
  BY <1>4, ElementOfSeq
<1>6. port[1].byte \in Bytes /\ port[1].key = TRUE
  BY <1>2, <1>5 DEF Items
<1>7. Unread' = Unread \o <<port[1].byte>>
  BY <1>1, <1>3, <1>6, UnreadKey DEF Types
<1>8. Front(port, 1) = <<port[1].byte>>
  BY DEF Front
<1>9. \A i \in 1 .. 1 : port[i].key = TRUE
  BY <1>6
<1>10. port' = SubSeq(port, 1 + 1, Len(port))
  BY <1>3 DEF ReadOut
<1>11. QED
  BY <1>1, <1>3, <1>4, <1>7, <1>8, <1>9, <1>10 DEF KeysPass, ruskVars

(* get_mouse_pos hands over keys or a packet.                              *)
LEMMA MousePasses ==
  ASSUME Types, get_mouse_pos, ~mixed'
  PROVE  /\ PacketPasses \/ \E n \in 0 .. Len(port) : KeysPass(n)
         /\ UNCHANGED <<device, got, swept, typed, held, events>> /\ ~mixed
<1>1. /\ kb_write(MouseOut) /\ ReadOut(MouseN)
      /\ IF Whole THEN Noted(port) ELSE UNCHANGED mouseVars
      /\ UNCHANGED <<device, got, swept, typed, held, events>>
      /\ MouseN \in 0 .. Len(port) /\ MouseOut \in Seq(Bytes)
      /\ ~mixed /\ ~(reply'.count < Len(MouseOut))
      /\ \A i \in 1 .. MouseN : port[i].key # Whole
  BY MouseDoes, Zenon
<1>2. Unread' = Unread \o MouseOut
  BY <1>1, UnreadWrite DEF Types
<1>3. \A i \in 1 .. Len(port) : port[i].key \in BOOLEAN
  <2>1. \A i \in 1 .. Len(port) : port[i] \in Items
    BY ElementOfSeq DEF Types
  <2>2. QED
    BY <2>1 DEF Items
<1>4. port' = SubSeq(port, MouseN + 1, Len(port))
  BY <1>1 DEF ReadOut
<1>5. Len(port) \in Nat /\ \A i \in 1 .. MouseN : i \in 1 .. Len(port)
  <2>1. Len(port) \in Nat
    BY LenProperties DEF Types
  <2>2. QED
    BY <1>1, <2>1
<1>6. CASE Whole
  <2>1. MouseN = 3 /\ MouseOut = Codes(port[1].byte) /\ Noted(port)
    BY <1>1, <1>6 DEF MouseN, MouseOut
  <2>2. ASSUME NEW i \in 1 .. MouseN
        PROVE  port[i].key = FALSE
    <3>1. port[i].key \in BOOLEAN /\ port[i].key # Whole
      BY <1>1, <1>3, <1>5
    <3>2. CASE port[i].key = TRUE
      BY <1>6, <3>1, <3>2 DEF Whole
    <3>3. QED
      BY <3>1, <3>2
  <2>3. PacketPasses
    BY <1>1, <1>2, <1>4, <2>1, <2>2 DEF PacketPasses
  <2>4. QED
    BY <1>1, <2>3
<1>7. CASE ~Whole
  <2>1. MouseN = Len(HandedOn(port)) /\ MouseOut = HandedOn(port) /\ UNCHANGED mouseVars
    BY <1>1, <1>7 DEF MouseN, MouseOut
  <2>2. ASSUME NEW i \in 1 .. MouseN
        PROVE  port[i].key = TRUE
    <3>1. port[i].key \in BOOLEAN /\ port[i].key # Whole
      BY <1>1, <1>3, <1>5
    <3>2. CASE port[i].key = FALSE
      BY <1>7, <3>1, <3>2 DEF Whole
    <3>3. QED
      BY <3>1, <3>2
  <2>3. HandedOn(port) = Front(port, Len(HandedOn(port)))
    BY HandedOnIs DEF Types
  <2>4. KeysPass(MouseN)
    BY <1>1, <1>2, <1>4, <2>1, <2>2, <2>3 DEF KeysPass
  <2>5. QED
    BY <1>1, <2>4
<1>8. QED
  BY <1>6, <1>7

-----------------------------------------------------------------------------
(***************************************************************************)
(* Every key arrives, in order.                                            *)
(***************************************************************************)

(* KeysInOrder without its condition.                                      *)
Ordered == Only(got \o Unread, KeyBytes) \o Part(port, TRUE) = typed

(* It is that.                                                             *)
LEMMA OrderedIs ==
  (KeysInOrder <=> (~mixed => Ordered))
BY Zenon DEF KeysInOrder, Ordered, PortKeys, PortItems, Part

(* The bytes rusk has and those in the ring.                               *)
LEMMA Delivered ==
  ASSUME Types
  PROVE  got \o Unread \in Seq(Bytes) /\ got \in Seq(Bytes) /\ Unread \in Seq(Bytes)
<1>1. got \in Seq(Bytes) /\ Unread \in Seq(Bytes)
  BY UnreadSeq DEF Types
<1>2. QED
  BY <1>1, ConcatProperties

(* What is written is delivered after the rest.                            *)
LEMMA HandedOver ==
  ASSUME Types, NEW out \in Seq(Bytes), got' = got, Unread' = Unread \o out, NEW S
  PROVE  Only(got' \o Unread', S) = Only(got \o Unread, S) \o Only(out, S)
<1>1. PICK u : u = Unread
  OBVIOUS
<1>2. PICK v : v = Unread'
  OBVIOUS
<1>3. u \in Seq(Bytes) /\ got \in Seq(Bytes) /\ got \o u \in Seq(Bytes) /\ v = u \o out
  BY <1>1, <1>2, Delivered
<1>4. got \o v = (got \o u) \o out
  <2>1. PICK g \in Seq(Bytes) : g = got
    BY <1>3
  <2>2. PICK w \in Seq(Bytes) : w = u
    BY <1>3
  <2>3. (g \o w) \o out = g \o (w \o out)
    BY Regroup, Zenon
  <2>4. QED
    BY <1>3, <2>1, <2>2, <2>3, Zenon
<1>5. Only((got \o u) \o out, S) = Only(got \o u, S) \o Only(out, S)
  BY <1>3, OnlyCat
<1>6. QED
  BY <1>1, <1>2, <1>4, <1>5

(* What rusk reads is delivered as before.                                 *)
LEMMA ReadBefore ==
  ASSUME Types, NEW data \in Seq(Bytes), data \o Unread' = Unread, got' = got \o data,
         Unread' \in Seq(Bytes)
  PROVE  got' \o Unread' = got \o Unread
<1>1. PICK u : u = Unread
  OBVIOUS
<1>2. PICK v : v = Unread'
  OBVIOUS
<1>3. v \in Seq(Bytes) /\ got \in Seq(Bytes) /\ data \o v = u
  BY <1>1, <1>2, Delivered
<1>4. (got \o data) \o v = got \o (data \o v)
  <2>1. PICK g \in Seq(Bytes) : g = got
    BY <1>3
  <2>2. PICK w \in Seq(Bytes) : w = v
    BY <1>3
  <2>3. (g \o data) \o w = g \o (data \o w)
    BY Regroup, Zenon
  <2>4. QED
    BY <2>1, <2>2, <2>3, Zenon
<1>5. QED
  BY <1>1, <1>2, <1>3, <1>4

(* A key typed is the last in the queue.                                   *)
LEMMA PressOrdered ==
  ASSUME Types, Ordered, NEW k \in Keys, press(k)
  PROVE  Ordered'
<1>1. PICK x : x = [key |-> TRUE, byte |-> k]
  OBVIOUS
<1>2. k \in Bytes
  BY InputAssumption DEF KeyBytes
<1>3. x \in Items /\ x.key = TRUE /\ x.byte = k
  BY <1>1, <1>2 DEF Items
<1>4. port' = Append(port, x) /\ UNCHANGED vars /\ typed' = Append(typed, k) /\ got' = got
  BY <1>1 DEF press, ruskVars, Comes
<1>5. Unread' = Unread
  BY <1>4, TypeStays DEF Types
<1>6. Part(port', TRUE) = Part(port, TRUE) \o <<k>>
  BY <1>3, <1>4, PartAppend DEF Types
<1>7. PICK a : a = Only(got \o Unread, KeyBytes)
  OBVIOUS
<1>8. PICK b : b = Part(port, TRUE)
  OBVIOUS
<1>9. a \in Seq(Bytes) /\ b \in Seq(Bytes) /\ <<k>> \in Seq(Bytes)
  <2>1. Only(got \o Unread, KeyBytes) \in Seq(KeyBytes)
    BY Delivered, OnlyType
  <2>2. KeyBytes \subseteq Bytes
    BY DEF KeyBytes
  <2>3. a \in Seq(Bytes)
    BY <1>7, <2>1, <2>2, SeqMonotonic
  <2>4. b \in Seq(Bytes)
    BY <1>8, PartCat DEF Types
  <2>5. QED
    BY <1>2, <2>3, <2>4
<1>10. a \o (b \o <<k>>) = (a \o b) \o <<k>> /\ a \o b \in Seq(Bytes)
  BY <1>9, ConcatAssociative, ConcatProperties
<1>11. (a \o b) \o <<k>> = Append(a \o b, k)
  BY <1>2, <1>10, AppendIsConcat
<1>12. typed = a \o b
  BY <1>7, <1>8 DEF Ordered
<1>13. Only(got' \o Unread', KeyBytes) = a
  BY <1>4, <1>5, <1>7
<1>14. QED
  BY <1>4, <1>6, <1>8, <1>10, <1>11, <1>12, <1>13 DEF Ordered

(* A byte of a packet is no key.                                           *)
LEMMA SendsOrdered ==
  ASSUME Types, Ordered, sends
  PROVE  Ordered'
<1>1. PICK x : x = [key |-> FALSE, byte |-> Head(device)]
  OBVIOUS
<1>2. device \in Seq(Bytes) /\ device # <<>>
  BY DEF Types, sends
<1>3. x \in Items /\ x.key = FALSE
  BY <1>1, <1>2, HeadTailProperties DEF Items
<1>4. port' = Append(port, x) /\ UNCHANGED vars /\ typed' = typed /\ got' = got
  BY <1>1 DEF sends, ruskVars, Comes
<1>5. Unread' = Unread
  BY <1>4, TypeStays DEF Types
<1>6. Part(port', TRUE) = Part(port, TRUE) \o <<>>
  BY <1>3, <1>4, PartAppend DEF Types
<1>7. Part(port, TRUE) \o <<>> = Part(port, TRUE)
  <2>1. Part(port, TRUE) \in Seq(Bytes)
    BY PartCat DEF Types
  <2>2. QED
    BY <2>1, ConcatEmptySeq
<1>8. QED
  BY <1>4, <1>5, <1>6, <1>7 DEF Ordered

(* The bytes at the front that are keys are key bytes.                     *)
LEMMA FrontKeys ==
  ASSUME Types, NEW n \in 0 .. Len(port), \A i \in 1 .. n : port[i].key = TRUE
  PROVE  Front(port, n) \in Seq(KeyBytes) /\ Front(port, n) \in Seq(Bytes)
<1>1. Len(port) \in Nat
  BY LenProperties DEF Types
<1>2. \A i \in 1 .. n : port[i].byte \in KeyBytes
  <2> SUFFICES ASSUME NEW i \in 1 .. n
               PROVE  port[i].byte \in KeyBytes
    OBVIOUS
  <2>1. i \in 1 .. Len(port)
    BY <1>1
  <2>2. port[i].byte \in Keys
    BY <2>1 DEF Types, KeysAreKeys
  <2>3. QED
    BY <2>2, InputAssumption
<1>3. Front(port, n) \in [1 .. n -> KeyBytes]
  BY <1>2 DEF Front
<1>4. n \in Nat
  BY <1>1
<1>5. Front(port, n) \in Seq(KeyBytes)
  BY <1>3, <1>4, SeqDef
<1>6. KeyBytes \subseteq Bytes
  BY DEF KeyBytes
<1>7. QED
  BY <1>5, <1>6, SeqMonotonic

(* Keys that are handed over are delivered instead of waiting.             *)
LEMMA KeysPassOrdered ==
  ASSUME Types, Ordered, NEW n, KeysPass(n), got' = got, typed' = typed
  PROVE  Ordered'
<1>1. PICK q : q = port
  OBVIOUS
<1>2. PICK r : r = port'
  OBVIOUS
<1>3. /\ q \in Seq(Items) /\ n \in 0 .. Len(q) /\ r = SubSeq(q, n + 1, Len(q))
      /\ \A i \in 1 .. n : q[i].key = TRUE
      /\ Unread' = Unread \o Front(q, n)
  BY <1>1, <1>2 DEF KeysPass, Types
<1>4. Part(q, TRUE) = Front(q, n) \o Part(r, TRUE) /\ Part(r, TRUE) \in Seq(Bytes)
  BY <1>3, PartRest
<1>5. Front(q, n) \in Seq(KeyBytes) /\ Front(q, n) \in Seq(Bytes)
  BY <1>1, <1>3, FrontKeys
<1>6. PICK a : a = Only(got \o Unread, KeyBytes)
  OBVIOUS
<1>7. Only(got' \o Unread', KeyBytes) = a \o Only(Front(q, n), KeyBytes)
  BY <1>3, <1>5, <1>6, HandedOver
<1>8. Only(Front(q, n), KeyBytes) = Front(q, n)
  BY <1>5, OnlyAll
<1>9. a \in Seq(Bytes)
  <2>1. Only(got \o Unread, KeyBytes) \in Seq(KeyBytes)
    BY Delivered, OnlyType
  <2>2. KeyBytes \subseteq Bytes
    BY DEF KeyBytes
  <2>3. QED
    BY <1>6, <2>1, <2>2, SeqMonotonic
<1>10. PICK f \in Seq(Bytes) : f = Front(q, n)
  BY <1>5
<1>11. PICK p \in Seq(Bytes) : p = Part(r, TRUE)
  BY <1>4
<1>12. (a \o f) \o p = a \o (f \o p)
  BY <1>9, ConcatAssociative
<1>13. typed = a \o (f \o p)
  BY <1>1, <1>4, <1>6, <1>10, <1>11 DEF Ordered
<1>14. Only(got' \o Unread', KeyBytes) = a \o f
  BY <1>7, <1>8, <1>10
<1>15. QED
  BY <1>2, <1>11, <1>12, <1>13, <1>14 DEF Ordered

(* Of a packet no key is delivered.                                        *)
LEMMA PacketOrdered ==
  ASSUME Types, Ordered, PacketPasses, got' = got, typed' = typed
  PROVE  Ordered'
<1>1. PICK q : q = port
  OBVIOUS
<1>2. PICK r : r = port'
  OBVIOUS
<1>3. PICK c : c = Codes(port[1].byte)
  OBVIOUS
<1>4. /\ q \in Seq(Items) /\ 3 \in 0 .. Len(q) /\ r = SubSeq(q, 3 + 1, Len(q))
      /\ \A i \in 1 .. 3 : q[i].key = FALSE
      /\ Unread' = Unread \o c
  BY <1>1, <1>2, <1>3 DEF PacketPasses, Types
<1>5. \A i \in 1 .. 3 : q[i].key # TRUE
  BY <1>4
<1>6. Part(q, TRUE) = Part(r, TRUE)
  BY <1>4, <1>5, PartRest
<1>7. c \in Seq(ButtonCodes) /\ c \in Seq(Bytes)
  BY <1>3, CodesType
<1>8. ButtonCodes \cap KeyBytes = {}
  BY DEF KeyBytes
<1>9. Only(c, KeyBytes) = <<>>
  BY <1>7, <1>8, OnlyNone
<1>10. Only(got' \o Unread', KeyBytes) = Only(got \o Unread, KeyBytes) \o <<>>
  BY <1>4, <1>7, <1>9, HandedOver
<1>11. Only(got \o Unread, KeyBytes) \in Seq(KeyBytes)
  BY Delivered, OnlyType
<1>12. Only(got' \o Unread', KeyBytes) = Only(got \o Unread, KeyBytes)
  BY <1>10, <1>11, ConcatEmptySeq
<1>13. QED
  BY <1>1, <1>2, <1>6, <1>12 DEF Ordered

(* Other steps leave the order alone.                                      *)
LEMMA StaysOrdered ==
  ASSUME Ordered, got' \o Unread' = got \o Unread, port' = port, typed' = typed
  PROVE  Ordered'
BY DEF Ordered

-----------------------------------------------------------------------------
(***************************************************************************)
(* The buttons.                                                            *)
(***************************************************************************)

Pair(i) == {Code(i, TRUE), Code(i, FALSE)}
Told(i) == Only(got \o Unread, Pair(i))

(* The codes take turns, and b says whether the last one was a press.      *)
Turns(s, i, b) ==
  /\ \A n \in DOMAIN s : s[n] = Code(i, n % 2 = 1)
  /\ b = (Len(s) % 2 = 1)

(* ButtonsTold without its condition.                                      *)
AllTold == \A i \in Buttons : Turns(Told(i), i, Bit(obtns, i))

(* It is that.                                                             *)
LEMMA AllToldIs ==
  (ButtonsTold <=> (~mixed => AllTold))
BY Zenon DEF ButtonsTold, AllTold, Turns, Told, Pair

(* The two codes of a button are its own, and no keys.                     *)
LEMMA PairsApart ==
  /\ \A i \in Buttons : Pair(i) \cap KeyBytes = {}
  /\ \A i, j \in Buttons : i # j => Pair(i) \cap Pair(j) = {}
  /\ \A i \in Buttons, b \in BOOLEAN : Code(i, b) \in Pair(i)
  /\ \A i \in Buttons : Pair(i) \subseteq ButtonCodes
<1>1. \A i \in Buttons, b \in BOOLEAN : Code(i, b) \in Pair(i)
  BY DEF Pair
<1>2. \A i \in Buttons : Pair(i) \subseteq ButtonCodes
  <2> SUFFICES ASSUME NEW i \in Buttons
               PROVE  Code(i, TRUE) \in ButtonCodes /\ Code(i, FALSE) \in ButtonCodes
    BY DEF Pair
  <2>1. \A b \in BOOLEAN : Code(i, b) \in ButtonCodes
    BY DEF ButtonCodes
  <2>2. QED
    BY <2>1
<1>3. \A i \in Buttons : Pair(i) \cap KeyBytes = {}
  BY <1>2 DEF KeyBytes
<1>4. \A i, j \in Buttons : i # j => Pair(i) \cap Pair(j) = {}
  BY DEF Pair, Code, Buttons
<1>5. QED
  BY <1>1, <1>2, <1>3, <1>4

(* Of the codes handed on for a packet each button has its own.            *)
LEMMA CodesOf ==
  ASSUME NEW b, NEW i \in Buttons
  PROVE  Only(Codes(b), Pair(i)) = CodeIf(b, i)
<1>1. \A j \in Buttons : CodeIf(b, j) \in Seq(Pair(j))
  <2> SUFFICES ASSUME NEW j \in Buttons
               PROVE  CodeIf(b, j) \in Seq(Pair(j))
    OBVIOUS
  <2>1. Code(j, Bit(b, j)) \in Pair(j)
    BY PairsApart DEF Bit
  <2>2. <<Code(j, Bit(b, j))>> \in Seq(Pair(j)) /\ <<>> \in Seq(Pair(j))
    BY <2>1
  <2>3. QED
    BY <2>2 DEF CodeIf
<1>2. \A j \in Buttons : Only(CodeIf(b, j), Pair(i)) = IF j = i THEN CodeIf(b, i) ELSE <<>>
  <2> SUFFICES ASSUME NEW j \in Buttons
               PROVE  Only(CodeIf(b, j), Pair(i)) = IF j = i THEN CodeIf(b, i) ELSE <<>>
    OBVIOUS
  <2>1. CodeIf(b, j) \in Seq(Pair(j))
    BY <1>1
  <2>2. CASE j = i
    BY <2>1, <2>2, OnlyAll
  <2>3. CASE j # i
    <3>1. Pair(j) \cap Pair(i) = {}
      BY <2>3, PairsApart
    <3>2. Only(CodeIf(b, j), Pair(i)) = <<>>
      BY <2>1, <3>1, OnlyNone
    <3>3. QED
      BY <2>3, <3>2
  <2>4. QED
    BY <2>2, <2>3
<1>3. 0 \in Buttons /\ 1 \in Buttons /\ 2 \in Buttons
  BY DEF Buttons
<1>4. PICK c0 \in Seq(ButtonCodes) : c0 = CodeIf(b, 0)
  BY <1>3, CodesType
<1>5. PICK c1 \in Seq(ButtonCodes) : c1 = CodeIf(b, 1)
  BY <1>3, CodesType
<1>6. PICK c2 \in Seq(ButtonCodes) : c2 = CodeIf(b, 2)
  BY <1>3, CodesType
<1>7. PICK c01 \in Seq(ButtonCodes) : c01 = c0 \o c1
  <2>1. c0 \o c1 \in Seq(ButtonCodes)
    BY ConcatProperties
  <2>2. QED
    BY <2>1
<1>8. Only(c01, Pair(i)) = Only(c0, Pair(i)) \o Only(c1, Pair(i))
  BY <1>7, OnlyCat
<1>9. Only(c01 \o c2, Pair(i)) = Only(c01, Pair(i)) \o Only(c2, Pair(i))
  BY OnlyCat
<1>10. Codes(b) = c01 \o c2
  BY <1>4, <1>5, <1>6, <1>7 DEF Codes
<1>11. /\ Only(c0, Pair(i)) = IF 0 = i THEN CodeIf(b, i) ELSE <<>>
       /\ Only(c1, Pair(i)) = IF 1 = i THEN CodeIf(b, i) ELSE <<>>
       /\ Only(c2, Pair(i)) = IF 2 = i THEN CodeIf(b, i) ELSE <<>>
  BY <1>2, <1>3, <1>4, <1>5, <1>6, Zenon
<1>12. PICK e \in Seq(Pair(i)) : e = CodeIf(b, i)
  BY <1>1
<1>13. <<>> \o e = e /\ e \o <<>> = e /\ <<>> \o <<>> = <<>>
  <2>1. <<>> \in Seq(Pair(i))
    BY EmptySeq
  <2>2. QED
    BY <2>1, ConcatEmptySeq
<1>14. CASE i = 0
  <2>1. Only(c0, Pair(i)) = e /\ Only(c1, Pair(i)) = <<>> /\ Only(c2, Pair(i)) = <<>>
    BY <1>11, <1>12, <1>14
  <2>2. QED
    BY <1>8, <1>9, <1>10, <1>12, <1>13, <2>1
<1>15. CASE i = 1
  <2>1. Only(c0, Pair(i)) = <<>> /\ Only(c1, Pair(i)) = e /\ Only(c2, Pair(i)) = <<>>
    BY <1>11, <1>12, <1>15
  <2>2. QED
    BY <1>8, <1>9, <1>10, <1>12, <1>13, <2>1
<1>16. CASE i = 2
  <2>1. Only(c0, Pair(i)) = <<>> /\ Only(c1, Pair(i)) = <<>> /\ Only(c2, Pair(i)) = e
    BY <1>11, <1>12, <1>16
  <2>2. QED
    BY <1>8, <1>9, <1>10, <1>12, <1>13, <2>1
<1>17. QED
  BY <1>14, <1>15, <1>16 DEF Buttons

(* A code for a changed button keeps the turns.                            *)
LEMMA TurnTaken ==
  ASSUME NEW i \in Buttons, NEW s \in Seq(Pair(i)), NEW b \in BOOLEAN, NEW c \in BOOLEAN,
         Turns(s, i, b)
  PROVE  Turns(s \o IF c # b THEN <<Code(i, c)>> ELSE <<>>, i, c)
<1>1. CASE c = b
  <2>1. s \o <<>> = s
    BY ConcatEmptySeq
  <2>2. QED
    BY <1>1, <2>1
<1>2. CASE c # b
  <2>1. PICK e : e = Code(i, c)
    OBVIOUS
  <2>2. e \in Pair(i)
    BY <2>1, PairsApart
  <2>3. PICK r : r = Append(s, e)
    OBVIOUS
  <2>4. PICK n \in Nat : n = Len(s) /\ DOMAIN s = 1 .. n
    BY LenProperties
  <2>5. /\ r \in Seq(Pair(i)) /\ Len(r) = n + 1 /\ r[n + 1] = e
        /\ \A k \in 1 .. n : r[k] = s[k]
    BY <2>2, <2>3, <2>4, AppendProperties
  <2>6. DOMAIN r = 1 .. n + 1
    BY <2>5, LenProperties
  <2>7. b = (n % 2 = 1) /\ \A k \in 1 .. n : s[k] = Code(i, k % 2 = 1)
    BY <2>4 DEF Turns
  <2>8. c = ((n + 1) % 2 = 1)
    <3>1. (n + 1) % 2 = 1 <=> ~(n % 2 = 1)
      OBVIOUS
    <3>2. QED
      BY <1>2, <2>7, <3>1
  <2>9. ASSUME NEW k \in DOMAIN r
        PROVE  r[k] = Code(i, k % 2 = 1)
    <3>1. CASE k \in 1 .. n
      BY <2>5, <2>7, <3>1
    <3>2. CASE k = n + 1
      BY <2>1, <2>5, <2>8, <3>2
    <3>3. QED
      BY <2>6, <3>1, <3>2
  <2>10. Turns(r, i, c)
    BY <2>5, <2>8, <2>9 DEF Turns
  <2>11. r = s \o <<e>>
    BY <2>2, <2>3, AppendIsConcat
  <2>12. QED
    BY <1>2, <2>1, <2>10, <2>11
<1>3. QED
  BY <1>1, <1>2

(* Keys tell nothing of buttons.                                           *)
LEMMA KeysPassTold ==
  ASSUME Types, AllTold, NEW n, KeysPass(n), got' = got
  PROVE  AllTold'
<1>1. PICK f : f = Front(port, n)
  OBVIOUS
<1>2. f \in Seq(KeyBytes) /\ f \in Seq(Bytes) /\ Unread' = Unread \o f /\ obtns' = obtns
  BY <1>1, FrontKeys DEF KeysPass, mouseVars
<1>3. ASSUME NEW i \in Buttons
      PROVE  Turns(Told(i)', i, Bit(obtns', i))
  <2>1. Only(f, Pair(i)) = <<>>
    <3>1. KeyBytes \cap Pair(i) = {}
      BY PairsApart
    <3>2. QED
      BY <1>2, <3>1, OnlyNone
  <2>2. Told(i)' = Told(i) \o <<>>
    BY <1>2, <2>1, HandedOver DEF Told
  <2>3. Told(i) \in Seq(Pair(i))
    BY Delivered, OnlyType DEF Told
  <2>4. Told(i)' = Told(i)
    BY <2>2, <2>3, ConcatEmptySeq
  <2>5. QED
    BY <1>2, <2>4 DEF AllTold
<1>4. QED
  BY <1>3 DEF AllTold

(* A packet tells what has changed.                                        *)
LEMMA PacketTold ==
  ASSUME Types, AllTold, PacketPasses, got' = got
  PROVE  AllTold'
<1>1. PICK btns : btns = port[1].byte
  OBVIOUS
<1>2. PICK c : c = Codes(btns)
  OBVIOUS
<1>3. c \in Seq(Bytes) /\ Unread' = Unread \o c /\ obtns' = btns
  BY <1>1, <1>2, CodesType DEF PacketPasses, Noted
<1>4. ASSUME NEW i \in Buttons
      PROVE  Turns(Told(i)', i, Bit(obtns', i))
  <2>1. Told(i)' = Told(i) \o CodeIf(btns, i)
    <3>1. Only(c, Pair(i)) = CodeIf(btns, i)
      BY <1>2, CodesOf
    <3>2. QED
      BY <1>3, <3>1, HandedOver DEF Told
  <2>2. Told(i) \in Seq(Pair(i))
    BY Delivered, OnlyType DEF Told
  <2>3. Turns(Told(i), i, Bit(obtns, i))
    BY DEF AllTold
  <2>4. PICK a \in BOOLEAN : a = Bit(obtns, i)
    BY DEF Bit
  <2>5. PICK b \in BOOLEAN : b = Bit(btns, i)
    BY DEF Bit
  <2>6. Turns(Told(i) \o IF b # a THEN <<Code(i, b)>> ELSE <<>>, i, b)
    BY <2>2, <2>3, <2>4, TurnTaken
  <2>7. CodeIf(btns, i) = IF b # a THEN <<Code(i, b)>> ELSE <<>>
    BY <2>4, <2>5, Zenon DEF CodeIf
  <2>8. QED
    BY <1>3, <2>1, <2>5, <2>6, <2>7, Zenon
<1>5. QED
  BY <1>4 DEF AllTold

(* Other steps tell nothing.                                               *)
LEMMA StaysTold ==
  ASSUME AllTold, got' \o Unread' = got \o Unread, obtns' = obtns
  PROVE  AllTold'
BY DEF AllTold, Told

-----------------------------------------------------------------------------
(***************************************************************************)
(* The pointer.  The bytes of packets on their way, in the queue and still *)
(* in the mouse, lead from where the pointer is to where all the packets   *)
(* sent have moved it, three bytes a step.                                 *)
(***************************************************************************)

OnTheWay == Part(port, FALSE) \o device

(* n steps along the bytes m, from p[0] to p[n] and from r[0] to r[n].     *)
Leads(m, n, p, r) ==
  /\ Len(m) = 3 * n
  /\ p \in [0 .. n -> Int] /\ r \in [0 .. n -> Int]
  /\ \A k \in 1 .. n : /\ p[k] = p[k - 1] + Signed(m[3 * k - 1])
                       /\ r[k] = r[k - 1] - Signed(m[3 * k])

Led(m, n, p, r, fromx, fromy, tox, toy) ==
  Leads(m, n, p, r) /\ p[0] = fromx /\ r[0] = fromy /\ p[n] = tox /\ r[n] = toy

Route(m, fromx, fromy, tox, toy) ==
  \E n \in Nat : \E p, r : Led(m, n, p, r, fromx, fromy, tox, toy)

(* The invariant of the pointer.                                           *)
Placed == Route(OnTheWay, mousex, mousey, swept.x, -swept.y)

(* With nothing on its way the pointer has arrived.                        *)
LEMMA PlacedIs ==
  ASSUME Types, Placed
  PROVE  device = <<>> /\ (\A i \in DOMAIN port : port[i].key) =>
           mousex = swept.x /\ mousey = -swept.y
<1> SUFFICES ASSUME device = <<>>, \A i \in DOMAIN port : port[i].key
             PROVE  mousex = swept.x /\ mousey = -swept.y
  OBVIOUS
<1>1. PICK q \in Seq(Items) : q = port
  BY DEF Types
<1>2. DOMAIN q = 1 .. Len(q)
  BY LenProperties
<1>3. \A i \in 1 .. Len(q) : q[i].key # FALSE
  <2>1. \A i \in 1 .. Len(q) : q[i].key
    BY <1>1, <1>2
  <2>2. QED
    BY <2>1, Zenon
<1>4. Part(q, FALSE) = <<>>
  BY <1>3, PartAll
<1>5. OnTheWay = <<>> /\ Len(OnTheWay) = 0
  <2>1. <<>> \o <<>> = <<>> /\ Len(<<>>) = 0
    OBVIOUS
  <2>2. QED
    BY <1>1, <1>4, <2>1 DEF OnTheWay
<1>6. PICK n \in Nat : \E p, r : Led(OnTheWay, n, p, r, mousex, mousey, swept.x, -swept.y)
  BY DEF Placed, Route
<1>7. PICK p, r : Led(OnTheWay, n, p, r, mousex, mousey, swept.x, -swept.y)
  BY <1>6
<1>8. n = 0
  BY <1>5, <1>7 DEF Led, Leads
<1>9. QED
  BY <1>7, <1>8 DEF Led

(* A packet sent makes the way one step longer.                            *)
LEMMA Longer ==
  ASSUME NEW m \in Seq(Bytes), NEW fromx, NEW fromy, NEW tox \in Int, NEW toy \in Int,
         Route(m, fromx, fromy, tox, toy),
         NEW b \in Seq(Bytes), Len(b) = 3, NEW x \in Int, NEW y \in Int,
         Signed(b[2]) = x, Signed(b[3]) = y
  PROVE  Route(m \o b, fromx, fromy, tox + x, toy - y)
<1>1. PICK n \in Nat : \E p, r : Led(m, n, p, r, fromx, fromy, tox, toy)
  BY DEF Route
<1>2. PICK p, r : Led(m, n, p, r, fromx, fromy, tox, toy)
  BY <1>1
<1>3. /\ Len(m) = 3 * n /\ p \in [0 .. n -> Int] /\ r \in [0 .. n -> Int]
      /\ p[0] = fromx /\ r[0] = fromy /\ p[n] = tox /\ r[n] = toy
  BY <1>2 DEF Led, Leads
<1>4. \A k \in 1 .. n : /\ p[k] = p[k - 1] + Signed(m[3 * k - 1])
                        /\ r[k] = r[k - 1] - Signed(m[3 * k])
  BY <1>2 DEF Led, Leads
<1>5. PICK w : w = m \o b
  OBVIOUS
<1>6. /\ Len(w) = 3 * n + 3
      /\ \A i \in 1 .. 3 * n + 3 : w[i] = IF i <= 3 * n THEN m[i] ELSE b[i - 3 * n]
  <2>1. PICK l \in Nat : l = Len(m) /\ l = 3 * n
    BY <1>3
  <2>2. /\ Len(w) = Len(m) + Len(b)
        /\ \A i \in 1 .. Len(m) + Len(b) :
             w[i] = IF i <= Len(m) THEN m[i] ELSE b[i - Len(m)]
    BY <1>5, ConcatProperties, Zenon
  <2>3. QED
    BY <2>1, <2>2
<1>7. PICK p2 : p2 = [k \in 0 .. n + 1 |-> IF k = n + 1 THEN tox + x ELSE p[k]]
  OBVIOUS
<1>8. PICK r2 : r2 = [k \in 0 .. n + 1 |-> IF k = n + 1 THEN toy - y ELSE r[k]]
  OBVIOUS
<1>9. /\ \A k \in 0 .. n : p2[k] = p[k] /\ r2[k] = r[k]
      /\ p2[n + 1] = tox + x /\ r2[n + 1] = toy - y
  <2>1. \A k \in 0 .. n : k \in 0 .. n + 1 /\ k # n + 1
    OBVIOUS
  <2>2. n + 1 \in 0 .. n + 1
    OBVIOUS
  <2>3. QED
    BY <1>7, <1>8, <2>1, <2>2
<1>10. p2 \in [0 .. n + 1 -> Int] /\ r2 \in [0 .. n + 1 -> Int]
  BY <1>3, <1>7, <1>8
<1>11. ASSUME NEW k \in 1 .. n + 1
       PROVE  /\ p2[k] = p2[k - 1] + Signed(w[3 * k - 1])
              /\ r2[k] = r2[k - 1] - Signed(w[3 * k])
  <2>1. CASE k \in 1 .. n
    <3>1. /\ 3 * k - 1 \in 1 .. 3 * n + 3 /\ 3 * k - 1 <= 3 * n
          /\ 3 * k \in 1 .. 3 * n + 3 /\ 3 * k <= 3 * n
          /\ k \in 0 .. n /\ k - 1 \in 0 .. n
      BY <2>1
    <3>2. w[3 * k - 1] = m[3 * k - 1] /\ w[3 * k] = m[3 * k]
      BY <1>6, <3>1
    <3>3. QED
      BY <1>4, <1>9, <2>1, <3>1, <3>2
  <2>2. CASE k = n + 1
    <3>1. PICK i \in 1 .. 3 * n + 3 : i = 3 * k - 1
      BY <2>2
    <3>2. ~(i <= 3 * n) /\ i - 3 * n = 2
      BY <2>2, <3>1
    <3>3. PICK j \in 1 .. 3 * n + 3 : j = 3 * k
      BY <2>2
    <3>4. ~(j <= 3 * n) /\ j - 3 * n = 3
      BY <2>2, <3>3
    <3>5. w[i] = b[2] /\ w[j] = b[3]
      BY <1>6, <3>2, <3>4
    <3>6. w[3 * k - 1] = b[2] /\ w[3 * k] = b[3]
      BY <3>1, <3>3, <3>5
    <3>7. p2[k] = tox + x /\ r2[k] = toy - y /\ p2[k - 1] = tox /\ r2[k - 1] = toy
      <4>1. k - 1 = n /\ n \in 0 .. n
        BY <2>2
      <4>2. QED
        BY <1>3, <1>9, <2>2, <4>1
    <3>8. QED
      BY <3>6, <3>7
  <2>3. QED
    BY <2>1, <2>2
<1>12. Len(w) = 3 * (n + 1)
  BY <1>6
<1>13. Leads(w, n + 1, p2, r2)
  BY <1>10, <1>11, <1>12 DEF Leads
<1>14. 0 \in 0 .. n
  OBVIOUS
<1>15. Led(w, n + 1, p2, r2, fromx, fromy, tox + x, toy - y)
  BY <1>3, <1>9, <1>13, <1>14 DEF Led
<1>16. n + 1 \in Nat
  OBVIOUS
<1>17. QED
  BY <1>5, <1>15, <1>16, Zenon DEF Route

(* A packet read makes it one step shorter.                                *)
LEMMA Shorter ==
  ASSUME NEW m \in Seq(Bytes), NEW fromx, NEW fromy, NEW tox, NEW toy,
         NEW b \in Seq(Bytes), Len(b) = 3,
         Route(b \o m, fromx, fromy, tox, toy)
  PROVE  Route(m, fromx + Signed(b[2]), fromy - Signed(b[3]), tox, toy)
<1>1. PICK w : w = b \o m
  OBVIOUS
<1>2. PICK l \in Nat : l = Len(m)
  BY LenProperties
<1>3. /\ Len(w) = 3 + l
      /\ \A i \in 1 .. 3 + l : w[i] = IF i <= 3 THEN b[i] ELSE m[i - 3]
  <2>1. /\ Len(w) = Len(b) + Len(m)
        /\ \A i \in 1 .. Len(b) + Len(m) :
             w[i] = IF i <= Len(b) THEN b[i] ELSE m[i - Len(b)]
    BY <1>1, ConcatProperties, Zenon
  <2>2. QED
    BY <1>2, <2>1
<1>4. PICK n \in Nat : \E p, r : Led(w, n, p, r, fromx, fromy, tox, toy)
  BY <1>1 DEF Route
<1>5. PICK p, r : Led(w, n, p, r, fromx, fromy, tox, toy)
  BY <1>4
<1>6. /\ Len(w) = 3 * n /\ p \in [0 .. n -> Int] /\ r \in [0 .. n -> Int]
      /\ p[0] = fromx /\ r[0] = fromy /\ p[n] = tox /\ r[n] = toy
  BY <1>5 DEF Led, Leads
<1>7. \A k \in 1 .. n : /\ p[k] = p[k - 1] + Signed(w[3 * k - 1])
                        /\ r[k] = r[k - 1] - Signed(w[3 * k])
  BY <1>5 DEF Led, Leads
<1>8. PICK j \in Nat : n = j + 1 /\ l = 3 * j
  <2>1. n - 1 \in Nat /\ l = 3 * (n - 1)
    BY <1>3, <1>6
  <2>2. QED
    BY <2>1
<1>9. PICK p2 : p2 = [k \in 0 .. j |-> p[k + 1]]
  OBVIOUS
<1>10. PICK r2 : r2 = [k \in 0 .. j |-> r[k + 1]]
  OBVIOUS
<1>11. \A k \in 0 .. j : p2[k] = p[k + 1] /\ r2[k] = r[k + 1] /\ k + 1 \in 0 .. n
  BY <1>8, <1>9, <1>10
<1>12. p2 \in [0 .. j -> Int] /\ r2 \in [0 .. j -> Int]
  BY <1>6, <1>9, <1>10, <1>11
<1>13. ASSUME NEW k \in 1 .. j
       PROVE  /\ p2[k] = p2[k - 1] + Signed(m[3 * k - 1])
              /\ r2[k] = r2[k - 1] - Signed(m[3 * k])
  <2>1. k \in 0 .. j /\ k - 1 \in 0 .. j /\ k + 1 \in 1 .. n /\ k + 1 - 1 = k /\ k - 1 + 1 = k
    BY <1>8
  <2>2. PICK s \in 1 .. 3 + l : s = 3 * (k + 1) - 1
    BY <1>8
  <2>3. PICK t \in 1 .. 3 + l : t = 3 * (k + 1)
    BY <1>8
  <2>4. ~(s <= 3) /\ s - 3 = 3 * k - 1 /\ ~(t <= 3) /\ t - 3 = 3 * k
    BY <2>2, <2>3
  <2>5. w[s] = m[3 * k - 1] /\ w[t] = m[3 * k]
    BY <1>3, <2>4
  <2>6. p[k + 1] = p[k] + Signed(w[s]) /\ r[k + 1] = r[k] - Signed(w[t])
    <3>1. PICK e \in 1 .. n : e = k + 1 /\ e - 1 = k
      BY <2>1
    <3>2. p[e] = p[e - 1] + Signed(w[3 * e - 1]) /\ r[e] = r[e - 1] - Signed(w[3 * e])
      BY <1>7
    <3>3. 3 * e - 1 = s /\ 3 * e = t
      BY <2>2, <2>3, <3>1
    <3>4. QED
      BY <3>1, <3>2, <3>3
  <2>7. p2[k] = p[k + 1] /\ r2[k] = r[k + 1] /\ p2[k - 1] = p[k] /\ r2[k - 1] = r[k]
    BY <1>11, <2>1
  <2>8. QED
    BY <2>5, <2>6, <2>7
<1>14. Leads(m, j, p2, r2)
  BY <1>2, <1>8, <1>12, <1>13 DEF Leads
<1>15. p2[j] = tox /\ r2[j] = toy
  <2>1. j \in 0 .. j /\ j + 1 = n
    BY <1>8
  <2>2. QED
    BY <1>6, <1>11, <2>1
<1>16. p2[0] = fromx + Signed(b[2]) /\ r2[0] = fromy - Signed(b[3])
  <2>1. 1 \in 1 .. n /\ 0 \in 0 .. j /\ 3 * 1 - 1 = 2 /\ 3 * 1 = 3 /\ 1 - 1 = 0 /\ 0 + 1 = 1
    BY <1>8
  <2>2. w[2] = b[2] /\ w[3] = b[3]
    <3>1. 2 \in 1 .. 3 + l /\ 3 \in 1 .. 3 + l
      OBVIOUS
    <3>2. QED
      BY <1>3, <3>1
  <2>3. p[1] = p[0] + Signed(w[2]) /\ r[1] = r[0] - Signed(w[3])
    BY <1>7, <2>1
  <2>4. p2[0] = p[1] /\ r2[0] = r[1]
    BY <1>11, <2>1
  <2>5. QED
    BY <1>6, <2>2, <2>3, <2>4
<1>17. Led(m, j, p2, r2, fromx + Signed(b[2]), fromy - Signed(b[3]), tox, toy)
  BY <1>14, <1>15, <1>16 DEF Led
<1>18. QED
  BY <1>17, Zenon DEF Route

(* The way is a sequence of bytes.                                         *)
LEMMA WayBytes ==
  ASSUME Types
  PROVE  OnTheWay \in Seq(Bytes) /\ Part(port, FALSE) \in Seq(Bytes)
<1>1. Part(port, FALSE) \in Seq(Bytes)
  BY PartCat DEF Types
<1>2. QED
  BY <1>1, ConcatProperties DEF OnTheWay, Types

(* A key typed is not on the way.                                          *)
LEMMA PressPlaced ==
  ASSUME Types, Placed, NEW k \in Keys, press(k)
  PROVE  Placed'
<1>1. PICK x : x = [key |-> TRUE, byte |-> k]
  OBVIOUS
<1>2. k \in Bytes
  BY InputAssumption DEF KeyBytes
<1>3. x \in Items /\ x.key = TRUE
  BY <1>1, <1>2 DEF Items
<1>4. port' = Append(port, x) /\ UNCHANGED <<device, mousex, mousey, swept>>
  BY <1>1 DEF press, mouseVars, Comes
<1>5. Part(port', FALSE) = Part(port, FALSE) \o <<>>
  BY <1>3, <1>4, PartAppend DEF Types
<1>6. Part(port', FALSE) = Part(port, FALSE)
  BY <1>5, WayBytes, ConcatEmptySeq
<1>7. QED
  BY <1>4, <1>6 DEF Placed, OnTheWay

(* A byte sent stays on the way.                                           *)
LEMMA SendsPlaced ==
  ASSUME Types, Placed, sends
  PROVE  Placed'
<1>1. PICK h : h = Head(device)
  OBVIOUS
<1>2. PICK x : x = [key |-> FALSE, byte |-> h]
  OBVIOUS
<1>3. PICK dv \in Seq(Bytes) : dv = device /\ dv # <<>>
  BY DEF Types, sends
<1>4. PICK t \in Seq(Bytes) : t = Tail(dv) /\ h \in Bytes
  BY <1>1, <1>3, HeadTailProperties
<1>5. x \in Items /\ x.key = FALSE /\ x.byte = h
  BY <1>2, <1>4 DEF Items
<1>6. port' = Append(port, x) /\ device' = t /\ UNCHANGED <<mousex, mousey, swept>>
  BY <1>1, <1>2, <1>3, <1>4 DEF sends, mouseVars, Comes
<1>7. PICK p \in Seq(Bytes) : p = Part(port, FALSE)
  BY WayBytes
<1>8. Part(port', FALSE) = p \o <<h>>
  BY <1>5, <1>6, <1>7, PartAppend DEF Types
<1>9. <<h>> \in Seq(Bytes)
  BY <1>4
<1>10. (p \o <<h>>) \o t = p \o (<<h>> \o t)
  BY <1>9, ConcatAssociative
<1>11. <<h>> \o t = dv
  <2>1. PICK n \in Nat : n = Len(dv) /\ n >= 1
    BY <1>3, EmptySeq
  <2>2. dv = <<dv[1]>> \o SubSeq(dv, 2, n) /\ t = SubSeq(dv, 2, n) /\ h = dv[1]
    <3>1. SubSeq(dv, 1, n) = dv
      BY <2>1, SubSeqFull
    <3>2. 1 \in 1 .. Len(dv) /\ n \in 1 .. Len(dv)
      BY <2>1
    <3>3. SubSeq(dv, 1, n) = <<dv[1]>> \o SubSeq(dv, 1 + 1, n)
      BY <3>2, SubSeqRecursiveFirst
    <3>4. t = SubSeq(dv, 2, n)
      BY <1>3, <1>4, <2>1, TailIsSubSeq
    <3>5. h = dv[1]
      BY <1>1, <1>3
    <3>6. QED
      BY <3>1, <3>3, <3>4, <3>5
  <2>3. QED
    BY <2>2
<1>12. OnTheWay' = OnTheWay
  BY <1>3, <1>6, <1>7, <1>8, <1>10, <1>11 DEF OnTheWay
<1>13. QED
  BY <1>6, <1>12 DEF Placed

(* A packet made is put on the way.                                        *)
LEMMA MovesPlaced ==
  ASSUME Types, Placed, NEW pressed \in Presses, NEW d \in Moves, moves(pressed, d)
  PROVE  Placed'
<1>1. PICK b : b = PacketOf(pressed, d)
  OBVIOUS
<1>2. /\ b \in Seq(Bytes) /\ Len(b) = 3 /\ Signed(b[2]) = d.x /\ Signed(b[3]) = d.y
      /\ d.x \in Int /\ d.y \in Int
  BY <1>1, PacketIs
<1>3. /\ device = <<>> /\ device' = b /\ port' = port /\ mousex' = mousex /\ mousey' = mousey
      /\ swept'.x = swept.x + d.x /\ swept'.y = swept.y + d.y
  BY <1>1 DEF moves, mouseVars
<1>4. PICK m \in Seq(Bytes) : m = Part(port, FALSE)
  BY WayBytes
<1>5. OnTheWay = m /\ OnTheWay' = m \o b
  BY <1>3, <1>4, ConcatEmptySeq DEF OnTheWay
<1>6. swept.x \in Int /\ -swept.y \in Int
  BY DEF Types
<1>7. Route(m, mousex, mousey, swept.x, -swept.y)
  BY <1>5 DEF Placed
<1>8. Route(m \o b, mousex, mousey, swept.x + d.x, -swept.y - d.y)
  BY <1>2, <1>6, <1>7, Longer
<1>9. -swept.y - d.y = -(swept.y + d.y)
  BY <1>2 DEF Types
<1>10. QED
  BY <1>3, <1>5, <1>8, <1>9 DEF Placed

(* Keys handed over were not on the way.                                   *)
LEMMA KeysPassPlaced ==
  ASSUME Types, Placed, NEW n, KeysPass(n), device' = device, swept' = swept
  PROVE  Placed'
<1>1. PICK q : q = port
  OBVIOUS
<1>2. PICK r : r = port'
  OBVIOUS
<1>3. /\ q \in Seq(Items) /\ n \in 0 .. Len(q) /\ r = SubSeq(q, n + 1, Len(q))
      /\ mousex' = mousex /\ mousey' = mousey
  BY <1>1, <1>2 DEF KeysPass, Types, mouseVars
<1>4. \A i \in 1 .. n : q[i].key # FALSE
  <2>1. \A i \in 1 .. n : q[i].key = TRUE
    BY <1>1 DEF KeysPass
  <2>2. QED
    BY <2>1
<1>5. Part(q, FALSE) = Part(r, FALSE)
  BY <1>3, <1>4, PartRest
<1>6. QED
  BY <1>1, <1>2, <1>3, <1>5 DEF Placed, OnTheWay

(* A packet handed over has moved the pointer one step of the way.         *)
LEMMA PacketPlaced ==
  ASSUME Types, Types', Placed, PacketPasses, device' = device, swept' = swept
  PROVE  Placed'
<1>1. PICK q : q = port
  OBVIOUS
<1>2. PICK r : r = port'
  OBVIOUS
<1>3. /\ q \in Seq(Items) /\ 3 \in 0 .. Len(q) /\ r = SubSeq(q, 3 + 1, Len(q))
      /\ \A i \in 1 .. 3 : q[i].key = FALSE
      /\ mousex' = mousex + Signed(q[2].byte) /\ mousey' = mousey - Signed(q[3].byte)
  BY <1>1, <1>2 DEF PacketPasses, Types, Noted
<1>4. PICK b \in Seq(Bytes) : b = Front(q, 3) /\ Len(b) = 3
  BY <1>3, PartRest
<1>5. b[2] = q[2].byte /\ b[3] = q[3].byte
  BY <1>4 DEF Front
<1>6. PICK p \in Seq(Bytes) : p = Part(r, FALSE)
  BY <1>3, PartRest
<1>7. Part(q, FALSE) = b \o p
  BY <1>3, <1>4, <1>6, PartRest
<1>8. PICK dv \in Seq(Bytes) : dv = device
  BY DEF Types
<1>9. (b \o p) \o dv = b \o (p \o dv)
  BY ConcatAssociative
<1>10. PICK m \in Seq(Bytes) : m = p \o dv
  <2>1. p \o dv \in Seq(Bytes)
    BY ConcatProperties
  <2>2. QED
    BY <2>1
<1>11. OnTheWay = b \o m /\ OnTheWay' = m
  BY <1>1, <1>2, <1>6, <1>7, <1>8, <1>9, <1>10 DEF OnTheWay
<1>12. Route(b \o m, mousex, mousey, swept.x, -swept.y)
  BY <1>11 DEF Placed
<1>13. Route(m, mousex + Signed(b[2]), mousey - Signed(b[3]), swept.x, -swept.y)
  BY <1>4, <1>12, Shorter
<1>14. QED
  BY <1>3, <1>5, <1>11, <1>13 DEF Placed

(* Other steps leave the way alone.                                        *)
LEMMA StaysPlaced ==
  ASSUME Placed, UNCHANGED <<port, device, mousex, mousey, swept>>
  PROVE  Placed'
BY DEF Placed, OnTheWay


-----------------------------------------------------------------------------
(***************************************************************************)
(* The letters rusk has passed on.  Rusk looks at the keys it was given    *)
(* only, so what has been passed on is right for those, whatever was typed *)
(* after them.                                                             *)
(***************************************************************************)

With      == {"shift", "ctrl", "alt"}
AllEvents == [type : {"KEY_DOWN", "MOUSE_DOWN", "MOUSE_UP"}, what : Int, held : SUBSET With]

(* Where letters are among the keys k, and whether shift is down at i.     *)
Places(k)  == {i \in DOMAIN k : k[i] \in Letters}
Before(k, i) == {j \in Places(k) : j < i}
Down(k, i) == \E j \in 1 .. i - 1 : k[j] = SHIFT /\ \A l \in j .. i - 1 : k[l] # SHIFT + UP

(* The event l is right as the nth of the keys k, at place i.              *)
Right(k, i, n, l) ==
  /\ Cardinality(Before(k, i)) = n - 1
  /\ l.what = k[i]
  /\ ("shift" \in l.held) <=> Down(k, i)

(* The keys k were passed on as the events ev, and h is what is held.      *)
Heard(k, h, ev) ==
  /\ ev \in Seq(AllEvents) /\ h \in SUBSET With
  /\ ("shift" \in h) <=> Down(k, Len(k) + 1)
  /\ Cardinality(Places(k)) = Len(Only(ev, KeyDowns))
  /\ \A n \in 1 .. Len(Only(ev, KeyDowns)) :
       \E i \in Places(k) : Right(k, i, n, Only(ev, KeyDowns)[n])

(* The invariant of the letters.                                           *)
HeardRight == Heard(Only(got, KeyBytes), held, events)

(* There are finitely many letters.                                        *)
LEMMA PlacesFinite ==
  ASSUME NEW T, NEW k \in Seq(T)
  PROVE  /\ IsFiniteSet(Places(k)) /\ Places(k) \subseteq 1 .. Len(k) /\ DOMAIN k = 1 .. Len(k)
         /\ Len(k) \in Nat
<1>1. Len(k) \in Nat /\ DOMAIN k = 1 .. Len(k)
  BY LenProperties
<1>2. IsFiniteSet(1 .. Len(k))
  BY <1>1, FS_Interval
<1>3. Places(k) \subseteq 1 .. Len(k)
  BY <1>1 DEF Places
<1>4. QED
  BY <1>1, <1>2, <1>3, FS_Subset

(* A longer sequence of keys has the same letters before a place of the    *)
(* shorter one, and the same shift.                                        *)
LEMMA SamePlaces ==
  ASSUME NEW T, NEW k \in Seq(T), NEW r \in Seq(T), Len(k) <= Len(r),
         \A i \in 1 .. Len(k) : r[i] = k[i]
  PROVE  /\ \A i \in 1 .. Len(k) : (i \in Places(r)) <=> (i \in Places(k))
         /\ \A i \in 1 .. Len(k) + 1 : /\ Before(r, i) = Before(k, i)
                                       /\ Down(r, i) <=> Down(k, i)
<1>1. PICK n \in Nat : n = Len(k) /\ DOMAIN k = 1 .. n
  BY LenProperties
<1>2. PICK m \in Nat : m = Len(r) /\ DOMAIN r = 1 .. m
  BY LenProperties
<1>3. \A i \in 1 .. n : r[i] = k[i] /\ i \in 1 .. m
  BY <1>1, <1>2
<1>4. \A i \in 1 .. n : (i \in Places(r)) <=> (i \in Places(k))
  BY <1>1, <1>2, <1>3 DEF Places
<1>5. ASSUME NEW i \in 1 .. n + 1
      PROVE  Before(r, i) = Before(k, i)
  <2>1. \A j \in 1 .. m : j < i => j \in 1 .. n
    OBVIOUS
  <2>2. QED
    BY <1>1, <1>2, <1>3, <2>1 DEF Before, Places
<1>6. ASSUME NEW i \in 1 .. n + 1
      PROVE  Down(r, i) <=> Down(k, i)
  <2>1. \A j \in 1 .. i - 1 : j \in 1 .. n
    OBVIOUS
  <2>2. \A j \in 1 .. i - 1 : \A l \in j .. i - 1 : l \in 1 .. n
    OBVIOUS
  <2>3. QED
    BY <1>3, <2>1, <2>2 DEF Down
<1>7. QED
  BY <1>1, <1>4, <1>5, <1>6

(* What one more key does to shift.                                        *)
LEMMA DownAfter ==
  ASSUME NEW T, NEW k \in Seq(T), NEW c \in T
  PROVE  Down(Append(k, c), Len(Append(k, c)) + 1)
           <=> (c = SHIFT \/ (Down(k, Len(k) + 1) /\ c # SHIFT + UP))
<1>1. PICK n \in Nat : n = Len(k)
  BY LenProperties
<1>2. PICK r : r = Append(k, c)
  OBVIOUS
<1>3. Len(r) = n + 1 /\ r[n + 1] = c /\ \A i \in 1 .. n : r[i] = k[i]
  BY <1>1, <1>2, AppendProperties
<1>4. SHIFT # SHIFT + UP
  BY DEF SHIFT, UP
<1>5. Down(r, n + 2) <=>
        \E j \in 1 .. n + 1 : r[j] = SHIFT /\ \A l \in j .. n + 1 : r[l] # SHIFT + UP
  <2>1. n + 2 - 1 = n + 1
    OBVIOUS
  <2>2. QED
    BY <2>1 DEF Down
<1>6. Down(k, n + 1) <=>
        \E j \in 1 .. n : k[j] = SHIFT /\ \A l \in j .. n : k[l] # SHIFT + UP
  <2>1. n + 1 - 1 = n
    OBVIOUS
  <2>2. QED
    BY <2>1 DEF Down
<1>7. ASSUME c = SHIFT
      PROVE  Down(r, n + 2)
  <2>1. n + 1 \in 1 .. n + 1 /\ r[n + 1] = SHIFT
    BY <1>3, <1>7
  <2>2. \A l \in n + 1 .. n + 1 : r[l] # SHIFT + UP
    BY <1>3, <1>4, <1>7
  <2>3. QED
    BY <1>5, <2>1, <2>2
<1>8. ASSUME Down(k, n + 1), c # SHIFT + UP
      PROVE  Down(r, n + 2)
  <2>1. PICK j \in 1 .. n : k[j] = SHIFT /\ \A l \in j .. n : k[l] # SHIFT + UP
    BY <1>6, <1>8
  <2>2. j \in 1 .. n + 1 /\ r[j] = SHIFT
    BY <1>3, <2>1
  <2>3. ASSUME NEW l \in j .. n + 1
        PROVE  r[l] # SHIFT + UP
    <3>1. CASE l = n + 1
      BY <1>3, <1>8, <3>1
    <3>2. CASE l # n + 1
      <4>1. l \in j .. n /\ l \in 1 .. n
        BY <3>2
      <4>2. QED
        BY <1>3, <2>1, <4>1
    <3>3. QED
      BY <3>1, <3>2
  <2>4. QED
    BY <1>5, <2>2, <2>3
<1>9. ASSUME Down(r, n + 2), c # SHIFT
      PROVE  Down(k, n + 1) /\ c # SHIFT + UP
  <2>1. PICK j \in 1 .. n + 1 : r[j] = SHIFT /\ \A l \in j .. n + 1 : r[l] # SHIFT + UP
    BY <1>5, <1>9
  <2>2. j # n + 1
    BY <1>3, <1>9, <2>1
  <2>3. j \in 1 .. n /\ n + 1 \in j .. n + 1
    BY <2>2
  <2>4. c # SHIFT + UP
    BY <1>3, <2>1, <2>3
  <2>5. \A l \in j .. n : l \in j .. n + 1 /\ r[l] = k[l]
    BY <1>3, <2>3
  <2>6. k[j] = SHIFT
    BY <1>3, <2>1, <2>3
  <2>7. QED
    BY <1>6, <2>1, <2>3, <2>4, <2>5, <2>6
<1>10. Len(k) + 1 = n + 1 /\ Len(r) + 1 = n + 2
  BY <1>1, <1>3
<1>11. QED
  BY <1>2, <1>7, <1>8, <1>9, <1>10

(* The letters with one more key.                                          *)
LEMMA PlacesAfter ==
  ASSUME NEW T, NEW k \in Seq(T), NEW c \in T
  PROVE  /\ Places(Append(k, c)) = IF c \in Letters THEN Places(k) \cup {Len(k) + 1} ELSE Places(k)
         /\ Cardinality(Places(Append(k, c))) =
              IF c \in Letters THEN Cardinality(Places(k)) + 1 ELSE Cardinality(Places(k))
         /\ Before(Append(k, c), Len(k) + 1) = Places(k)
         /\ Cardinality(Places(k)) \in Nat
<1>1. PICK n \in Nat : n = Len(k)
  BY LenProperties
<1>2. PICK r \in Seq(T) : r = Append(k, c)
  BY AppendProperties
<1>3. Len(r) = n + 1 /\ r[n + 1] = c /\ \A i \in 1 .. n : r[i] = k[i]
  BY <1>1, <1>2, AppendProperties
<1>4. DOMAIN r = 1 .. n + 1 /\ DOMAIN k = 1 .. n
  BY <1>1, <1>3, LenProperties
<1>5. Places(r) = IF c \in Letters THEN Places(k) \cup {n + 1} ELSE Places(k)
  <2>1. \A i \in 1 .. n + 1 : i \in 1 .. n \/ i = n + 1
    OBVIOUS
  <2>2. n + 1 \in 1 .. n + 1 /\ \A i \in 1 .. n : i \in 1 .. n + 1
    OBVIOUS
  <2>3. QED
    BY <1>3, <1>4, <2>1, <2>2 DEF Places
<1>6. IsFiniteSet(Places(k)) /\ Places(k) \subseteq 1 .. n
  BY <1>1, PlacesFinite
<1>7. n + 1 \notin Places(k)
  BY <1>6
<1>8. Cardinality(Places(k) \cup {n + 1}) = Cardinality(Places(k)) + 1
  BY <1>6, <1>7, FS_AddElement
<1>9. Before(r, n + 1) = Places(k)
  <2>1. \A j \in Places(r) : j < n + 1 => j \in Places(k)
    BY <1>5
  <2>2. \A j \in Places(k) : j < n + 1 /\ j \in Places(r)
    BY <1>5, <1>6
  <2>3. QED
    BY <2>1, <2>2 DEF Before
<1>10. Cardinality(Places(k)) \in Nat
  BY <1>6, FS_CardinalityType
<1>11. QED
  BY <1>1, <1>2, <1>5, <1>8, <1>9, <1>10

(* A key that is no letter adds no event, one that is adds its own.        *)
LEMMA KeyHeard ==
  ASSUME NEW k \in Seq(KeyBytes), NEW h, NEW ev, Heard(k, h, ev), NEW c \in KeyBytes
  PROVE  Heard(Append(k, c), HeldAfter(c, h), ev \o EventsOf(c, h))
<1>1. PICK r \in Seq(KeyBytes) : r = Append(k, c)
  BY AppendProperties
<1>2. PICK n \in Nat : n = Len(k)
  BY LenProperties
<1>3. Len(r) = n + 1 /\ r[n + 1] = c /\ \A i \in 1 .. n : r[i] = k[i]
  BY <1>1, <1>2, AppendProperties
<1>4. PICK g : g = HeldAfter(c, h)
  OBVIOUS
<1>5. h \in SUBSET With
  BY DEF Heard
<1>6. g \in SUBSET With /\ (("shift" \in g) <=> (c = SHIFT \/ ("shift" \in h /\ c # SHIFT + UP)))
  <2>1. SHIFT # SHIFT + UP /\ SHIFT \notin {CTRL, CTRL + UP} /\ SHIFT \notin {ALT, ALT + UP}
        /\ SHIFT + UP \notin {CTRL, CTRL + UP} /\ SHIFT + UP \notin {ALT, ALT + UP}
        /\ {CTRL, CTRL + UP} \cap {ALT, ALT + UP} = {}
    BY DEF SHIFT, CTRL, ALT, UP
  <2>2. CASE c = SHIFT
    <3>1. c # SHIFT + UP /\ c \notin {CTRL, CTRL + UP} /\ c \notin {ALT, ALT + UP}
      BY <2>1, <2>2
    <3>2. g = h \cup {"shift"}
      BY <1>4, <2>2, <3>1, Zenon DEF HeldAfter
    <3>3. QED
      BY <1>5, <2>2, <3>2 DEF With
  <2>3. CASE c # SHIFT /\ c = SHIFT + UP
    <3>1. c \notin {CTRL, CTRL + UP} /\ c \notin {ALT, ALT + UP}
      BY <2>1, <2>3
    <3>2. g = h \ {"shift"}
      BY <1>4, <2>3, <3>1, Zenon DEF HeldAfter
    <3>3. QED
      BY <1>5, <2>3, <3>2 DEF With
  <2>4. CASE c \in {CTRL, CTRL + UP}
    <3>1. c # SHIFT /\ c # SHIFT + UP /\ c \notin {ALT, ALT + UP}
      BY <2>1, <2>4
    <3>2. g = h \cup {"ctrl"}
      BY <1>4, <2>4, <3>1, Zenon DEF HeldAfter
    <3>3. QED
      BY <1>5, <3>1, <3>2 DEF With
  <2>5. CASE c \in {ALT, ALT + UP}
    <3>1. c # SHIFT /\ c # SHIFT + UP /\ c \notin {CTRL, CTRL + UP}
      BY <2>1, <2>5
    <3>2. g = h \cup {"alt"}
      BY <1>4, <2>5, <3>1, Zenon DEF HeldAfter
    <3>3. QED
      BY <1>5, <3>1, <3>2 DEF With
  <2>6. CASE c # SHIFT /\ c # SHIFT + UP /\ c \notin {CTRL, CTRL + UP} /\ c \notin {ALT, ALT + UP}
    <3>1. g = h
      BY <1>4, <2>6, Zenon DEF HeldAfter
    <3>2. QED
      BY <1>5, <2>6, <3>1
  <2>7. QED
    BY <2>2, <2>3, <2>4, <2>5, <2>6
<1>7. ("shift" \in g) <=> Down(r, Len(r) + 1)
  BY <1>1, <1>6, DownAfter DEF Heard
<1>8. PICK L \in Seq(KeyDowns) : L = Only(ev, KeyDowns) /\ ev \in Seq(AllEvents)
  <2>1. ev \in Seq(AllEvents)
    BY DEF Heard
  <2>2. QED
    BY <2>1, OnlyType
<1>9. PICK m \in Nat : m = Len(L)
  BY LenProperties
<1>10. Cardinality(Places(k)) = m /\ \A e \in 1 .. m : \E i \in Places(k) : Right(k, i, e, L[e])
  BY <1>8, <1>9 DEF Heard
<1>11. \A i \in 1 .. n + 1 : Before(r, i) = Before(k, i) /\ (Down(r, i) <=> Down(k, i))
  <2>1. Len(k) <= Len(r) /\ \A i \in 1 .. Len(k) : r[i] = k[i]
    BY <1>2, <1>3
  <2>2. QED
    BY <1>2, <2>1, SamePlaces
<1>12. Places(k) \subseteq 1 .. n
  BY <1>2, PlacesFinite
<1>13. \A e \in 1 .. m : \E i \in Places(k) : Right(r, i, e, L[e])
  <2> SUFFICES ASSUME NEW e \in 1 .. m
               PROVE  \E i \in Places(k) : Right(r, i, e, L[e])
    OBVIOUS
  <2>1. PICK i \in Places(k) : Right(k, i, e, L[e])
    BY <1>10
  <2>2. i \in 1 .. n /\ i \in 1 .. n + 1
    BY <1>12
  <2>3. Before(r, i) = Before(k, i) /\ (Down(r, i) <=> Down(k, i)) /\ r[i] = k[i]
    BY <1>3, <1>11, <2>2
  <2>4. QED
    BY <2>1, <2>3 DEF Right
<1>14. c \notin ButtonCodes
  BY DEF KeyBytes
<1>15. c \notin {Code(i, TRUE) : i \in Buttons} /\ c \notin {Code(i, FALSE) : i \in Buttons}
  <2>1. \A i \in Buttons : Code(i, TRUE) \in ButtonCodes /\ Code(i, FALSE) \in ButtonCodes
    BY PairsApart DEF Pair
  <2>2. QED
    BY <1>14, <2>1
<1>16. CASE c \in Letters
  <2>1. PICK e : e = Event("KEY_DOWN", c, h)
    OBVIOUS
  <2>2. EventsOf(c, h) = <<e>>
    BY <1>15, <1>16, <2>1, Zenon DEF EventsOf
  <2>3. /\ e = [type |-> "KEY_DOWN", what |-> c, held |-> h] /\ e \in KeyDowns
        /\ e \in AllEvents /\ e.what = c /\ e.held = h
    <3>1. c \in Int
      BY <1>16 DEF Letters
    <3>2. QED
      BY <1>5, <1>16, <2>1, <3>1 DEF Event, KeyDowns, AllEvents, With
  <2>4. PICK v \in Seq(AllEvents) : v = Append(ev, e)
    BY <1>8, <2>3, AppendProperties
  <2>5. ev \o EventsOf(c, h) = v
    BY <1>8, <2>2, <2>3, <2>4, AppendIsConcat
  <2>6. PICK M : M = Append(L, e)
    OBVIOUS
  <2>7. Only(v, KeyDowns) = M
    BY <1>8, <2>3, <2>4, <2>6, OnlyAppend
  <2>8. Len(M) = m + 1 /\ M[m + 1] = e /\ \A j \in 1 .. m : M[j] = L[j]
    BY <1>9, <2>3, <2>6, AppendProperties
  <2>9. /\ Places(r) = Places(k) \cup {n + 1}
        /\ Cardinality(Places(r)) = m + 1 /\ Before(r, n + 1) = Places(k)
    BY <1>1, <1>2, <1>10, <1>16, PlacesAfter
  <2>10. Right(r, n + 1, m + 1, e)
    <3>1. Cardinality(Before(r, n + 1)) = m + 1 - 1
      BY <1>10, <2>9
    <3>2. ("shift" \in e.held) <=> Down(r, n + 1)
      <4>1. ("shift" \in h) <=> Down(k, n + 1)
        BY <1>2 DEF Heard
      <4>2. n + 1 \in 1 .. n + 1
        OBVIOUS
      <4>3. QED
        BY <1>11, <2>3, <4>1, <4>2
    <3>3. QED
      BY <1>3, <2>3, <3>1, <3>2 DEF Right
  <2>11. ASSUME NEW j \in 1 .. m + 1
         PROVE  \E i \in Places(r) : Right(r, i, j, M[j])
    <3>1. CASE j = m + 1
      BY <2>8, <2>9, <2>10, <3>1
    <3>2. CASE j # m + 1
      <4>1. j \in 1 .. m
        BY <3>2
      <4>2. QED
        BY <1>13, <2>8, <2>9, <4>1
    <3>3. QED
      BY <3>1, <3>2
  <2>12. Heard(r, g, v)
    BY <1>6, <1>7, <2>4, <2>7, <2>8, <2>9, <2>11 DEF Heard
  <2>13. QED
    BY <1>1, <1>4, <2>5, <2>12
<1>17. CASE c \notin Letters
  <2>1. EventsOf(c, h) = <<>>
    BY <1>15, <1>17, Zenon DEF EventsOf
  <2>2. ev \o EventsOf(c, h) = ev
    BY <1>8, <2>1, ConcatEmptySeq
  <2>3. Places(r) = Places(k)
    BY <1>1, <1>17, PlacesAfter
  <2>4. Heard(r, g, ev)
    BY <1>6, <1>7, <1>8, <1>9, <1>10, <1>13, <2>3 DEF Heard
  <2>5. QED
    BY <1>1, <1>4, <2>2, <2>4
<1>18. QED
  BY <1>16, <1>17

(* A button's code adds no letter and leaves what is held alone.           *)
LEMMA ButtonHeard ==
  ASSUME NEW k \in Seq(KeyBytes), NEW h, NEW ev, Heard(k, h, ev), NEW c \in ButtonCodes
  PROVE  Heard(k, HeldAfter(c, h), ev \o EventsOf(c, h))
<1>1. PICK i \in Buttons, d \in BOOLEAN : c = Code(i, d)
  BY DEF ButtonCodes
<1>2. c \in 112 .. 114 \/ c \in 240 .. 242
  BY <1>1 DEF Code, Buttons
<1>3. c \in Int /\ c \notin Letters
  <2>1. c \in Int /\ c > 57
    BY <1>2
  <2>2. \A l \in Letters : l <= 57
    BY DEF Letters
  <2>3. QED
    BY <2>1, <2>2
<1>4. HeldAfter(c, h) = h
  <2>1. /\ c # SHIFT /\ c # SHIFT + UP
        /\ c \notin {CTRL, CTRL + UP} /\ c \notin {ALT, ALT + UP}
    BY <1>2 DEF SHIFT, CTRL, ALT, UP
  <2>2. QED
    BY <2>1, Zenon DEF HeldAfter
<1>5. ev \in Seq(AllEvents)
  BY DEF Heard
<1>6. EventsOf(c, h) = <<>> \/ \E e \in AllEvents : EventsOf(c, h) = <<e>> /\ e.type # "KEY_DOWN"
  <2>1. \A t \in {"MOUSE_DOWN", "MOUSE_UP"}, w \in Int :
          Event(t, w, {}) \in AllEvents /\ Event(t, w, {}).type # "KEY_DOWN"
    BY DEF Event, AllEvents
  <2>2. c - 112 \in Int /\ c - 240 \in Int
    BY <1>3
  <2>3. CASE c \in {Code(j, TRUE) : j \in Buttons} /\ c \notin {Code(j, FALSE) : j \in Buttons}
    <3>1. EventsOf(c, h) = <<Event("MOUSE_DOWN", c - 112, {})>>
      BY <1>3, <2>3, Zenon DEF EventsOf
    <3>2. QED
      BY <2>1, <2>2, <3>1
  <2>4. CASE c \notin {Code(j, TRUE) : j \in Buttons} /\ c \in {Code(j, FALSE) : j \in Buttons}
    <3>1. EventsOf(c, h) = <<Event("MOUSE_UP", c - 240, {})>>
      BY <1>3, <2>4, Zenon DEF EventsOf
    <3>2. QED
      BY <2>1, <2>2, <3>1
  <2>5. ~(c \in {Code(j, TRUE) : j \in Buttons} /\ c \in {Code(j, FALSE) : j \in Buttons})
    <3>1. \A j, l \in Buttons : Code(j, TRUE) # Code(l, FALSE)
      BY DEF Code, Buttons
    <3>2. QED
      BY <3>1
  <2>6. c \in {Code(j, TRUE) : j \in Buttons} \/ c \in {Code(j, FALSE) : j \in Buttons}
    BY <1>1
  <2>7. QED
    BY <2>3, <2>4, <2>5, <2>6
<1>7. CASE EventsOf(c, h) = <<>>
  BY <1>4, <1>5, <1>7, ConcatEmptySeq
<1>8. CASE \E e \in AllEvents : EventsOf(c, h) = <<e>> /\ e.type # "KEY_DOWN"
  <2>1. PICK e \in AllEvents : EventsOf(c, h) = <<e>> /\ e.type # "KEY_DOWN"
    BY <1>8
  <2>2. e \notin KeyDowns
    BY <2>1 DEF KeyDowns
  <2>3. PICK v \in Seq(AllEvents) : v = Append(ev, e)
    BY <1>5, AppendProperties
  <2>4. ev \o EventsOf(c, h) = v
    BY <1>5, <2>1, <2>3, AppendIsConcat
  <2>5. Only(v, KeyDowns) = Only(ev, KeyDowns)
    BY <1>5, <2>2, <2>3, OnlyAppend
  <2>6. Heard(k, h, v)
    BY <2>5 DEF Heard
  <2>7. QED
    BY <1>4, <2>4, <2>6
<1>9. QED
  BY <1>6, <1>7, <1>8

(* One more byte for rusk.                                                 *)
LEMMA ByteHeard ==
  ASSUME NEW s \in Seq(Bytes), NEW h, NEW ev, NEW c \in Bytes, Heard(Only(s, KeyBytes), h, ev)
  PROVE  Heard(Only(Append(s, c), KeyBytes), HeldAfter(c, h), ev \o EventsOf(c, h))
<1>1. Only(s, KeyBytes) \in Seq(KeyBytes)
  BY OnlyType
<1>2. PICK k \in Seq(KeyBytes) : k = Only(s, KeyBytes)
  BY <1>1
<1>3. Only(Append(s, c), KeyBytes) = IF c \in KeyBytes THEN Append(k, c) ELSE k
  BY <1>2, OnlyAppend
<1>4. CASE c \in KeyBytes
  BY <1>2, <1>3, <1>4, KeyHeard
<1>5. CASE c \notin KeyBytes
  <2>1. c \in ButtonCodes
    BY <1>5 DEF KeyBytes
  <2>2. QED
    BY <1>2, <1>3, <1>5, <2>1, ButtonHeard
<1>6. QED
  BY <1>4, <1>5

(* What the loop of process_events computes: what is held after each byte. *)
LEMMA HeldAlongIs ==
  ASSUME NEW data, Len(data) \in Nat
  PROVE  /\ HeldAlong(data)[0] = held
         /\ \A i \in 1 .. Len(data) :
              HeldAlong(data)[i] = HeldAfter(data[i], HeldAlong(data)[i - 1])
<1> DEFINE Step(g, l) == IF l = 0 THEN held ELSE HeldAfter(data[l], g[l - 1])
<1> DEFINE G == {m \in 0 .. Len(data) : \E g : g = [l \in 0 .. m |-> Step(g, l)]}
<1>0. Len(data) \in Nat
  OBVIOUS
<1>1. 0 \in G
  <2> DEFINE g == [l \in 0 .. 0 |-> held]
  <2>1. \A l \in 0 .. 0 : l = 0
    OBVIOUS
  <2>2. g = [l \in 0 .. 0 |-> Step(g, l)]
    BY <2>1
  <2>3. \E e : e = [l \in 0 .. 0 |-> Step(e, l)]
    BY <2>2
  <2>4. 0 \in 0 .. Len(data)
    BY <1>0
  <2>5. QED
    BY <2>3, <2>4, Zenon
<1>2. ASSUME NEW m \in 1 .. Len(data), m - 1 \in G
      PROVE  m \in G
  <2>1. PICK g : g = [l \in 0 .. m - 1 |-> Step(g, l)]
    BY <1>2
  <2> DEFINE h == [l \in 0 .. m |-> IF l = m THEN Step(g, m) ELSE g[l]]
  <2>2. ASSUME NEW l \in 0 .. m
        PROVE  h[l] = Step(h, l)
    <3>1. m # 0 /\ m - 1 \in 0 .. m /\ m - 1 # m
      OBVIOUS
    <3>2. CASE l = m
      <4>1. h[m - 1] = g[m - 1]
        BY <3>1
      <4>2. QED
        BY <3>1, <3>2, <4>1
    <3>3. CASE l # m
      <4>1. l \in 0 .. m - 1 /\ h[l] = g[l]
        BY <3>3
      <4>2. g[l] = Step(g, l)
        BY <2>1, <4>1
      <4>3. CASE l = 0
        BY <4>1, <4>2, <4>3
      <4>4. CASE l # 0
        <5>1. l - 1 \in 0 .. m /\ l - 1 # m
          BY <4>1, <4>4
        <5>2. h[l - 1] = g[l - 1]
          BY <5>1
        <5>3. QED
          BY <4>1, <4>2, <4>4, <5>2
      <4>5. QED
        BY <4>3, <4>4
    <3>4. QED
      BY <3>2, <3>3
  <2>3. h = [l \in 0 .. m |-> Step(h, l)]
    BY <2>2
  <2>4. \E e : e = [l \in 0 .. m |-> Step(e, l)]
    BY <2>3
  <2>5. m \in 0 .. Len(data)
    BY <1>0
  <2>6. QED
    BY <2>4, <2>5, Zenon
<1>3. Len(data) \in G
  <2> HIDE DEF G
  <2>1. \A m \in 0 .. Len(data) : m \in G
    BY <1>0, <1>1, <1>2, Upwards, Zenon
  <2>2. QED
    BY <1>0, <2>1
<1>4. \E g : g = [l \in 0 .. Len(data) |-> Step(g, l)]
  BY <1>3
<1>5. PICK t : t = [l \in 0 .. Len(data) |-> Step(t, l)] /\ HeldAlong(data) = t
  BY <1>4 DEF HeldAlong
<1>6. \A l \in 0 .. Len(data) : t[l] = Step(t, l)
  BY <1>5
<1>7. 0 \in 0 .. Len(data) /\ \A l \in 1 .. Len(data) : l \in 0 .. Len(data) /\ l # 0
  BY <1>0
<1>8. QED
  BY <1>5, <1>6, <1>7

(* And what has been passed on.                                            *)
LEMMA EventsAlongIs ==
  ASSUME NEW data, Len(data) \in Nat
  PROVE  /\ EventsAlong(data)[0] = events
         /\ \A i \in 1 .. Len(data) :
              EventsAlong(data)[i] =
                EventsAlong(data)[i - 1] \o EventsOf(data[i], HeldAlong(data)[i - 1])
<1> DEFINE Step(g, l) == IF l = 0 THEN events
                         ELSE g[l - 1] \o EventsOf(data[l], HeldAlong(data)[l - 1])
<1> DEFINE G == {m \in 0 .. Len(data) : \E g : g = [l \in 0 .. m |-> Step(g, l)]}
<1>0. Len(data) \in Nat
  OBVIOUS
<1>1. 0 \in G
  <2> DEFINE g == [l \in 0 .. 0 |-> events]
  <2>1. \A l \in 0 .. 0 : l = 0
    OBVIOUS
  <2>2. g = [l \in 0 .. 0 |-> Step(g, l)]
    BY <2>1
  <2>3. \E e : e = [l \in 0 .. 0 |-> Step(e, l)]
    BY <2>2
  <2>4. 0 \in 0 .. Len(data)
    BY <1>0
  <2>5. QED
    BY <2>3, <2>4, Zenon
<1>2. ASSUME NEW m \in 1 .. Len(data), m - 1 \in G
      PROVE  m \in G
  <2>1. PICK g : g = [l \in 0 .. m - 1 |-> Step(g, l)]
    BY <1>2
  <2> DEFINE h == [l \in 0 .. m |-> IF l = m THEN Step(g, m) ELSE g[l]]
  <2>2. ASSUME NEW l \in 0 .. m
        PROVE  h[l] = Step(h, l)
    <3>1. m # 0 /\ m - 1 \in 0 .. m /\ m - 1 # m
      OBVIOUS
    <3>2. CASE l = m
      <4>1. h[m - 1] = g[m - 1]
        BY <3>1
      <4>2. QED
        BY <3>1, <3>2, <4>1
    <3>3. CASE l # m
      <4>1. l \in 0 .. m - 1 /\ h[l] = g[l]
        BY <3>3
      <4>2. g[l] = Step(g, l)
        BY <2>1, <4>1
      <4>3. CASE l = 0
        BY <4>1, <4>2, <4>3
      <4>4. CASE l # 0
        <5>1. l - 1 \in 0 .. m /\ l - 1 # m
          BY <4>1, <4>4
        <5>2. h[l - 1] = g[l - 1]
          BY <5>1
        <5>3. QED
          BY <4>1, <4>2, <4>4, <5>2
      <4>5. QED
        BY <4>3, <4>4
    <3>4. QED
      BY <3>2, <3>3
  <2>3. h = [l \in 0 .. m |-> Step(h, l)]
    BY <2>2
  <2>4. \E e : e = [l \in 0 .. m |-> Step(e, l)]
    BY <2>3
  <2>5. m \in 0 .. Len(data)
    BY <1>0
  <2>6. QED
    BY <2>4, <2>5, Zenon
<1>3. Len(data) \in G
  <2> HIDE DEF G
  <2>1. \A m \in 0 .. Len(data) : m \in G
    BY <1>0, <1>1, <1>2, Upwards, Zenon
  <2>2. QED
    BY <1>0, <2>1
<1>4. \E g : g = [l \in 0 .. Len(data) |-> Step(g, l)]
  BY <1>3
<1>5. PICK t : t = [l \in 0 .. Len(data) |-> Step(t, l)] /\ EventsAlong(data) = t
  BY <1>4 DEF EventsAlong
<1>6. \A l \in 0 .. Len(data) : t[l] = Step(t, l)
  BY <1>5
<1>7. 0 \in 0 .. Len(data) /\ \A l \in 1 .. Len(data) : l \in 0 .. Len(data) /\ l # 0
  BY <1>0
<1>8. QED
  BY <1>5, <1>6, <1>7

(* rusk's reading keeps the letters right, byte by byte.                   *)
LEMMA ReadHeard ==
  ASSUME Types, HeardRight, NEW size \in Sizes, process_events(size)
  PROVE  HeardRight'
<1>1. PICK data \in Seq(Bytes) : /\ data = Window(key_buf, key_buf_bot, Least(size, Used))
                                 /\ got' = got \o data
  BY EventsTypes
<1>2. held' = HeldAlong(data)[Len(data)] /\ events' = EventsAlong(data)[Len(data)]
  BY <1>1 DEF process_events
<1>3. PICK n \in Nat : n = Len(data)
  BY LenProperties
<1>4. PICK hs : hs = HeldAlong(data)
  OBVIOUS
<1>5. PICK es : es = EventsAlong(data)
  OBVIOUS
<1>6. hs[0] = held /\ \A i \in 1 .. n : hs[i] = HeldAfter(data[i], hs[i - 1])
  BY <1>3, <1>4, HeldAlongIs
<1>7. es[0] = events /\ \A i \in 1 .. n : es[i] = es[i - 1] \o EventsOf(data[i], hs[i - 1])
  BY <1>3, <1>4, <1>5, EventsAlongIs
<1>8. got \in Seq(Bytes)
  BY DEF Types
<1>9. PICK ss : ss = [i \in 0 .. n |-> got \o SubSeq(data, 1, i)]
  OBVIOUS
<1>10. ss[0] = got /\ ss[n] = got'
  <2>1. SubSeq(data, 1, 0) = <<>> /\ SubSeq(data, 1, n) = data
    <3>1. SubSeq(data, 1, n) = data
      BY <1>3, SubSeqFull
    <3>2. 0 < 1 /\ 1 \in Int /\ 0 \in Int
      OBVIOUS
    <3>3. SubSeq(data, 1, 0) = <<>>
      BY <3>2, SubSeqEmpty, Zenon
    <3>4. QED
      BY <3>1, <3>3
  <2>2. got \o <<>> = got
    BY <1>8, ConcatEmptySeq
  <2>3. 0 \in 0 .. n /\ n \in 0 .. n
    BY <1>3
  <2>4. QED
    BY <1>1, <1>9, <2>1, <2>2, <2>3
<1>11. ASSUME NEW i \in 1 .. n
       PROVE  /\ data[i] \in Bytes /\ ss[i - 1] \in Seq(Bytes)
              /\ ss[i] = Append(ss[i - 1], data[i])
  <2>1. i \in 0 .. n /\ i - 1 \in 0 .. n
    OBVIOUS
  <2>2. data[i] \in Bytes
    BY <1>3, ElementOfSeq
  <2>3. PICK f \in Seq(Bytes) : f = SubSeq(data, 1, i - 1)
    BY <1>3, <2>1, Split
  <2>4. SubSeq(data, 1, i) = Append(f, data[i])
    BY <1>3, <2>3, OneMore
  <2>5. got \o Append(f, data[i]) = Append(got \o f, data[i])
    BY <1>8, <2>2, CatAppend
  <2>6. got \o f \in Seq(Bytes)
    BY <1>8, ConcatProperties
  <2>7. QED
    BY <1>9, <2>1, <2>2, <2>3, <2>4, <2>5, <2>6
<1> DEFINE G == {i \in 0 .. n : Heard(Only(ss[i], KeyBytes), hs[i], es[i])}
<1>12. 0 \in G
  BY <1>3, <1>6, <1>7, <1>10 DEF HeardRight
<1>13. ASSUME NEW i \in 1 .. n, i - 1 \in G
       PROVE  i \in G
  <2>1. Heard(Only(ss[i - 1], KeyBytes), hs[i - 1], es[i - 1])
    BY <1>13
  <2>2. Heard(Only(Append(ss[i - 1], data[i]), KeyBytes),
              HeldAfter(data[i], hs[i - 1]), es[i - 1] \o EventsOf(data[i], hs[i - 1]))
    BY <1>11, <2>1, ByteHeard
  <2>3. Heard(Only(ss[i], KeyBytes), hs[i], es[i])
    BY <1>6, <1>7, <1>11, <2>2, Zenon
  <2>4. i \in 0 .. n
    OBVIOUS
  <2>5. QED
    BY <2>3, <2>4
<1>14. n \in G
  <2> HIDE DEF G
  <2>1. \A i \in 0 .. n : i \in G
    BY <1>3, <1>12, <1>13, Upwards, Zenon
  <2>2. QED
    BY <1>3, <2>1
<1>15. Heard(Only(got', KeyBytes), hs[n], es[n])
  BY <1>10, <1>14
<1>16. QED
  BY <1>2, <1>3, <1>4, <1>5, <1>15 DEF HeardRight

(* Other steps leave what rusk has heard alone.                            *)
LEMMA StaysHeard ==
  ASSUME HeardRight, UNCHANGED <<got, held, events>>
  PROVE  HeardRight'
BY DEF HeardRight

(* With every key delivered in order, right for the keys rusk was given is *)
(* right for the keys typed.                                               *)
LEMMA ShiftRightIs ==
  ASSUME Types, Ordered, HeardRight
  PROVE  ShiftRight
<1>1. PICK k \in Seq(KeyBytes) : k = Only(got, KeyBytes)
  BY OnlyType DEF Types
<1>2. PICK L : L = Only(events, KeyDowns)
  OBVIOUS
<1>3. PICK n \in Nat : n = Len(L) /\ DOMAIN L = 1 .. n
  <2>1. L \in Seq(KeyDowns)
    BY <1>2, OnlyType DEF HeardRight, Heard
  <2>2. QED
    BY <2>1, LenProperties
<1>4. \A e \in 1 .. n : \E i \in Places(k) : Right(k, i, e, L[e])
  BY <1>1, <1>2, <1>3 DEF HeardRight, Heard
<1>5. /\ typed \in Seq(Bytes) /\ k \in Seq(Bytes)
      /\ Len(k) <= Len(typed) /\ \A i \in 1 .. Len(k) : typed[i] = k[i]
  <2>1. PICK u \in Seq(Bytes) : u = Unread
    BY Delivered
  <2>2. Only(got \o u, KeyBytes) = k \o Only(u, KeyBytes)
    BY <1>1, OnlyCat DEF Types
  <2>3. PICK a \in Seq(KeyBytes) : a = Only(u, KeyBytes)
    BY OnlyType
  <2>4. KeyBytes \subseteq Bytes
    BY DEF KeyBytes
  <2>5. k \in Seq(Bytes) /\ a \in Seq(Bytes)
    BY <2>4, SeqMonotonic
  <2>6. PICK b \in Seq(Bytes) : b = Part(port, TRUE)
    BY PartCat DEF Types
  <2>7. typed = (k \o a) \o b
    BY <2>1, <2>2, <2>3, <2>6 DEF Ordered
  <2>8. PICK r \in Seq(Bytes) : r = k \o a
    <3>1. k \o a \in Seq(Bytes)
      BY <2>5, ConcatProperties
    <3>2. QED
      BY <3>1
  <2>9. /\ Len(r) = Len(k) + Len(a)
        /\ \A i \in 1 .. Len(k) + Len(a) : r[i] = IF i <= Len(k) THEN k[i] ELSE a[i - Len(k)]
    BY <2>5, <2>8, ConcatProperties, Zenon
  <2>10. PICK t \in Seq(Bytes) : t = r \o b
    <3>1. r \o b \in Seq(Bytes)
      BY ConcatProperties
    <3>2. QED
      BY <3>1
  <2>11. /\ Len(t) = Len(r) + Len(b)
         /\ \A i \in 1 .. Len(r) + Len(b) : t[i] = IF i <= Len(r) THEN r[i] ELSE b[i - Len(r)]
    BY <2>10, ConcatProperties, Zenon
  <2>12. typed = t
    BY <2>7, <2>8, <2>10
  <2>13. Len(k) \in Nat /\ Len(a) \in Nat /\ Len(b) \in Nat
    BY <2>5, LenProperties
  <2>14. Len(k) <= Len(t) /\ \A i \in 1 .. Len(k) : t[i] = k[i]
    BY <2>9, <2>11, <2>13
  <2>15. QED
    BY <2>5, <2>12, <2>14
<1>6. Places(k) \subseteq 1 .. Len(k) /\ Len(k) \in Nat
  BY PlacesFinite
<1>7. /\ \A i \in 1 .. Len(k) : (i \in Places(typed)) <=> (i \in Places(k))
      /\ \A i \in 1 .. Len(k) + 1 : /\ Before(typed, i) = Before(k, i)
                                    /\ Down(typed, i) <=> Down(k, i)
  BY <1>5, SamePlaces
<1>8. ASSUME NEW e \in 1 .. n
      PROVE  \E i \in Places(typed) : Right(typed, i, e, L[e])
  <2>1. PICK i \in Places(k) : Right(k, i, e, L[e])
    BY <1>4
  <2>2. i \in 1 .. Len(k) /\ i \in 1 .. Len(k) + 1
    BY <1>6
  <2>3. Before(typed, i) = Before(k, i) /\ (Down(typed, i) <=> Down(k, i)) /\ typed[i] = k[i]
    BY <1>5, <1>7, <2>2
  <2>4. QED
    BY <1>7, <2>1, <2>2, <2>3 DEF Right
<1>9. ASSUME NEW e \in DOMAIN L
      PROVE  \E i \in Places(typed) : /\ Cardinality(Before(typed, i)) = e - 1
                                      /\ L[e].what = typed[i]
                                      /\ ("shift" \in L[e].held) = Down(typed, i)
  <2>1. PICK i \in Places(typed) : Right(typed, i, e, L[e])
    BY <1>3, <1>8
  <2>2. ("shift" \in L[e].held) = Down(typed, i)
    <3>1. Down(typed, i) \in BOOLEAN
      BY DEF Down
    <3>2. QED
      BY <2>1, <3>1 DEF Right
  <2>3. QED
    BY <2>1, <2>2 DEF Right
<1>10. QED
  BY <1>2, <1>9, Zenon DEF ShiftRight, Before, Down, Places

-----------------------------------------------------------------------------
(***************************************************************************)
(* The invariant and what follows from it.                                 *)
(***************************************************************************)

Kept == Ordered /\ AllTold /\ Placed /\ HeardRight

Inv == Types /\ (~mixed => Kept)

(* It holds at the start.                                                  *)
LEMMA InvInit == InputInit => Inv
<1> SUFFICES ASSUME InputInit
             PROVE  Inv
  OBVIOUS
<1>1. /\ Init /\ port = <<>> /\ device = <<>> /\ latch = 0 /\ obtns = 0
      /\ mousex = 0 /\ mousey = 0 /\ held = {} /\ events = <<>> /\ got = <<>> /\ typed = <<>>
      /\ swept.x = 0 /\ swept.y = 0
  BY DEF InputInit
<1>2. TypeOK
  BY <1>1, RingInit
<1>3. Types
  <2>1. 0 \in Bytes
    BY RingAssumption
  <2>2. port \in Seq(Items) /\ device \in Seq(Bytes) /\ got \in Seq(Bytes) /\ typed \in Seq(Keys)
    BY <1>1, EmptySeq
  <2>3. KeysAreKeys(port)
    BY <1>1 DEF KeysAreKeys
  <2>4. QED
    BY <1>1, <1>2, <2>1, <2>2, <2>3 DEF Types
<1>4. Unread = <<>>
  <2>1. Used = 0
    BY <1>1 DEF Init, Used, Ahead
  <2>2. QED
    BY <2>1 DEF Unread, Window
<1>5. got \o Unread = <<>>
  BY <1>1, <1>4
<1>6. \A S : Only(got \o Unread, S) = <<>> /\ Only(got, S) = <<>>
  BY <1>1, <1>5, OnlyOne, Zenon
<1>7. Part(port, TRUE) = <<>> /\ Part(port, FALSE) = <<>>
  <2>1. port \in Seq(Items) /\ Len(port) = 0
    BY <1>1, EmptySeq
  <2>2. \A i \in 1 .. Len(port) : FALSE
    BY <2>1
  <2>3. QED
    BY <2>1, <2>2, PartAll
<1>8. Ordered
  <2>1. <<>> \o <<>> = <<>>
    OBVIOUS
  <2>2. QED
    BY <1>1, <1>6, <1>7, <2>1 DEF Ordered
<1>9. AllTold
  <2> SUFFICES ASSUME NEW i \in Buttons
               PROVE  Turns(Told(i), i, Bit(obtns, i))
    BY DEF AllTold
  <2>1. Told(i) = <<>> /\ Len(<<>>) = 0 /\ DOMAIN <<>> = {}
    BY <1>6 DEF Told
  <2>2. Bit(0, i) = FALSE
    <3>1. 2 ^ 0 = 1 /\ 2 ^ 1 = 2 /\ 2 ^ 2 = 4
      OBVIOUS
    <3>2. i = 0 \/ i = 1 \/ i = 2
      BY DEF Buttons
    <3>3. CASE i = 0
      BY <3>1, <3>3 DEF Bit
    <3>4. CASE i = 1
      BY <3>1, <3>4 DEF Bit
    <3>5. CASE i = 2
      BY <3>1, <3>5 DEF Bit
    <3>6. QED
      BY <3>2, <3>3, <3>4, <3>5
  <2>3. (Len(<<>>) % 2 = 1) = FALSE
    <3>1. Len(<<>>) = 0 /\ 0 % 2 # 1
      OBVIOUS
    <3>2. QED
      BY <3>1
  <2>4. \A n \in DOMAIN <<>> : FALSE
    OBVIOUS
  <2>5. QED
    BY <1>1, <2>1, <2>2, <2>3, <2>4, Zenon DEF Turns
<1>10. Placed
  <2>1. OnTheWay = <<>> /\ Len(OnTheWay) = 3 * 0
    <3>1. <<>> \o <<>> = <<>> /\ Len(<<>>) = 0 /\ 3 * 0 = 0
      OBVIOUS
    <3>2. OnTheWay = <<>>
      BY <1>1, <1>7, <3>1 DEF OnTheWay
    <3>3. QED
      BY <3>1, <3>2, Zenon
  <2>2. PICK p : p = [k \in 0 .. 0 |-> 0]
    OBVIOUS
  <2>3. p \in [0 .. 0 -> Int] /\ p[0] = 0
    BY <2>2
  <2>4. Led(OnTheWay, 0, p, p, 0, 0, 0, 0)
    BY <2>1, <2>3 DEF Led, Leads
  <2>5. mousex = 0 /\ mousey = 0 /\ swept.x = 0 /\ -swept.y = 0 /\ 0 \in Nat
    <3>1. \A z \in Int : 0 <= z /\ z <= 0 => -z \in Int /\ 0 <= -z /\ -z <= 0
      OBVIOUS
    <3>2. \A z \in Int : 0 <= z /\ z <= 0 => z = 0
      OBVIOUS
    <3>3. 0 \in Int /\ 0 \in Nat /\ 0 <= 0
      OBVIOUS
    <3>4. -0 = 0
      BY <3>1, <3>2, <3>3, Zenon
    <3>5. QED
      BY <1>1, <3>3, <3>4, Zenon
  <2>6. QED
    BY <2>4, <2>5, Zenon DEF Placed, Route
<1>11. HeardRight
  <2>1. Only(got, KeyBytes) = <<>> /\ Only(events, KeyDowns) = <<>>
    BY <1>1, <1>6, OnlyOne
  <2>2. events \in Seq(AllEvents) /\ held \in SUBSET With /\ "shift" \notin held
    BY <1>1, EmptySeq
  <2>3. Len(<<>>) = 0 /\ DOMAIN <<>> = {}
    OBVIOUS
  <2>4. ~Down(<<>>, Len(<<>>) + 1)
    BY <2>3 DEF Down
  <2>5. Places(<<>>) = {} /\ Cardinality({}) = 0
    BY <2>3, FS_EmptySet DEF Places
  <2>6. QED
    BY <2>1, <2>2, <2>3, <2>4, <2>5 DEF HeardRight, Heard
<1>12. QED
  BY <1>3, <1>8, <1>9, <1>10, <1>11 DEF Inv, Kept

(* The devices' steps keep it.                                             *)
LEMMA DevicesKeep ==
  ASSUME Inv,
         \/ \E k \in Keys : press(k)
         \/ \E pressed \in Presses, d \in Moves : moves(pressed, d)
         \/ sends
  PROVE  Inv'
<1>1. Types /\ (~mixed => Kept)
  BY DEF Inv
<1>2. CASE \E k \in Keys : press(k)
  <2>1. PICK k \in Keys : press(k)
    BY <1>2
  <2>2. UNCHANGED <<vars, got, obtns, held, events, mixed>>
    BY <2>1 DEF press, mouseVars, ruskVars
  <2>3. Unread' = Unread
    BY <1>1, <2>2, TypeStays DEF Types
  <2>4. Types'
    BY <1>1, <2>1, PressTypes
  <2>5. ASSUME Kept
        PROVE  Kept'
    <3>1. Ordered'
      BY <1>1, <2>1, <2>5, PressOrdered DEF Kept
    <3>2. AllTold'
      BY <2>2, <2>3, <2>5, StaysTold DEF Kept
    <3>3. Placed'
      BY <1>1, <2>1, <2>5, PressPlaced DEF Kept
    <3>4. HeardRight'
      BY <2>2, <2>5, StaysHeard DEF Kept
    <3>5. QED
      BY <3>1, <3>2, <3>3, <3>4 DEF Kept
  <2>6. QED
    BY <1>1, <2>2, <2>4, <2>5 DEF Inv
<1>3. CASE \E pressed \in Presses, d \in Moves : moves(pressed, d)
  <2>1. PICK pressed \in Presses, d \in Moves : moves(pressed, d)
    BY <1>3
  <2>2. UNCHANGED <<vars, got, obtns, held, events, mixed, port, typed>>
    BY <2>1 DEF moves, mouseVars, ruskVars
  <2>3. Unread' = Unread
    BY <1>1, <2>2, TypeStays DEF Types
  <2>4. Types'
    BY <1>1, <2>1, MovesTypes
  <2>5. ASSUME Kept
        PROVE  Kept'
    <3>1. Ordered'
      BY <2>2, <2>3, <2>5, StaysOrdered DEF Kept
    <3>2. AllTold'
      BY <2>2, <2>3, <2>5, StaysTold DEF Kept
    <3>3. Placed'
      BY <1>1, <2>1, <2>5, MovesPlaced DEF Kept
    <3>4. HeardRight'
      BY <2>2, <2>5, StaysHeard DEF Kept
    <3>5. QED
      BY <3>1, <3>2, <3>3, <3>4 DEF Kept
  <2>6. QED
    BY <1>1, <2>2, <2>4, <2>5 DEF Inv
<1>4. CASE sends
  <2>1. UNCHANGED <<vars, got, obtns, held, events, mixed>>
    BY <1>4 DEF sends, mouseVars, ruskVars
  <2>2. Unread' = Unread
    BY <1>1, <2>1, TypeStays DEF Types
  <2>3. Types'
    BY <1>1, <1>4, SendsTypes
  <2>4. ASSUME Kept
        PROVE  Kept'
    <3>1. Ordered'
      BY <1>1, <1>4, <2>4, SendsOrdered DEF Kept
    <3>2. AllTold'
      BY <2>1, <2>2, <2>4, StaysTold DEF Kept
    <3>3. Placed'
      BY <1>1, <1>4, <2>4, SendsPlaced DEF Kept
    <3>4. HeardRight'
      BY <2>1, <2>4, StaysHeard DEF Kept
    <3>5. QED
      BY <3>1, <3>2, <3>3, <3>4 DEF Kept
  <2>5. QED
    BY <1>1, <2>1, <2>3, <2>4 DEF Inv
<1>5. QED
  BY <1>2, <1>3, <1>4

(* What hands over keys or a packet keeps it.                              *)
LEMMA PassKeeps ==
  ASSUME Types, Types', Kept, PacketPasses \/ \E n : KeysPass(n),
         UNCHANGED <<device, got, swept, typed, held, events>>
  PROVE  Kept'
<1>1. device' = device /\ got' = got /\ swept' = swept /\ typed' = typed
  OBVIOUS
<1>2. HeardRight'
  BY StaysHeard DEF Kept
<1>3. CASE PacketPasses
  <2>1. Ordered'
    BY <1>1, <1>3, PacketOrdered DEF Kept
  <2>2. AllTold'
    BY <1>1, <1>3, PacketTold DEF Kept
  <2>3. Placed'
    BY <1>1, <1>3, PacketPlaced DEF Kept
  <2>4. QED
    BY <1>2, <2>1, <2>2, <2>3 DEF Kept
<1>4. CASE \E n : KeysPass(n)
  <2>1. PICK n : KeysPass(n)
    BY <1>4
  <2>2. Ordered'
    BY <1>1, <2>1, KeysPassOrdered DEF Kept
  <2>3. AllTold'
    BY <1>1, <2>1, KeysPassTold DEF Kept
  <2>4. Placed'
    BY <1>1, <2>1, KeysPassPlaced DEF Kept
  <2>5. QED
    BY <1>2, <2>2, <2>3, <2>4 DEF Kept
<1>5. QED
  BY <1>3, <1>4

(* Every step keeps it.                                                    *)
LEMMA InvStep ==
  ASSUME Inv, [InputNext]_inputVars
  PROVE  Inv'
<1>1. Types /\ (~mixed => Kept)
  BY DEF Inv
<1>2. CASE \/ \E k \in Keys : press(k)
           \/ \E pressed \in Presses, d \in Moves : moves(pressed, d)
           \/ sends
  BY <1>2, DevicesKeep
<1>3. CASE interrupt
  <2>1. Types'
    BY <1>1, <1>3, InterruptTypes
  <2>2. ASSUME ~mixed'
        PROVE  Kept'
    <3>1. KeysPass(1) /\ UNCHANGED <<device, got, swept, typed, held, events>> /\ ~mixed
      BY <1>1, <1>3, <2>2, InterruptPasses
    <3>2. Kept
      BY <1>1, <3>1
    <3>3. QED
      BY <1>1, <2>1, <3>1, <3>2, PassKeeps
  <2>3. QED
    BY <2>1, <2>2 DEF Inv
<1>4. CASE get_mouse_pos
  <2>1. Types'
    BY <1>1, <1>4, MouseTypes
  <2>2. ASSUME ~mixed'
        PROVE  Kept'
    <3>1. /\ PacketPasses \/ \E n \in 0 .. Len(port) : KeysPass(n)
          /\ UNCHANGED <<device, got, swept, typed, held, events>> /\ ~mixed
      BY <1>1, <1>4, <2>2, MousePasses
    <3>2. Kept
      BY <1>1, <3>1
    <3>3. PacketPasses \/ \E n : KeysPass(n)
      BY <3>1
    <3>4. QED
      BY <1>1, <2>1, <3>1, <3>2, <3>3, PassKeeps
  <2>3. QED
    BY <2>1, <2>2 DEF Inv
<1>5. CASE \E size \in Sizes : process_events(size)
  <2>1. PICK size \in Sizes : process_events(size)
    BY <1>5
  <2>2. Types'
    BY <1>1, <2>1, EventsTypes
  <2>3. PICK data \in Seq(Bytes) : data \o Unread' = Unread /\ got' = got \o data
    BY <1>1, <2>1, EventsTypes
  <2>4. UNCHANGED <<port, device, obtns, mousex, mousey, swept, typed, mixed>>
    BY <2>1 DEF process_events, deviceVars, mouseVars
  <2>5. Unread' \in Seq(Bytes)
    <3>1. kb_read(size)
      BY <2>1 DEF process_events
    <3>2. TypeOK /\ size \in Nat
      BY <1>1, RingAssumption DEF Types
    <3>3. QED
      BY <3>1, <3>2, UnreadRead
  <2>6. got' \o Unread' = got \o Unread
    BY <1>1, <2>3, <2>5, ReadBefore
  <2>7. ASSUME Kept
        PROVE  Kept'
    <3>1. Ordered'
      BY <2>4, <2>6, <2>7, StaysOrdered DEF Kept
    <3>2. AllTold'
      BY <2>4, <2>6, <2>7, StaysTold DEF Kept
    <3>3. Placed'
      BY <2>4, <2>7, StaysPlaced DEF Kept
    <3>4. HeardRight'
      BY <1>1, <2>1, <2>7, ReadHeard DEF Kept
    <3>5. QED
      BY <3>1, <3>2, <3>3, <3>4 DEF Kept
  <2>8. QED
    BY <1>1, <2>2, <2>4, <2>7 DEF Inv
<1>6. CASE UNCHANGED inputVars
  <2>1. Types' /\ Unread' = Unread
    BY <1>1, <1>6, StutterTypes
  <2>2. UNCHANGED <<port, device, obtns, mousex, mousey, swept, typed, mixed, got, held, events>>
    BY <1>6 DEF inputVars, deviceVars, mouseVars, ruskVars
  <2>3. ASSUME Kept
        PROVE  Kept'
    <3>1. Ordered'
      BY <2>1, <2>2, <2>3, StaysOrdered DEF Kept
    <3>2. AllTold'
      BY <2>1, <2>2, <2>3, StaysTold DEF Kept
    <3>3. Placed'
      BY <2>2, <2>3, StaysPlaced DEF Kept
    <3>4. HeardRight'
      BY <2>2, <2>3, StaysHeard DEF Kept
    <3>5. QED
      BY <3>1, <3>2, <3>3, <3>4 DEF Kept
  <2>4. QED
    BY <1>1, <2>1, <2>2, <2>3 DEF Inv
<1>7. QED
  BY <1>2, <1>3, <1>4, <1>5, <1>6 DEF InputNext, Rusk

(* So it always holds.                                                     *)
LEMMA InvHolds == InputSpec => []Inv
BY InvInit, InvStep, PTL DEF InputSpec

(* Every key typed is in rusk, in the ring or in the controller, once and  *)
(* in the order typed, whichever of key_int and get_mouse_pos took it from *)
(* the port and however full the ring is.                                  *)
THEOREM KeysArrive == InputSpec => []KeysInOrder
<1>1. Inv => KeysInOrder
  BY OrderedIs DEF Inv, Kept
<1>2. QED
  BY <1>1, InvHolds, PTL

(* The codes rusk gets for a button take turns and end with what           *)
(* get_mouse_pos noted, and the pointer is where the packets moved it once *)
(* all of their bytes have been read.                                      *)
THEOREM PacketsCounted == InputSpec => []PacketsCount
<1>1. Inv => ButtonsTold
  BY AllToldIs DEF Inv, Kept
<1>2. Inv => PlaceTrue
  BY PlacedIs DEF Inv, Kept, PlaceTrue
<1>3. Inv => PacketsCount
  BY <1>1, <1>2 DEF PacketsCount
<1>4. QED
  BY <1>3, InvHolds, PTL

(* Every letter process_events passes on is the next one typed, with the   *)
(* shift that was down when it was typed and not when it was read.         *)
THEOREM ShiftHeard == InputSpec => []ShiftRight
<1>1. Inv => ShiftRight
  <2> SUFFICES ASSUME Inv
               PROVE  ShiftRight
    OBVIOUS
  <2>1. CASE mixed
    BY <2>1 DEF ShiftRight
  <2>2. CASE ~mixed
    BY <2>2, ShiftRightIs DEF Inv, Kept
  <2>3. QED
    BY <2>1, <2>2
<1>2. QED
  BY <1>1, InvHolds, PTL

(* The ring's indices stay on it in the whole system too, where bytes are  *)
(* written by get_mouse_pos and not by programs.                           *)
THEOREM RingTyped == InputSpec => []TypeOK
<1>1. Inv => TypeOK
  BY DEF Inv, Types
<1>2. QED
  BY <1>1, InvHolds, PTL
=============================================================================
