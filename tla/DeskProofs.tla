----------------------------- MODULE DeskProofs -----------------------------
(***************************************************************************)
(* Theorems about the window system, for any programs with windows, any    *)
(* number of windows and of events.                                        *)
(*                                                                         *)
(* A channel holds what its reader expects: its messages are a path from   *)
(* the state the reader is in to a state in which it may be left alone.    *)
(* What rusk is asked goes on, behind the channel, through what the        *)
(* program still has to send.  Everybody sends whole requests or whole     *)
(* answers, so every send, every receive and every new request leaves a    *)
(* path: that is the inductive invariant StepInv.                          *)
(***************************************************************************)
EXTENDS Desk, FiniteSetTheorems, WellFoundedInduction, SequenceTheorems, TLAPS

(***************************************************************************)
(* Numbers and recursive functions.                                        *)
(***************************************************************************)

(* A set of numbers has a least one.  The initial segments below its       *)
(* members are finite sets, which strict inclusion orders well: this is    *)
(* where every induction below comes from.                                 *)
LEMMA LeastNumber ==
  ASSUME NEW T \in SUBSET Nat, T # {}
  PROVE  \E x \in T : \A y \in T : x <= y
<1> DEFINE TT == {0 .. n : n \in T}
<1>1. TT \subseteq FiniteSubsetsOf(Nat) /\ TT # {}
  <2>1. \A n \in T : IsFiniteSet(0 .. n)
    BY FS_Interval
  <2>2. TT \subseteq FiniteSubsetsOf(Nat)
    BY <2>1 DEF FiniteSubsetsOf
  <2>3. TT # {}
    OBVIOUS
  <2>4. QED
    BY <2>2, <2>3
<1> HIDE DEF TT
<1>2. PICK x \in TT : \A y \in TT : <<y, x>> \notin StrictSubsetOrdering(Nat)
  <2>1. IsWellFoundedOn(StrictSubsetOrdering(Nat), FiniteSubsetsOf(Nat))
    BY FS_StrictSubsetOrderingWellFounded
  <2>2. QED
    BY <1>1, <2>1, WFMin, Zenon
<1>3. PICK n \in T : x = 0 .. n
  BY DEF TT
<1>4. ASSUME NEW m \in T, m < n
      PROVE  FALSE
  <2>1. 0 .. m \in TT
    BY DEF TT
  <2>2. /\ 0 .. m \in SUBSET Nat /\ 0 .. n \in SUBSET Nat
        /\ 0 .. m \subseteq 0 .. n
    BY <1>4
  <2>3. n \in 0 .. n /\ n \notin 0 .. m
    BY <1>4
  <2>4. <<0 .. m, 0 .. n>> \in StrictSubsetOrdering(Nat)
    BY <2>2, <2>3, Zenon DEF StrictSubsetOrdering
  <2>5. QED
    BY <1>2, <1>3, <2>1, <2>4
<1>5. QED
  BY <1>4

(* Induction: what holds of 0 and of each next number holds of all.        *)
LEMMA Upwards ==
  ASSUME NEW N \in Nat, NEW G, 0 \in G, \A m \in 1 .. N : m - 1 \in G => m \in G
  PROVE  \A m \in 0 .. N : m \in G
<1> DEFINE T == {m \in 0 .. N : m \notin G}
<1>1. CASE T = {}
  BY <1>1
<1>2. CASE T # {}
  <2>1. T \in SUBSET Nat
    OBVIOUS
  <2>2. PICK m \in T : \A k \in T : m <= k
    BY <1>2, <2>1, LeastNumber
  <2>3. m \in 1 .. N /\ m - 1 \in 0 .. N /\ ~(m <= m - 1)
    BY <2>2
  <2>4. m - 1 \in G
    BY <2>2, <2>3
  <2>5. QED
    BY <2>2, <2>3, <2>4
<1>3. QED
  BY <1>1, <1>2

(* What a step function makes of a in n steps.                             *)
Iterates(g, a, step, n) == g[0] = a /\ \A i \in 1 .. n : g[i] = step[<<g[i - 1], i>>]

(* Recursive functions on the first numbers exist.                         *)
LEMMA Iterated ==
  ASSUME NEW D, NEW n \in Nat, NEW a \in D, NEW step \in [D \X (1 .. n) -> D]
  PROVE  \E g \in [0 .. n -> D] : Iterates(g, a, step, n)
<1> DEFINE G == {m \in 0 .. n : \E g \in [0 .. m -> D] : Iterates(g, a, step, m)}
<1>1. 0 \in G
  <2> DEFINE g == [i \in 0 .. 0 |-> a]
  <2>1. g \in [0 .. 0 -> D] /\ g[0] = a /\ 1 .. 0 = {}
    OBVIOUS
  <2>2. Iterates(g, a, step, 0)
    BY <2>1 DEF Iterates
  <2>3. QED
    BY <2>1, <2>2
<1>2. ASSUME NEW m \in 1 .. n, m - 1 \in G
      PROVE  m \in G
  <2>1. PICK g \in [0 .. m - 1 -> D] : Iterates(g, a, step, m - 1)
    BY <1>2
  <2> DEFINE h == [i \in 0 .. m |-> IF i = m THEN step[<<g[m - 1], m>>] ELSE g[i]]
  <2>2. m - 1 \in 0 .. m - 1 /\ m \in Nat /\ g[m - 1] \in D
    OBVIOUS
  <2>3. step[<<g[m - 1], m>>] \in D
    BY <2>2
  <2>4. h \in [0 .. m -> D]
    BY <2>3
  <2>5. h[0] = a
    BY <2>1 DEF Iterates
  <2>6. ASSUME NEW i \in 1 .. m
        PROVE  h[i] = step[<<h[i - 1], i>>]
    <3>1. i - 1 \in 0 .. m /\ i - 1 # m /\ h[i - 1] = g[i - 1]
      OBVIOUS
    <3>2. CASE i = m
      BY <3>1, <3>2
    <3>3. CASE i # m
      <4>1. i \in 1 .. m - 1 /\ h[i] = g[i]
        BY <3>3
      <4>2. QED
        BY <2>1, <3>1, <4>1 DEF Iterates
    <3>4. QED
      BY <3>2, <3>3
  <2> HIDE DEF h
  <2>7. QED
    BY <2>4, <2>5, <2>6 DEF Iterates
<1>3. n \in G
  <2> HIDE DEF G
  <2>1. \A m \in 0 .. n : m \in G
    BY <1>1, <1>2, Upwards
  <2>2. QED
    BY <2>1
<1>4. QED
  BY <1>3

(***************************************************************************)
(* Paths.  What may follow what in a channel is said by steps <<w, m, v>>: *)
(* a reader in state w who is given m is then in state v.                  *)
(***************************************************************************)

(* What is still wanted of a request; what the manager waits for; what     *)
(* comes next where two kinds take turns.                                  *)
States ==
  { <<>>, <<"api">>, <<"handle">>, <<"place", "buffer">>, <<"buffer">>, <<"expanse">>,
    <<"expanse", "buffer">> }
  \cup {"register", "serve", "init_expanse", "list", "handle", "events"}

Labels(T) == {t[2] : t \in T}

Follows(T, w, s, v, st) ==
  /\ st[0] = w /\ st[Len(s)] = v
  /\ \A i \in 1 .. Len(s) : <<st[i - 1], s[i], st[i]>> \in T

Path(T, w, s, v) ==
  /\ s \in Seq(Labels(T))
  /\ \E st \in [0 .. Len(s) -> States] : Follows(T, w, s, v, st)

(* A path of no steps stays where it is.                                   *)
LEMMA PathNone ==
  ASSUME NEW T, NEW w \in States
  PROVE  Path(T, w, <<>>, w)
<1> DEFINE st == [i \in 0 .. 0 |-> w]
<1>1. st \in [0 .. 0 -> States] /\ Len(<<>>) = 0 /\ <<>> \in Seq(Labels(T)) /\ 1 .. 0 = {}
  OBVIOUS
<1>2. Follows(T, w, <<>>, w, st)
  BY <1>1 DEF Follows
<1>3. QED
  BY <1>1, <1>2 DEF Path

(* A path without messages ends where it begins.                           *)
LEMMA PathNoneOnly ==
  ASSUME NEW T, NEW w, NEW v, Path(T, w, <<>>, v)
  PROVE  w = v
BY DEF Path, Follows

(* A path is a sequence of labels between two states.                      *)
LEMMA PathEnds ==
  ASSUME NEW T, NEW w, NEW s, NEW v, Path(T, w, s, v)
  PROVE  s \in Seq(Labels(T)) /\ w \in States /\ v \in States
<1>1. PICK st \in [0 .. Len(s) -> States] : Follows(T, w, s, v, st)
  BY DEF Path
<1>2. s \in Seq(Labels(T)) /\ Len(s) \in Nat
  BY DEF Path
<1>3. 0 \in 0 .. Len(s) /\ Len(s) \in 0 .. Len(s)
  BY <1>2
<1>4. QED
  BY <1>1, <1>2, <1>3 DEF Follows

(* The message of a step is a label.                                       *)
LEMMA Labelled ==
  ASSUME NEW T, NEW w, NEW m, NEW v, <<w, m, v>> \in T
  PROVE  m \in Labels(T)
<1>1. <<w, m, v>>[2] = m
  OBVIOUS
<1>2. QED
  BY <1>1 DEF Labels

(* One step.                                                               *)
LEMMA PathOne ==
  ASSUME NEW T, NEW w \in States, NEW v \in States, NEW m, <<w, m, v>> \in T
  PROVE  Path(T, w, <<m>>, v)
<1> DEFINE st == [i \in 0 .. 1 |-> IF i = 0 THEN w ELSE v]
<1>1. m \in Labels(T)
  <2>1. <<w, m, v>>[2] = m
    OBVIOUS
  <2>2. QED
    BY <2>1 DEF Labels
<1>2. <<m>> \in Seq(Labels(T)) /\ Len(<<m>>) = 1 /\ st \in [0 .. 1 -> States]
  BY <1>1
<1>3. Follows(T, w, <<m>>, v, st)
  <2>1. st[0] = w /\ st[1] = v /\ \A i \in 1 .. 1 : i = 1 /\ i - 1 = 0
    OBVIOUS
  <2>2. <<m>>[1] = m
    OBVIOUS
  <2>3. \A i \in 1 .. 1 : <<st[i - 1], <<m>>[i], st[i]>> \in T
    BY <2>1, <2>2
  <2>4. QED
    BY <1>2, <2>1, <2>3 DEF Follows
<1>4. QED
  BY <1>2, <1>3 DEF Path

(* One path after another.                                                 *)
LEMMA PathCat ==
  ASSUME NEW T, NEW w, NEW a, NEW u, NEW b, NEW v, Path(T, w, a, u), Path(T, u, b, v)
  PROVE  Path(T, w, a \o b, v)
<1>1. PICK L : L = Labels(T)
  OBVIOUS
<1>2. PICK p \in Seq(L), q \in Seq(L) : p = a /\ q = b
  BY <1>1 DEF Path
<1>3. PICK f \in [0 .. Len(p) -> States] : Follows(T, w, p, u, f)
  BY <1>2 DEF Path
<1>4. PICK g \in [0 .. Len(q) -> States] : Follows(T, u, q, v, g)
  BY <1>2 DEF Path
<1>5. PICK c \in Seq(L) : c = p \o q
  <2>1. p \o q \in Seq(L)
    OBVIOUS
  <2>2. QED
    BY <2>1
<1>6. /\ Len(p) \in Nat /\ Len(q) \in Nat /\ Len(c) = Len(p) + Len(q)
      /\ \A i \in 1 .. Len(p) : c[i] = p[i]
      /\ \A i \in Len(p) + 1 .. Len(p) + Len(q) : c[i] = q[i - Len(p)]
  BY <1>5
<1>7. PICK m \in Nat, n \in Nat : m = Len(p) /\ n = Len(q)
  BY <1>6
<1> DEFINE st == [i \in 0 .. m + n |-> IF i <= m THEN f[i] ELSE g[i - m]]
<1>8. st \in [0 .. m + n -> States]
  <2>0. f \in [0 .. m -> States] /\ g \in [0 .. n -> States]
    BY <1>7
  <2>1. ASSUME NEW i \in 0 .. m + n
        PROVE  (IF i <= m THEN f[i] ELSE g[i - m]) \in States
    <3>1. CASE i <= m
      BY <2>0, <3>1
    <3>2. CASE ~(i <= m)
      <4>1. i - m \in 0 .. n
        BY <3>2
      <4>2. QED
        BY <2>0, <3>2, <4>1
    <3>3. QED
      BY <3>1, <3>2
  <2>2. QED
    BY <2>1
<1>9. st[0] = w
  <2>1. 0 \in 0 .. m + n /\ 0 <= m
    OBVIOUS
  <2>2. QED
    BY <1>3, <2>1 DEF Follows
<1>10. f[m] = u /\ g[0] = u /\ g[n] = v
  BY <1>3, <1>4, <1>7 DEF Follows
<1>11. st[m + n] = v
  <2>1. CASE n = 0
    BY <1>10, <2>1
  <2>2. CASE n # 0
    <3>1. m + n \in 0 .. m + n /\ ~(m + n <= m) /\ m + n - m = n
      BY <2>2
    <3>2. QED
      BY <1>10, <3>1
  <2>3. QED
    BY <2>1, <2>2
<1>12. ASSUME NEW i \in 1 .. m + n
       PROVE  <<st[i - 1], c[i], st[i]>> \in T
  <2>1. CASE i <= m
    <3>1. /\ i \in 1 .. m /\ i - 1 \in 0 .. m + n /\ i \in 0 .. m + n
          /\ i - 1 <= m
      BY <2>1
    <3>2. st[i - 1] = f[i - 1] /\ st[i] = f[i]
      BY <2>1, <3>1
    <3>3. c[i] = p[i]
      BY <1>6, <1>7, <3>1
    <3>4. <<f[i - 1], p[i], f[i]>> \in T
      BY <1>3, <1>7, <3>1 DEF Follows
    <3>5. QED
      BY <3>2, <3>3, <3>4
  <2>2. CASE ~(i <= m)
    <3>1. PICK j \in 1 .. n : j = i - m
      BY <2>2
    <3>2. i - 1 \in 0 .. m + n /\ i \in 0 .. m + n /\ i - 1 - m = j - 1 /\ i - m = j
      BY <3>1
    <3>3. st[i] = g[j]
      BY <2>2, <3>2
    <3>4. st[i - 1] = g[j - 1]
      <4>1. CASE i - 1 <= m
        <5>1. i - 1 = m /\ j - 1 = 0
          BY <2>2, <3>2, <4>1
        <5>2. st[i - 1] = f[m]
          BY <3>2, <5>1
        <5>3. QED
          BY <1>10, <5>1, <5>2
      <4>2. CASE ~(i - 1 <= m)
        BY <3>2, <4>2
      <4>3. QED
        BY <4>1, <4>2
    <3>5. c[i] = q[j]
      <4>1. i \in m + 1 .. m + n
        BY <2>2
      <4>2. c[i] = q[i - m]
        BY <1>6, <1>7, <4>1
      <4>3. QED
        BY <3>2, <4>2
    <3>6. <<g[j - 1], q[j], g[j]>> \in T
      BY <1>4, <1>7, <3>1 DEF Follows
    <3>7. QED
      BY <3>3, <3>4, <3>5, <3>6
  <2>3. QED
    BY <2>1, <2>2
<1> HIDE DEF st
<1>13. Len(c) = m + n
  BY <1>6, <1>7
<1>14. Follows(T, w, c, v, st)
  BY <1>9, <1>11, <1>12, <1>13 DEF Follows
<1>15. Path(T, w, c, v)
  BY <1>1, <1>8, <1>13, <1>14 DEF Path
<1>16. QED
  BY <1>2, <1>5, <1>15

(* The first step of a path, and the rest.                                 *)
LEMMA PathHead ==
  ASSUME NEW T, NEW w, NEW s, NEW v, Path(T, w, s, v), s # <<>>
  PROVE  /\ Tail(s) = SubSeq(s, 2, Len(s))
         /\ \E u \in States : <<w, Head(s), u>> \in T /\ Path(T, u, Tail(s), v)
<1>1. PICK L : L = Labels(T)
  OBVIOUS
<1>2. PICK p \in Seq(L) : p = s
  BY <1>1 DEF Path
<1>3. PICK f \in [0 .. Len(p) -> States] : Follows(T, w, p, v, f)
  BY <1>2 DEF Path
<1>4. PICK n \in Nat : n = Len(p)
  BY <1>2
<1>5. n # 0
  BY <1>2, <1>4
<1>6. PICK q \in Seq(L) : q = Tail(p)
  <2>1. Tail(p) \in Seq(L)
    BY <1>4, <1>5
  <2>2. QED
    BY <2>1
<1>7. Len(q) = n - 1 /\ \A i \in 1 .. n - 1 : q[i] = p[i + 1]
  BY <1>4, <1>5, <1>6
<1>8. 1 \in 0 .. n /\ f[1] \in States
  BY <1>4, <1>5
<1>9. <<w, Head(p), f[1]>> \in T
  <2>1. 1 \in 1 .. n /\ 1 - 1 = 0 /\ f[0] = w
    BY <1>3, <1>5 DEF Follows
  <2>2. Head(p) = p[1]
    BY <1>4, <1>5
  <2>3. <<f[1 - 1], p[1], f[1]>> \in T
    BY <1>3, <1>4, <2>1 DEF Follows
  <2>4. QED
    BY <2>1, <2>2, <2>3
<1>10. Path(T, f[1], q, v)
  <2> DEFINE st == [i \in 0 .. n - 1 |-> f[i + 1]]
  <2>1. st \in [0 .. n - 1 -> States]
    BY <1>4
  <2>2. st[0] = f[1] /\ st[n - 1] = v
    BY <1>3, <1>4, <1>5 DEF Follows
  <2>3. ASSUME NEW i \in 1 .. n - 1
        PROVE  <<st[i - 1], q[i], st[i]>> \in T
    <3>1. i + 1 \in 1 .. n /\ i + 1 - 1 = i /\ i - 1 + 1 = i
      OBVIOUS
    <3>2. <<f[i + 1 - 1], p[i + 1], f[i + 1]>> \in T
      BY <1>3, <1>4, <3>1 DEF Follows
    <3>3. st[i - 1] = f[i] /\ st[i] = f[i + 1] /\ q[i] = p[i + 1]
      BY <1>7, <3>1
    <3>4. QED
      BY <3>1, <3>2, <3>3
  <2> HIDE DEF st
  <2>4. Follows(T, f[1], q, v, st)
    BY <1>7, <2>2, <2>3 DEF Follows
  <2>5. QED
    BY <1>1, <1>7, <2>1, <2>4 DEF Path
<1>11. q = SubSeq(p, 2, n)
  BY <1>4, <1>5, <1>6
<1>12. QED
  BY <1>2, <1>4, <1>6, <1>8, <1>9, <1>10, <1>11

(* The pieces of a flattened list, one after the other.                    *)
LEMMA Unfolded ==
  ASSUME NEW L, NEW ss \in Seq(Seq(L)), NEW n \in Nat, n = Len(ss), n # 0
  PROVE  \E h : /\ FlattenSeq(ss) = h[n]
                /\ \A i \in 1 .. n : h[i] = IF i = 1 THEN ss[i] ELSE h[i - 1] \o ss[i]
<1> DEFINE step == [x \in Seq(L) \X (1 .. n - 1) |-> x[1] \o ss[x[2] + 1]]
           Next1(h, i) == IF i = 1 THEN ss[i] ELSE h[i - 1] \o ss[i]
<1>1. \A i \in 1 .. n : ss[i] \in Seq(L)
  OBVIOUS
<1>2. step \in [Seq(L) \X (1 .. n - 1) -> Seq(L)]
  <2>1. ASSUME NEW x \in Seq(L) \X (1 .. n - 1)
        PROVE  x[1] \o ss[x[2] + 1] \in Seq(L)
    <3>1. PICK a \in Seq(L), b \in Seq(L) : a = x[1] /\ b = ss[x[2] + 1]
      <4>1. x[1] \in Seq(L) /\ x[2] \in 1 .. n - 1
        OBVIOUS
      <4>2. x[2] + 1 \in 1 .. n
        BY <4>1
      <4>3. QED
        BY <1>1, <4>1, <4>2
    <3>2. a \o b \in Seq(L)
      OBVIOUS
    <3>3. QED
      BY <3>1, <3>2
  <2>2. QED
    BY <2>1
<1>3. n - 1 \in Nat /\ 1 \in 1 .. n /\ ss[1] \in Seq(L)
  BY <1>1
<1> HIDE DEF step
<1>4. PICK g \in [0 .. n - 1 -> Seq(L)] : Iterates(g, ss[1], step, n - 1)
  BY <1>2, <1>3, Iterated
<1> DEFINE f == [i \in 1 .. n |-> g[i - 1]]
<1>5. ASSUME NEW i \in 1 .. n
      PROVE  g[i - 1] = IF i = 1 THEN ss[i] ELSE f[i - 1] \o ss[i]
  <2>1. CASE i = 1
    BY <1>4, <2>1 DEF Iterates
  <2>2. CASE i # 1
    <3>1. PICK j \in 1 .. n - 1 : j = i - 1
      BY <2>2
    <3>2. g[j] = step[<<g[j - 1], j>>]
      BY <1>4 DEF Iterates
    <3>3. j - 1 \in 0 .. n - 1 /\ g[j - 1] \in Seq(L) /\ j \in 1 .. n
      <4>1. j \in 1 .. n /\ j - 1 \in 0 .. n - 1
        OBVIOUS
      <4>2. g[j - 1] \in Seq(L)
        BY <4>1
      <4>3. QED
        BY <4>1, <4>2
    <3>4. <<g[j - 1], j>> \in Seq(L) \X (1 .. n - 1)
      BY <3>3
    <3>5. step[<<g[j - 1], j>>] = g[j - 1] \o ss[j + 1]
      BY <3>4 DEF step
    <3>6. f[j] = g[j - 1]
      BY <3>3
    <3>7. j + 1 = i
      BY <3>1
    <3>8. QED
      BY <2>2, <3>1, <3>2, <3>5, <3>6, <3>7
  <2>3. QED
    BY <2>1, <2>2
<1>6. f = [i \in 1 .. n |-> Next1(f, i)]
  BY <1>5
<1> DEFINE h == CHOOSE k : k = [i \in 1 .. n |-> Next1(k, i)]
<1>7. h = [i \in 1 .. n |-> Next1(h, i)]
  BY <1>6
<1>8. FlattenSeq(ss) = h[n]
  BY DEF FlattenSeq
<1> HIDE DEF h
<1>9. \A i \in 1 .. n : h[i] = Next1(h, i)
  BY <1>7
<1>10. QED
  BY <1>8, <1>9

(* A path of paths that come back to where they start.                     *)
LEMMA PathJoin ==
  ASSUME NEW T, NEW w \in States, NEW ss \in Seq(Seq(Labels(T))),
         \A i \in 1 .. Len(ss) : Path(T, w, ss[i], w)
  PROVE  Path(T, w, FlattenSeq(ss), w)
<1>1. PICK L : L = Labels(T)
  OBVIOUS
<1>2. PICK n \in Nat : n = Len(ss)
  OBVIOUS
<1>3. CASE n = 0
  <2>1. Len(ss) = 0 /\ ss = <<>>
    <3>1. Len(ss) = 0
      BY <1>2, <1>3
    <3>2. ss = <<>>
      BY <3>1, EmptySeq
    <3>3. QED
      BY <3>1, <3>2
  <2>2. FlattenSeq(ss) = ss
    BY <2>1, Zenon DEF FlattenSeq
  <2>3. QED
    BY <2>1, <2>2, PathNone
<1>4. CASE n # 0
  <2>1. PICK h : /\ FlattenSeq(ss) = h[n]
                 /\ \A i \in 1 .. n : h[i] = IF i = 1 THEN ss[i] ELSE h[i - 1] \o ss[i]
    BY <1>2, <1>4, Unfolded
  <2> DEFINE G == {m \in 0 .. n : m # 0 => Path(T, w, h[m], w)}
  <2>2. 0 \in G
    OBVIOUS
  <2>3. ASSUME NEW m \in 1 .. n, m - 1 \in G
         PROVE  m \in G
    <3>1. Path(T, w, ss[m], w)
      BY <1>2
    <3>2. CASE m = 1
      <4>1. h[m] = ss[m]
        BY <2>1, <3>2
      <4>2. Path(T, w, h[m], w)
        BY <3>1, <4>1
      <4>3. QED
        BY <4>2
    <3>3. CASE m # 1
      <4>1. Path(T, w, h[m - 1], w)
        BY <2>3, <3>3
      <4>2. Path(T, w, h[m - 1] \o ss[m], w)
        BY <3>1, <4>1, PathCat
      <4>3. h[m] = h[m - 1] \o ss[m]
        BY <2>1, <3>3
      <4>4. Path(T, w, h[m], w)
        BY <4>2, <4>3
      <4>5. QED
        BY <4>4
    <3>4. m \in 0 .. n /\ Path(T, w, h[m], w)
      BY <3>2, <3>3
    <3>5. QED
      BY <3>4
  <2>4. n \in G
    <3> HIDE DEF G
    <3>1. \A m \in 0 .. n : m \in G
      BY <2>2, <2>3, Upwards
    <3>2. QED
      BY <3>1
  <2>5. QED
    BY <1>4, <2>1, <2>4
<1>5. QED
  BY <1>3, <1>4

(* Short sequences, joined.                                                *)
LEMMA Pair ==
  ASSUME NEW m, NEW n
  PROVE  <<m>> \o <<n>> = <<m, n>>
<1>0. PICK D : m \in D /\ n \in D
  <2>1. m \in {m, n} /\ n \in {m, n}
    OBVIOUS
  <2>2. QED
    BY <2>1
<1>1. PICK a \in Seq(D), b \in Seq(D), d \in Seq(D) : a = <<m>> /\ b = <<n>> /\ d = <<m, n>>
  <2>1. <<m>> \in Seq(D) /\ <<n>> \in Seq(D) /\ <<m, n>> \in Seq(D)
    BY <1>0
  <2>2. QED
    BY <2>1
<1>2. PICK c \in Seq(D) : c = a \o b
  <2>1. a \o b \in Seq(D)
    OBVIOUS
  <2>2. QED
    BY <2>1
<1>3. /\ Len(a) = 1 /\ Len(b) = 1 /\ Len(d) = 2 /\ Len(c) = 2
      /\ a[1] = m /\ b[1] = n /\ d[1] = m /\ d[2] = n
  BY <1>1, <1>2
<1>4. c[1] = a[1] /\ c[2] = b[1]
  BY <1>2, <1>3
<1>5. \A i \in 1 .. Len(c) : c[i] = d[i]
  BY <1>3, <1>4
<1>6. c = d
  BY <1>3, <1>5, SeqEqual
<1>7. QED
  BY <1>1, <1>2, <1>6

(* Two elements and a third, joined.                                       *)
LEMMA Three ==
  ASSUME NEW m, NEW n, NEW k
  PROVE  <<m, n>> \o <<k>> = <<m, n, k>>
<1>0. PICK D : m \in D /\ n \in D /\ k \in D
  <2>1. m \in {m, n, k} /\ n \in {m, n, k} /\ k \in {m, n, k}
    OBVIOUS
  <2>2. QED
    BY <2>1
<1>1. PICK a \in Seq(D), b \in Seq(D), d \in Seq(D) :
             a = <<m, n>> /\ b = <<k>> /\ d = <<m, n, k>>
  <2>1. <<m, n>> \in Seq(D) /\ <<k>> \in Seq(D) /\ <<m, n, k>> \in Seq(D)
    BY <1>0
  <2>2. QED
    BY <2>1
<1>2. PICK c \in Seq(D) : c = a \o b
  <2>1. a \o b \in Seq(D)
    OBVIOUS
  <2>2. QED
    BY <2>1
<1>3. /\ Len(a) = 2 /\ Len(b) = 1 /\ Len(d) = 3 /\ Len(c) = 3
      /\ a[1] = m /\ a[2] = n /\ b[1] = k /\ d[1] = m /\ d[2] = n /\ d[3] = k
  BY <1>1, <1>2
<1>4. c[1] = a[1] /\ c[2] = a[2] /\ c[3] = b[1]
  BY <1>2, <1>3
<1>5. \A i \in 1 .. Len(c) : c[i] = d[i]
  BY <1>3, <1>4
<1>6. c = d
  BY <1>3, <1>5, SeqEqual
<1>7. QED
  BY <1>1, <1>2, <1>6

(* Two steps are a path.                                                   *)
LEMMA PathTwo ==
  ASSUME NEW T, NEW w \in States, NEW u \in States, NEW v \in States, NEW m, NEW n,
         <<w, m, u>> \in T, <<u, n, v>> \in T
  PROVE  Path(T, w, <<m, n>>, v)
<1>1. Path(T, w, <<m>>, u) /\ Path(T, u, <<n>>, v)
  BY PathOne
<1>2. Path(T, w, <<m>> \o <<n>>, v)
  BY <1>1, PathCat
<1>3. <<m>> \o <<n>> = <<m, n>>
  BY Pair
<1>4. QED
  BY <1>2, <1>3

(* Three steps are a path.                                                 *)
LEMMA PathThree ==
  ASSUME NEW T, NEW w \in States, NEW u \in States, NEW x \in States, NEW v \in States,
         NEW m, NEW n, NEW k, <<w, m, u>> \in T, <<u, n, x>> \in T, <<x, k, v>> \in T
  PROVE  Path(T, w, <<m, n, k>>, v)
<1>1. Path(T, w, <<m, n>>, x) /\ Path(T, x, <<k>>, v)
  BY PathOne, PathTwo
<1>2. Path(T, w, <<m, n>> \o <<k>>, v)
  BY <1>1, PathCat
<1>3. <<m, n>> \o <<k>> = <<m, n, k>>
  BY Three
<1>4. QED
  BY <1>2, <1>3

(***************************************************************************)
(* What may follow what in each channel.                                   *)
(***************************************************************************)

Exp     == [handle : Nat, place : Nat]
Events  == Seq([id : Nat, kind : Kinds])
Colours == {"grey", "blue"}
Askers  == Clients \cup {Bearing}

ClientFuncs  == {"create", "remove", "draw"}
BearingFuncs == {"update", "set_front", "send_events", "decorate"}
Funcs(p) == IF p = Bearing THEN BearingFuncs ELSE ClientFuncs

(* The values an argument of p may have.                                   *)
Values(p, type) ==
  CASE type = "api"     -> {p}
    [] type = "handle"  -> Nat
    [] type = "place"   -> Nat
    [] type = "buffer"  -> IF p = Bearing THEN Colours ELSE {p}
    [] type = "expanse" -> Exp
    [] type = "events"  -> Events

(* What is wanted on ES_COMM_PORT once the function is known.              *)
Wanted(f) == IF f = "send_events" THEN <<>> ELSE R!Args[f]

Wants == { <<"api">>, <<"handle">>, <<"place", "buffer">>, <<"buffer">>, <<"expanse">>,
           <<"expanse", "buffer">> }

FuncSteps(p) == {<< <<>>, Message("func", f), Wanted(f) >> : f \in Funcs(p)}
ArgSteps(p) ==
  UNION {{<<w, Message(Head(w), val), Tail(w)>> : val \in Values(p, Head(w))} : w \in Wants}
RequestSteps(p) == FuncSteps(p) \cup ArgSteps(p)

Posting(port, m) == [to |-> Rusk, port |-> port, msg |-> m]
SortedPost(l) == Posting(EVENT_COMM_PORT, Message("events", l))
OutSteps(p) ==
  {<<t[1], Posting(ES_COMM_PORT, t[2]), t[3]>> : t \in RequestSteps(p)}
  \cup {<< <<>>, SortedPost(l), <<>> >> : l \in IF p = Bearing THEN Events ELSE {}}

OrderSteps ==
  { <<"register", Message("bool", TRUE), "serve">>,
    <<"serve", Message("func", "handle_events"), "serve">>,
    <<"serve", Message("func", "init_expanse"), "init_expanse">> }
  \cup {<<"init_expanse", Message("expanse", e), "serve">> : e \in Exp}
ListSteps ==
  {<<"list", Message("list", l), "events">> : l \in Seq(Exp)}
  \cup {<<"events", Message("events", l), "list">> : l \in Events}
HandleSteps == {<<"handle", Message("handle", h), "handle">> : h \in Nat}
GivenSteps ==
  {<<"handle", Message("handle", h), "events">> : h \in Nat}
  \cup {<<"events", Message("events", l), "handle">> : l \in Events}
SortedSteps == {<<"events", Message("events", l), "events">> : l \in Events}

(* The triple is what it was made of.                                      *)
LEMMA Triple ==
  ASSUME NEW a, NEW b, NEW c, NEW d, NEW e, NEW f, <<a, b, c>> = <<d, e, f>>
  PROVE  a = d /\ b = e /\ c = f
OBVIOUS

(* A step of the requests is a function number, or a value of the argument *)
(* that is wanted next.                                                    *)
LEMMA RequestStep ==
  ASSUME NEW p, NEW w, NEW m, NEW u, <<w, m, u>> \in RequestSteps(p)
  PROVE  \/ /\ w = <<>> /\ m.type = "func" /\ m.val \in Funcs(p) /\ u = Wanted(m.val)
            /\ m = Message("func", m.val)
         \/ /\ w \in Wants /\ m.type = Head(w) /\ m.val \in Values(p, Head(w)) /\ u = Tail(w)
            /\ m = Message(Head(w), m.val)
<1>1. CASE <<w, m, u>> \in FuncSteps(p)
  <2>1. PICK f \in Funcs(p) : <<w, m, u>> = << <<>>, Message("func", f), Wanted(f) >>
    BY <1>1 DEF FuncSteps
  <2>2. w = <<>> /\ m = Message("func", f) /\ u = Wanted(f)
    BY <2>1, Triple
  <2>3. m.type = "func" /\ m.val = f
    BY <2>2 DEF Message
  <2>4. QED
    BY <2>2, <2>3
<1>2. CASE <<w, m, u>> \in ArgSteps(p)
  <2>1. PICK x \in Wants : \E val \in Values(p, Head(x)) :
               <<w, m, u>> = <<x, Message(Head(x), val), Tail(x)>>
    BY <1>2 DEF ArgSteps
  <2>2. PICK val \in Values(p, Head(x)) : <<w, m, u>> = <<x, Message(Head(x), val), Tail(x)>>
    BY <2>1
  <2>3. w = x /\ m = Message(Head(x), val) /\ u = Tail(x)
    BY <2>2, Triple
  <2>4. m.type = Head(x) /\ m.val = val
    BY <2>3 DEF Message
  <2>5. QED
    BY <2>3, <2>4
<1>3. QED
  BY <1>1, <1>2 DEF RequestSteps

(* What a program still has to send is a message of a request, or events   *)
(* that the manager hands back.                                            *)
LEMMA OutStep ==
  ASSUME NEW p, NEW w, NEW x, NEW u, <<w, x, u>> \in OutSteps(p)
  PROVE  \/ x = Posting(ES_COMM_PORT, x.msg) /\ <<w, x.msg, u>> \in RequestSteps(p)
         \/ /\ p = Bearing /\ w = <<>> /\ u = <<>>
            /\ \E l \in Events : x = SortedPost(l)
<1>1. CASE <<w, x, u>> \in {<<t[1], Posting(ES_COMM_PORT, t[2]), t[3]>> : t \in RequestSteps(p)}
  <2>1. PICK t \in RequestSteps(p) : <<w, x, u>> = <<t[1], Posting(ES_COMM_PORT, t[2]), t[3]>>
    BY <1>1
  <2>2. w = t[1] /\ x = Posting(ES_COMM_PORT, t[2]) /\ u = t[3]
    BY <2>1, Triple
  <2>3. x.msg = t[2]
    BY <2>2 DEF Posting
  <2>4. t = <<t[1], t[2], t[3]>>
    <3>1. \E a, b, c : t = <<a, b, c>>
      BY DEF RequestSteps, FuncSteps, ArgSteps
    <3>2. QED
      BY <3>1
  <2>5. QED
    BY <2>2, <2>3, <2>4
<1>2. CASE \E l \in IF p = Bearing THEN Events ELSE {} :
             <<w, x, u>> = << <<>>, SortedPost(l), <<>> >>
  <2>1. p = Bearing
    BY <1>2
  <2>2. PICK l \in Events : <<w, x, u>> = << <<>>, SortedPost(l), <<>> >>
    BY <1>2, <2>1
  <2>3. w = <<>> /\ x = SortedPost(l) /\ u = <<>>
    BY <2>2, Triple
  <2>4. QED
    BY <2>1, <2>3
<1>3. QED
  BY <1>1, <1>2 DEF OutSteps

(* A message of a request may be sent.                                     *)
LEMMA OutRequestStep ==
  ASSUME NEW p, NEW w, NEW m, NEW u, <<w, m, u>> \in RequestSteps(p)
  PROVE  <<w, Posting(ES_COMM_PORT, m), u>> \in OutSteps(p)
<1> DEFINE t == <<w, m, u>>
<1>1. t[1] = w /\ t[2] = m /\ t[3] = u
  OBVIOUS
<1>2. QED
  BY <1>1 DEF OutSteps

(* The manager may hand back events between its requests.                  *)
LEMMA SortedOutStep ==
  ASSUME NEW l \in Events
  PROVE  << <<>>, SortedPost(l), <<>> >> \in OutSteps(Bearing)
BY DEF OutSteps

(* What may be wanted is a state, and so is what is wanted after it.       *)
LEMMA WantsAreStates ==
  /\ <<>> \in States
  /\ \A w \in Wants : w \in States /\ Tail(w) \in States /\ w # <<>>
BY DEF Wants, States

(* A program may ask for any of its functions.                             *)
LEMMA FuncStep ==
  ASSUME NEW p, NEW f \in Funcs(p)
  PROVE  << <<>>, Posting(ES_COMM_PORT, Message("func", f)), Wanted(f) >> \in OutSteps(p)
<1>1. << <<>>, Message("func", f), Wanted(f) >> \in RequestSteps(p)
  BY DEF RequestSteps, FuncSteps
<1>2. QED
  BY <1>1, OutRequestStep

(* A program may send any value of the argument that is wanted next.       *)
LEMMA ArgStep ==
  ASSUME NEW p, NEW w \in Wants, NEW val \in Values(p, Head(w))
  PROVE  <<w, Posting(ES_COMM_PORT, Message(Head(w), val)), Tail(w)>> \in OutSteps(p)
<1>1. <<w, Message(Head(w), val), Tail(w)>> \in RequestSteps(p)
  BY DEF RequestSteps, ArgSteps
<1>2. QED
  BY <1>1, OutRequestStep

(* What each function wants, spelled out.                                  *)
LEMMA WantsSpelled ==
  /\ Wanted("create") = <<"api">> /\ Wanted("remove") = <<"handle">>
  /\ Wanted("draw") = <<"place", "buffer">> /\ Wanted("update") = <<"expanse">>
  /\ Wanted("register_em") = <<>> /\ Wanted("set_front") = <<"expanse">>
  /\ Wanted("send_events") = <<>> /\ Wanted("decorate") = <<"expanse", "buffer">>
  /\ Head(<<"api">>) = "api" /\ Tail(<<"api">>) = <<>>
  /\ Head(<<"handle">>) = "handle" /\ Tail(<<"handle">>) = <<>>
  /\ Head(<<"place", "buffer">>) = "place" /\ Tail(<<"place", "buffer">>) = <<"buffer">>
  /\ Head(<<"buffer">>) = "buffer" /\ Tail(<<"buffer">>) = <<>>
  /\ Head(<<"expanse">>) = "expanse" /\ Tail(<<"expanse">>) = <<>>
  /\ Head(<<"expanse", "buffer">>) = "expanse" /\ Tail(<<"expanse", "buffer">>) = <<"buffer">>
BY DEF Wanted, R!Args

(* What the programs send are whole requests.                              *)
Whole(p, s) == Path(OutSteps(p), <<>>, s, <<>>)

(* To send nothing is to send whole requests.                              *)
LEMMA WholeNone == ASSUME NEW p PROVE Whole(p, <<>>)
BY PathNone, WantsAreStates DEF Whole

(* Whole requests after whole requests are whole requests.                 *)
LEMMA WholeCat ==
  ASSUME NEW p, NEW a, NEW b, Whole(p, a), Whole(p, b)
  PROVE  Whole(p, a \o b)
BY PathCat DEF Whole

(* A function with its one argument is a whole request.                    *)
LEMMA WholeOne ==
  ASSUME NEW p, NEW f \in Funcs(p), NEW type, Wanted(f) = <<type>>, <<type>> \in Wants,
         NEW val \in Values(p, type)
  PROVE  Whole(p, << Posting(ES_COMM_PORT, Message("func", f)),
                     Posting(ES_COMM_PORT, Message(type, val)) >>)
<1>1. Head(<<type>>) = type /\ Tail(<<type>>) = <<>>
  OBVIOUS
<1>2. << <<>>, Posting(ES_COMM_PORT, Message("func", f)), <<type>> >> \in OutSteps(p)
  BY FuncStep
<1>3. << <<type>>, Posting(ES_COMM_PORT, Message(type, val)), <<>> >> \in OutSteps(p)
  BY <1>1, ArgStep
<1>4. QED
  BY <1>2, <1>3, PathTwo, WantsAreStates DEF Whole

(* A function with its two arguments is a whole request.                   *)
LEMMA WholeTwo ==
  ASSUME NEW p, NEW f \in Funcs(p), NEW type, NEW type2, Wanted(f) = <<type, type2>>,
         <<type, type2>> \in Wants, <<type2>> \in Wants,
         NEW val \in Values(p, type), NEW val2 \in Values(p, type2)
  PROVE  Whole(p, << Posting(ES_COMM_PORT, Message("func", f)),
                     Posting(ES_COMM_PORT, Message(type, val)),
                     Posting(ES_COMM_PORT, Message(type2, val2)) >>)
<1>1. /\ Head(<<type, type2>>) = type /\ Tail(<<type, type2>>) = <<type2>>
      /\ Head(<<type2>>) = type2 /\ Tail(<<type2>>) = <<>>
  OBVIOUS
<1>2. << <<>>, Posting(ES_COMM_PORT, Message("func", f)), <<type, type2>> >> \in OutSteps(p)
  BY FuncStep
<1>3. << <<type, type2>>, Posting(ES_COMM_PORT, Message(type, val)), <<type2>> >> \in OutSteps(p)
  BY <1>1, ArgStep
<1>4. << <<type2>>, Posting(ES_COMM_PORT, Message(type2, val2)), <<>> >> \in OutSteps(p)
  BY <1>1, ArgStep
<1>5. QED
  BY <1>2, <1>3, <1>4, PathThree, WantsAreStates DEF Whole

(* What lib/shiny sends are whole requests.                                *)
LEMMA ClientRequests ==
  ASSUME NEW c \in Clients
  PROVE  /\ Whole(c, << S!call_func("create"), S!send_data("api", c) >>)
         /\ \A h \in Nat : Whole(c, S!draw_buffer(c, h))
         /\ \A h \in Nat : Whole(c, << S!call_func("remove"), S!send_data("handle", h) >>)
<1>1. /\ \A f : S!call_func(f) = Posting(ES_COMM_PORT, Message("func", f))
      /\ \A type, val : S!send_data(type, val) = Posting(ES_COMM_PORT, Message(type, val))
  BY DEF S!call_func, S!send_data, S!To, S!ES_COMM_PORT, S!Message, Posting, Message, ES_COMM_PORT
<1>2. /\ "create" \in Funcs(c) /\ "remove" \in Funcs(c) /\ "draw" \in Funcs(c)
      /\ c \in Values(c, "api") /\ c \in Values(c, "buffer")
      /\ Values(c, "place") = Nat /\ Values(c, "handle") = Nat
  BY WireAssumption DEF Funcs, ClientFuncs, Values
<1>3. /\ <<"api">> \in Wants /\ <<"handle">> \in Wants
      /\ <<"place", "buffer">> \in Wants /\ <<"buffer">> \in Wants
  BY DEF Wants
<1>4. Whole(c, << S!call_func("create"), S!send_data("api", c) >>)
  BY <1>1, <1>2, <1>3, WholeOne, WantsSpelled
<1>5. ASSUME NEW h \in Nat
      PROVE  Whole(c, S!draw_buffer(c, h))
  BY <1>1, <1>2, <1>3, WholeTwo, WantsSpelled DEF S!draw_buffer
<1>6. ASSUME NEW h \in Nat
      PROVE  Whole(c, << S!call_func("remove"), S!send_data("handle", h) >>)
  BY <1>1, <1>2, <1>3, WholeOne, WantsSpelled
<1>7. QED
  BY <1>4, <1>5, <1>6

(* What the manager sends are whole requests.                              *)
LEMMA BearingRequests ==
  /\ \A e \in Exp : Whole(Bearing, B!update(e)) /\ Whole(Bearing, B!set_front(e))
  /\ \A e \in Exp : \A colour \in Colours : Whole(Bearing, B!setup_borders(e, colour))
  /\ \A l \in Events :
       Whole(Bearing, << B!Func("send_events"), B!To(Rusk, B!EVENT_COMM_PORT, "events", l) >>)
<1>1. /\ \A f : B!Func(f) = Posting(ES_COMM_PORT, Message("func", f))
      /\ \A type, val : B!To(Rusk, B!ES_COMM_PORT, type, val) = Posting(ES_COMM_PORT, Message(type, val))
      /\ \A l : B!To(Rusk, B!EVENT_COMM_PORT, "events", l) = SortedPost(l)
  BY DEF B!Func, B!To, B!ES_COMM_PORT, B!EVENT_COMM_PORT, B!Message, Posting, SortedPost, Message,
         ES_COMM_PORT, EVENT_COMM_PORT
<1>2. /\ Funcs(Bearing) = BearingFuncs /\ Values(Bearing, "expanse") = Exp
      /\ Values(Bearing, "buffer") = Colours
  BY DEF Funcs, Values
<1>3. <<"expanse">> \in Wants /\ <<"expanse", "buffer">> \in Wants /\ <<"buffer">> \in Wants
  BY DEF Wants
<1>4. /\ "update" \in BearingFuncs /\ "set_front" \in BearingFuncs
      /\ "decorate" \in BearingFuncs /\ "send_events" \in BearingFuncs
  BY DEF BearingFuncs
<1>6. ASSUME NEW e \in Exp
      PROVE  Whole(Bearing, B!update(e)) /\ Whole(Bearing, B!set_front(e))
  BY <1>1, <1>2, <1>3, <1>4, WholeOne, WantsSpelled DEF B!update, B!set_front
<1>7. ASSUME NEW e \in Exp, NEW colour \in Colours
      PROVE  Whole(Bearing, B!setup_borders(e, colour))
  BY <1>1, <1>2, <1>3, <1>4, WholeTwo, WantsSpelled DEF B!setup_borders
<1>8. ASSUME NEW l \in Events
      PROVE  Whole(Bearing, << B!Func("send_events"), B!To(Rusk, B!EVENT_COMM_PORT, "events", l) >>)
  <2>1. << <<>>, Posting(ES_COMM_PORT, Message("func", "send_events")), <<>> >> \in OutSteps(Bearing)
    BY <1>2, <1>4, FuncStep, WantsSpelled
  <2>2. << <<>>, SortedPost(l), <<>> >> \in OutSteps(Bearing)
    BY SortedOutStep
  <2>3. QED
    BY <1>1, <2>1, <2>2, PathTwo, WantsAreStates DEF Whole
<1>9. QED
  BY <1>6, <1>7, <1>8

(***************************************************************************)
(* What rusk is asked, from the channel on through what is still to send.  *)
(***************************************************************************)

(* Asks: rusk wants w, finds s in the channel, and o is still to be sent.  *)
Asks(p, w, s, o) ==
  \E u \in States : Path(RequestSteps(p), w, s, u) /\ Path(OutSteps(p), u, o, <<>>)

(* A send moves the next message into the channel.                         *)
LEMMA AskSend ==
  ASSUME NEW p, NEW w, NEW s, NEW o, Asks(p, w, s, o), o # <<>>
  PROVE  \/ /\ Head(o) = Posting(ES_COMM_PORT, Head(o).msg)
            /\ Asks(p, w, Append(s, Head(o).msg), Tail(o))
         \/ /\ p = Bearing /\ \E l \in Events : Head(o) = SortedPost(l)
            /\ Asks(p, w, s, Tail(o))
<1>1. PICK u \in States : Path(RequestSteps(p), w, s, u) /\ Path(OutSteps(p), u, o, <<>>)
  BY DEF Asks
<1>2. PICK v \in States : <<u, Head(o), v>> \in OutSteps(p) /\ Path(OutSteps(p), v, Tail(o), <<>>)
  BY <1>1, PathHead
<1>0. \/ Head(o) = Posting(ES_COMM_PORT, Head(o).msg) /\ <<u, Head(o).msg, v>> \in RequestSteps(p)
      \/ p = Bearing /\ u = <<>> /\ v = <<>> /\ \E l \in Events : Head(o) = SortedPost(l)
  BY <1>2, OutStep
<1>3. CASE Head(o) = Posting(ES_COMM_PORT, Head(o).msg) /\ <<u, Head(o).msg, v>> \in RequestSteps(p)
  <2>1. PICK L : L = Labels(RequestSteps(p))
    OBVIOUS
  <2>2. Path(RequestSteps(p), u, <<Head(o).msg>>, v)
    BY <1>3, PathOne
  <2>3. Path(RequestSteps(p), w, s \o <<Head(o).msg>>, v)
    BY <1>1, <2>2, PathCat
  <2>4. PICK t \in Seq(L) : t = s
    BY <1>1, <2>1 DEF Path
  <2>5. PICK m \in L : m = Head(o).msg
    BY <1>3, <2>1, Labelled
  <2>6. Append(t, m) = t \o <<m>>
    BY <2>4, <2>5, AppendIsConcat
  <2>7. Append(s, Head(o).msg) = s \o <<Head(o).msg>>
    BY <2>4, <2>5, <2>6
  <2>8. QED
    BY <1>2, <1>3, <2>3, <2>7 DEF Asks
<1>4. CASE p = Bearing /\ u = <<>> /\ v = <<>> /\ \E l \in Events : Head(o) = SortedPost(l)
  BY <1>1, <1>2, <1>4 DEF Asks
<1>5. QED
  BY <1>0, <1>3, <1>4

(* Rusk takes the next message.                                            *)
LEMMA AskPop ==
  ASSUME NEW p, NEW w, NEW s, NEW o, Asks(p, w, s, o), s # <<>>
  PROVE  \E u \in States : <<w, Head(s), u>> \in RequestSteps(p) /\ Asks(p, u, Tail(s), o)
<1>1. PICK v \in States : Path(RequestSteps(p), w, s, v) /\ Path(OutSteps(p), v, o, <<>>)
  BY DEF Asks
<1>2. PICK u \in States : <<w, Head(s), u>> \in RequestSteps(p) /\ Path(RequestSteps(p), u, Tail(s), v)
  BY <1>1, PathHead
<1>3. QED
  BY <1>1, <1>2 DEF Asks

(* A program that has sent everything begins a whole request.              *)
LEMMA AskNew ==
  ASSUME NEW p, NEW w, NEW s, NEW o, Asks(p, w, s, <<>>), Whole(p, o)
  PROVE  Asks(p, w, s, o)
<1>1. PICK u \in States : Path(RequestSteps(p), w, s, u) /\ Path(OutSteps(p), u, <<>>, <<>>)
  BY DEF Asks
<1>2. u = <<>>
  BY <1>1, PathNoneOnly
<1>3. QED
  BY <1>1, <1>2 DEF Asks, Whole

(* What is asked are messages of requests.                                 *)
LEMMA AskSeq ==
  ASSUME NEW p, NEW w, NEW s, NEW o, Asks(p, w, s, o)
  PROVE  s \in Seq(Labels(RequestSteps(p))) /\ o \in Seq(Labels(OutSteps(p))) /\ w \in States
BY PathEnds DEF Asks

(* Nothing is asked in the beginning.                                      *)
LEMMA AskNothing ==
  ASSUME NEW p
  PROVE  Asks(p, <<>>, <<>>, <<>>)
BY PathNone, WantsAreStates DEF Asks

(***************************************************************************)
(* handle_events of the manager sends whole requests, and hands back       *)
(* events.                                                                 *)
(***************************************************************************)

Todos     == {t \in Seq(Labels(OutSteps(Bearing))) : Whole(Bearing, t)}
Handlings == [new : Events, todo : Todos, mouse_down : BOOLEAN, resize : BOOLEAN, chosen : Exp]

(* What handle_events may send are the whole requests.                     *)
LEMMA WholeTodo ==
  ASSUME NEW t
  PROVE  t \in Todos <=> Whole(Bearing, t)
BY PathEnds DEF Todos, Whole

(* More of it may be sent after it.                                        *)
LEMMA TodoCat ==
  ASSUME NEW a \in Todos, NEW b \in Todos
  PROVE  a \o b \in Todos
BY WholeTodo, WholeCat

(* The manager's requests are among it.                                    *)
LEMMA BearingTodos ==
  /\ \A e \in Exp : B!update(e) \in Todos /\ B!set_front(e) \in Todos
  /\ \A e \in Exp : \A colour \in Colours : B!setup_borders(e, colour) \in Todos
  /\ <<>> \in Todos
BY WholeTodo, BearingRequests, WholeNone

(* Looking at one event adds whole requests, and keeps its events, flags   *)
(* and chosen expanse what they are.                                       *)
LEMMA HandledRight ==
  ASSUME NEW s \in Handlings, NEW ev \in [id : Nat, kind : Kinds],
         NEW list \in Seq(Exp), NEW hit \in B!Hits(list)
  PROVE  B!Handled(s, ev, list, hit) \in Handlings
<1>1. /\ s.new \in Events /\ s.todo \in Todos /\ s.mouse_down \in BOOLEAN
      /\ s.resize \in BOOLEAN /\ s.chosen \in Exp
  BY DEF Handlings
<1>0. "blue" \in Colours /\ "grey" \in Colours
  BY DEF Colours
<1>2. CASE ev.kind = "hide"
  <2>1. s.todo \o B!update(s.chosen) \in Todos
    BY <1>1, BearingTodos, TodoCat
  <2>2. B!Handled(s, ev, list, hit) = [s EXCEPT !.todo = @ \o B!update(s.chosen)]
    BY <1>2 DEF B!Handled
  <2>3. QED
    BY <1>1, <2>1, <2>2 DEF Handlings
<1>3. CASE ev.kind # "hide" /\ ev.kind = "down" /\ hit.at # 0
  <2>1. hit.at \in DOMAIN list /\ hit.corner \in BOOLEAN
    BY <1>3 DEF B!Hits, B!Miss
  <2>2. PICK e \in Exp : e = list[hit.at]
    BY <2>1
  <2>3. B!Handled(s, ev, list, hit) = B!Choose(s, e, hit.corner)
    BY <1>3, <2>2 DEF B!Handled
  <2>4. B!Selected(s, e) \in Todos
    <3>1. B!setup_borders(s.chosen, "grey") \o B!set_front(e) \in Todos
      BY <1>0, <1>1, BearingTodos, TodoCat
    <3>2. QED
      BY <1>0, <3>1, BearingTodos, TodoCat DEF B!Selected
  <2>5. PICK t \in Todos : t = IF hit.corner /\ e.handle = s.chosen.handle THEN <<>> ELSE B!Selected(s, e)
    BY <2>4, BearingTodos
  <2>6. s.todo \o t \in Todos
    BY <1>1, TodoCat
  <2>7. PICK x \in Exp : x = IF hit.corner /\ e.handle = s.chosen.handle THEN s.chosen ELSE e
    BY <1>1
  <2>8. B!Choose(s, e, hit.corner) =
          [s EXCEPT !.mouse_down = TRUE, !.resize = hit.corner, !.chosen = x, !.todo = s.todo \o t]
    BY <2>5, <2>7 DEF B!Choose
  <2>9. QED
    BY <1>1, <2>1, <2>3, <2>6, <2>8 DEF Handlings
<1>4. CASE ev.kind # "hide" /\ ~(ev.kind = "down" /\ hit.at # 0) /\ ev.kind = "up" /\ s.mouse_down
  <2>1. B!Handled(s, ev, list, hit) = B!Release(s)
    BY <1>4 DEF B!Handled
  <2>2. PICK x \in Exp : x = B!Moved(s.chosen)
    <3>1. B!Moved(s.chosen) \in Exp
      <4>1. PICK c \in Exp : c = s.chosen
        BY <1>1
      <4>2. PICK n \in Nat : n = c.place + 1
        BY DEF Exp
      <4>3. [c EXCEPT !.place = n] \in Exp
        BY DEF Exp
      <4>4. QED
        BY <4>1, <4>2, <4>3 DEF B!Moved
    <3>2. QED
      BY <3>1
  <2>3. PICK t \in Todos : t = IF s.resize THEN B!setup_borders(s.chosen, "blue") ELSE <<>>
    BY <1>0, <1>1, BearingTodos
  <2>4. s.todo \o B!update(x) \in Todos
    BY <1>1, BearingTodos, TodoCat
  <2>5. PICK r \in Todos : r = (s.todo \o B!update(x)) \o t
    BY <2>4, TodoCat
  <2>6. B!Release(s) = [s EXCEPT !.mouse_down = FALSE, !.chosen = x, !.todo = r]
    BY <2>2, <2>3, <2>5 DEF B!Release
  <2>7. QED
    BY <1>1, <2>1, <2>6 DEF Handlings
<1>5. CASE /\ ev.kind # "hide" /\ ~(ev.kind = "down" /\ hit.at # 0)
           /\ ~(ev.kind = "up" /\ s.mouse_down)
  <2>1. B!Handled(s, ev, list, hit) = B!Pass(s, ev)
    BY <1>5 DEF B!Handled
  <2>2. Append(s.new, ev) \in Events
    BY <1>1 DEF Events
  <2>3. QED
    BY <1>1, <2>1, <2>2 DEF B!Pass, Handlings
<1>6. QED
  BY <1>2, <1>3, <1>4, <1>5

(* So does looking at all of them, one after the other.                    *)
Looked(h, events, list, hits, n) ==
  /\ h[0] = B!Before /\ B!After(events, list, hits) = h[n]
  /\ \A i \in 1 .. n : h[i] = B!Handled(h[i - 1], events[i], list, hits[i])
  /\ \A i \in 0 .. n : h[i] \in Handlings

LEMMA AfterLooked ==
  ASSUME NEW events \in Events, NEW list \in Seq(Exp),
         NEW hits \in [DOMAIN events -> B!Hits(list)],
         mouse_down \in BOOLEAN, resize \in BOOLEAN, chosen \in Exp
  PROVE  \E h : Looked(h, events, list, hits, Len(events))
<1>1. PICK n \in Nat : n = Len(events)
  BY DEF Events
<1>2. DOMAIN events = 1 .. n /\ \A i \in 1 .. n : events[i] \in [id : Nat, kind : Kinds]
  <2>1. PICK Ev : Ev = [id : Nat, kind : Kinds]
    OBVIOUS
  <2>2. events \in Seq(Ev)
    BY <2>1 DEF Events
  <2>3. DOMAIN events = 1 .. n /\ \A i \in 1 .. n : events[i] \in Ev
    BY <1>1, <2>2
  <2>4. QED
    BY <2>1, <2>3
<1>3. PICK a \in Handlings : a = B!Before
  <2>1. <<>> \in Events
    BY DEF Events
  <2>2. B!Before \in Handlings
    BY <2>1, BearingTodos DEF B!Before, Handlings
  <2>3. QED
    BY <2>2
<1> DEFINE step == [x \in Handlings \X (1 .. n) |-> B!Handled(x[1], events[x[2]], list, hits[x[2]])]
<1>4. step \in [Handlings \X (1 .. n) -> Handlings]
  <2>1. ASSUME NEW x \in Handlings \X (1 .. n)
        PROVE  B!Handled(x[1], events[x[2]], list, hits[x[2]]) \in Handlings
    <3>1. x[1] \in Handlings /\ x[2] \in 1 .. n
      OBVIOUS
    <3>2. events[x[2]] \in [id : Nat, kind : Kinds] /\ hits[x[2]] \in B!Hits(list)
      BY <1>2, <3>1
    <3>3. QED
      BY <3>1, <3>2, HandledRight
  <2>2. QED
    BY <2>1
<1>5. \A s \in Handlings : \A i \in 1 .. n : step[<<s, i>>] = B!Handled(s, events[i], list, hits[i])
  <2>1. ASSUME NEW s \in Handlings, NEW i \in 1 .. n
        PROVE  step[<<s, i>>] = B!Handled(s, events[i], list, hits[i])
    OBVIOUS
  <2>2. QED
    BY <2>1
<1> HIDE DEF step
<1>6. PICK g \in [0 .. n -> Handlings] : Iterates(g, a, step, n)
  BY <1>4, Iterated
<1> DEFINE Next1(f, i) == IF i = 0 THEN a ELSE B!Handled(f[i - 1], events[i], list, hits[i])
<1>7. \A i \in 0 .. n : g[i] = Next1(g, i)
  <2>1. ASSUME NEW i \in 0 .. n
        PROVE  g[i] = Next1(g, i)
    <3>1. CASE i = 0
      BY <1>6, <3>1 DEF Iterates
    <3>2. CASE i # 0
      <4>1. i \in 1 .. n /\ i - 1 \in 0 .. n
        BY <3>2
      <4>2. g[i] = step[<<g[i - 1], i>>]
        BY <1>6, <4>1 DEF Iterates
      <4>3. g[i - 1] \in Handlings
        BY <4>1
      <4>4. QED
        BY <1>5, <3>2, <4>1, <4>2, <4>3
    <3>3. QED
      BY <3>1, <3>2
  <2>2. QED
    BY <2>1
<1>8. g = [i \in 0 .. n |-> Next1(g, i)]
  BY <1>7
<1> DEFINE h == CHOOSE f : f = [i \in 0 .. n |-> Next1(f, i)]
<1>9. h = [i \in 0 .. n |-> Next1(h, i)]
  BY <1>8
<1>10. B!After(events, list, hits) = h[n]
  BY <1>1, <1>3 DEF B!After
<1> HIDE DEF h
<1>11. \A i \in 0 .. n : h[i] = Next1(h, i)
  BY <1>9
<1> DEFINE G == {m \in 0 .. n : h[m] \in Handlings}
<1>12. 0 \in G
  <2>1. h[0] = a
    BY <1>11
  <2>2. QED
    BY <2>1
<1>13. ASSUME NEW m \in 1 .. n, m - 1 \in G
       PROVE  m \in G
  <2>1. m \in 0 .. n /\ m # 0 /\ m - 1 \in 0 .. n
    OBVIOUS
  <2>2. h[m] = B!Handled(h[m - 1], events[m], list, hits[m])
    BY <1>11, <2>1
  <2>3. events[m] \in [id : Nat, kind : Kinds] /\ hits[m] \in B!Hits(list)
    BY <1>2
  <2>4. h[m - 1] \in Handlings
    BY <1>13
  <2>5. h[m] \in Handlings
    BY <2>2, <2>3, <2>4, HandledRight
  <2>6. QED
    BY <2>1, <2>5
<1>14. \A m \in 0 .. n : m \in G
  <2> HIDE DEF G
  <2>1. QED
    BY <1>12, <1>13, Upwards
<1>15. \A i \in 0 .. n : h[i] \in Handlings
  BY <1>14
<1>16. h[0] = B!Before
  BY <1>3, <1>11
<1>17. \A i \in 1 .. n : h[i] = B!Handled(h[i - 1], events[i], list, hits[i])
  BY <1>11
<1>18. Looked(h, events, list, hits, n)
  BY <1>10, <1>15, <1>16, <1>17 DEF Looked
<1>19. QED
  BY <1>1, <1>18

(* What is left at the end.                                                *)
LEMMA AfterRight ==
  ASSUME NEW events \in Events, NEW list \in Seq(Exp),
         NEW hits \in [DOMAIN events -> B!Hits(list)],
         mouse_down \in BOOLEAN, resize \in BOOLEAN, chosen \in Exp
  PROVE  B!After(events, list, hits) \in Handlings
<1>1. PICK h : Looked(h, events, list, hits, Len(events))
  BY AfterLooked
<1>2. PICK n \in Nat : n = Len(events)
  BY DEF Events
<1>3. n \in 0 .. n
  OBVIOUS
<1>4. QED
  BY <1>1, <1>2, <1>3 DEF Looked

(***************************************************************************)
(* The channels.                                                           *)
(***************************************************************************)

AskCh(p)   == <<p, Rusk, ES_COMM_PORT>>
OrderCh    == <<Rusk, Bearing, ES_COMM_PORT>>
ListCh     == <<Rusk, Bearing, EVENT_COMM_PORT>>
ReplyCh(c) == <<Rusk, c, ES_COMM_PORT>>
GiftCh(c)  == <<Rusk, c, EVENT_COMM_PORT>>
SortedCh   == <<Bearing, Rusk, EVENT_COMM_PORT>>
SelfCh     == <<Rusk, Rusk, ES_COMM_PORT>>

(* A channel is given by its ends and its port.                            *)
LEMMA SameChannel ==
  ASSUME NEW p, NEW q, NEW r, NEW s, NEW port, NEW port2
  PROVE  <<p, q, port>> = <<r, s, port2>> <=> p = r /\ q = s /\ port = port2
OBVIOUS

(* The names stand for channels of the programs.                           *)
LEMMA ChannelsApart ==
  /\ \A p \in Askers : p \in Programs /\ p # Rusk
  /\ \A c \in Clients : c \in Askers /\ c # Bearing
  /\ Bearing \in Askers
  /\ \A p \in Askers : AskCh(p) \in Channels
  /\ \A c \in Clients : ReplyCh(c) \in Channels /\ GiftCh(c) \in Channels
  /\ OrderCh \in Channels /\ ListCh \in Channels /\ SortedCh \in Channels /\ SelfCh \in Channels
<1>1. ES_COMM_PORT \in {ES_COMM_PORT, EVENT_COMM_PORT} /\ EVENT_COMM_PORT \in {ES_COMM_PORT, EVENT_COMM_PORT}
  OBVIOUS
<1>2. \A p \in Programs, q \in Programs : \A port \in {ES_COMM_PORT, EVENT_COMM_PORT} : <<p, q, port>> \in Channels
  BY DEF Channels
<1>3. Rusk \in Programs /\ Bearing \in Programs /\ Bearing \in Askers
  BY DEF Programs, Askers
<1>4. \A p \in Askers : p \in Programs /\ p # Rusk
  BY WireAssumption DEF Programs, Askers
<1>5. \A c \in Clients : c \in Askers /\ c # Bearing /\ c \in Programs
  BY WireAssumption DEF Programs, Askers
<1>6. \A p \in Askers : AskCh(p) \in Channels
  BY <1>1, <1>2, <1>3, <1>4 DEF AskCh
<1>7. \A c \in Clients : ReplyCh(c) \in Channels /\ GiftCh(c) \in Channels
  BY <1>1, <1>2, <1>3, <1>5 DEF ReplyCh, GiftCh
<1>8. OrderCh \in Channels /\ ListCh \in Channels /\ SortedCh \in Channels /\ SelfCh \in Channels
  BY <1>1, <1>2, <1>3 DEF OrderCh, ListCh, SortedCh, SelfCh
<1>9. QED
  BY <1>3, <1>4, <1>5, <1>6, <1>7, <1>8

(* No two of them are the same channel.                                    *)
LEMMA AskApart ==
  ASSUME NEW p \in Askers
  PROVE  /\ \A q : AskCh(p) = AskCh(q) => p = q
         /\ AskCh(p) # OrderCh /\ AskCh(p) # ListCh /\ AskCh(p) # SortedCh /\ AskCh(p) # SelfCh
         /\ \A c \in Clients : AskCh(p) # ReplyCh(c) /\ AskCh(p) # GiftCh(c)
<1>1. p # Rusk /\ ES_COMM_PORT # EVENT_COMM_PORT /\ Rusk # Bearing /\ Rusk \notin Clients
  BY ChannelsApart, WireAssumption DEF ES_COMM_PORT, EVENT_COMM_PORT
<1>2. QED
  BY <1>1, SameChannel DEF AskCh, OrderCh, ListCh, SortedCh, SelfCh, ReplyCh, GiftCh

(* The same for those that lead from rusk.                                 *)
LEMMA OthersApart ==
  /\ OrderCh # ListCh /\ OrderCh # SortedCh /\ OrderCh # SelfCh
  /\ ListCh # SortedCh /\ ListCh # SelfCh /\ SortedCh # SelfCh
  /\ \A c \in Clients : /\ ReplyCh(c) # OrderCh /\ ReplyCh(c) # ListCh /\ ReplyCh(c) # SortedCh
                        /\ ReplyCh(c) # SelfCh
                        /\ GiftCh(c) # OrderCh /\ GiftCh(c) # ListCh /\ GiftCh(c) # SortedCh
                        /\ GiftCh(c) # SelfCh
                        /\ \A d : ReplyCh(c) # GiftCh(d) /\ (ReplyCh(c) = ReplyCh(d) => c = d)
                                  /\ (GiftCh(c) = GiftCh(d) => c = d)
<1>1. ES_COMM_PORT # EVENT_COMM_PORT /\ Rusk # Bearing /\ Rusk \notin Clients /\ Bearing \notin Clients
  BY WireAssumption DEF ES_COMM_PORT, EVENT_COMM_PORT
<1>2. QED
  BY <1>1, SameChannel DEF OrderCh, ListCh, SortedCh, SelfCh, ReplyCh, GiftCh

(***************************************************************************)
(* The invariant.                                                          *)
(***************************************************************************)

Window == [exp : Exp, pid : Clients, drawn : Clients \cup {None}, top : Colours \cup {None}]
Duties == {"start", "register", "serve", "init_expanse", "handle_events"}
Phases == {"create", "handle", "main"}

Typed ==
  /\ DOMAIN wire = Channels /\ DOMAIN out = Programs
  /\ wire[SelfCh] = <<>>
  /\ expanses \in Seq(Window) /\ em \in {None, Bearing}
  /\ count \in Nat /\ typed \in Nat
  /\ duty \in Duties /\ mouse_down \in BOOLEAN /\ resize \in BOOLEAN /\ chosen \in Exp
  /\ phase \in [Clients -> Phases] /\ exp_list \in [Clients -> Seq(Nat)]

(* How far rusk is with a request.                                         *)
Progress(f, p, want, got) ==
  LET args == R!Args[f] IN
  \/ want = args /\ got = <<>>
  \/ args # <<>> /\ \E v \in Values(p, Head(args)) : want = Tail(args) /\ got = <<v>>
  \/ /\ Len(args) = 2 /\ want = <<>>
     /\ \E v \in Values(p, Head(args)) : \E v2 \in Values(p, Head(Tail(args))) : got = <<v, v2>>

Registration == [func |-> "register_em", id |-> Bearing, want |-> <<>>, got |-> <<>>]

RequestRight ==
  \/ req = R!Idle
  \/ em = None /\ req = Registration
  \/ /\ req = [func |-> req.func, id |-> req.id, want |-> req.want, got |-> req.got]
     /\ req.id \in Askers /\ req.func \in Funcs(req.id)
     /\ Progress(req.func, req.id, req.want, req.got)

(* What rusk still wants of p before it is ready for a next request.       *)
Left(p) == IF req.id = p /\ req.want # <<"events">> THEN req.want ELSE <<>>

Asking ==
  \A p \in Askers :
    (p = Bearing /\ em = None) \/ Asks(p, Left(p), wire[AskCh(p)], out[p])

(* Until it is registered, the manager asks for nothing else, once.        *)
RegisterFunc == Message("func", "register_em")
Registering ==
  em = None =>
    /\ duty \in {"start", "register"}
    /\ \/ /\ duty = "start" /\ out[Bearing] = <<>> /\ wire[AskCh(Bearing)] = <<>> /\ req.id # Bearing
       \/ /\ duty = "register" /\ out[Bearing] = << Posting(ES_COMM_PORT, RegisterFunc) >>
          /\ wire[AskCh(Bearing)] = <<>> /\ req.id # Bearing
       \/ /\ duty = "register" /\ out[Bearing] = <<>>
          /\ wire[AskCh(Bearing)] = << RegisterFunc >> /\ req.id # Bearing
       \/ /\ duty = "register" /\ out[Bearing] = <<>> /\ wire[AskCh(Bearing)] = <<>>
          /\ req = Registration
Started == duty = "start" => em = None

Turn ==
  CASE duty \in {"start", "register"} -> "register"
    [] duty = "init_expanse" -> "init_expanse"
    [] OTHER -> "serve"
Ordering == Path(OrderSteps, Turn, wire[OrderCh], IF em = None THEN "register" ELSE "serve")
Listing  == Path(ListSteps, "list", wire[ListCh], "list")
Replying == \A c \in Clients : Path(HandleSteps, "handle", wire[ReplyCh(c)], "handle")
Giving   == \A c \in Clients : Path(GivenSteps, "handle", wire[GiftCh(c)], "handle")
Sorting  == Path(SortedSteps, "events", wire[SortedCh], "events")

Answering == Ordering /\ Listing /\ Replying /\ Giving /\ Sorting

StepInv ==
  Typed /\ RequestRight /\ Asking /\ Registering /\ Started /\ Answering

(* What the invariant does not speak of may change.                        *)
LEMMA Frame ==
  ASSUME StepInv,
         UNCHANGED <<wire, out, expanses, em, count, req, typed, duty, mouse_down, resize, chosen,
                     phase, exp_list>>
  PROVE  StepInv'
BY DEF StepInv, Typed, RequestRight, Asking, Registering, Started, Answering, Ordering, Listing,
       Replying, Giving, Sorting, Left, Turn, Progress

(* What the rest of the invariant needs to stay as it is.                  *)
LEMMA Unasked ==
  ASSUME Asking, UNCHANGED em, \A p \in Askers : Left(p)' = Left(p) /\ out'[p] = out[p],
         \A p \in Askers : wire'[AskCh(p)] = wire[AskCh(p)]
  PROVE  Asking'
BY DEF Asking

(* What the answers need to stay as they are.                              *)
LEMMA Unanswered ==
  ASSUME Answering, UNCHANGED <<em, Turn>>,
         wire'[OrderCh] = wire[OrderCh], wire'[ListCh] = wire[ListCh],
         wire'[SortedCh] = wire[SortedCh],
         \A c \in Clients : wire'[ReplyCh(c)] = wire[ReplyCh(c)] /\ wire'[GiftCh(c)] = wire[GiftCh(c)]
  PROVE  Answering'
BY DEF Answering, Ordering, Listing, Replying, Giving, Sorting

(* The arguments of each function, spelled out.                            *)
LEMMA ArgsSpelled ==
  /\ R!Args["create"] = <<"api">> /\ R!Args["remove"] = <<"handle">>
  /\ R!Args["draw"] = <<"place", "buffer">> /\ R!Args["update"] = <<"expanse">>
  /\ R!Args["register_em"] = <<>> /\ R!Args["set_front"] = <<"expanse">>
  /\ R!Args["send_events"] = <<"events">> /\ R!Args["decorate"] = <<"expanse", "buffer">>
BY DEF R!Args

(* The first and the rest of short sequences.                              *)
LEMMA HeadsSpelled ==
  /\ \A a : Head(<<a>>) = a /\ Tail(<<a>>) = <<>> /\ Len(<<a>>) = 1 /\ <<a>> # <<>>
  /\ \A a, b : Head(<<a, b>>) = a /\ Tail(<<a, b>>) = <<b>> /\ Len(<<a, b>>) = 2 /\ <<a, b>> # <<>>
OBVIOUS

(* The values of each argument, spelled out.                               *)
LEMMA ValuesSpelled ==
  ASSUME NEW p
  PROVE  /\ Values(p, "api") = {p} /\ Values(p, "handle") = Nat /\ Values(p, "place") = Nat
         /\ Values(p, "buffer") = IF p = Bearing THEN Colours ELSE {p}
         /\ Values(p, "expanse") = Exp /\ Values(p, "events") = Events
BY DEF Values

(* What a function has got when it has got all it wants.                   *)
LEMMA GotOne ==
  ASSUME NEW f, NEW p, NEW got, NEW a, Progress(f, p, <<>>, got), R!Args[f] = <<a>>
  PROVE  got[1] \in Values(p, a)
<1>1. \E v \in Values(p, Head(<<a>>)) : got = <<v>>
  BY HeadsSpelled DEF Progress
<1>2. QED
  BY <1>1, HeadsSpelled

(* The same with two arguments.                                            *)
LEMMA GotTwo ==
  ASSUME NEW f, NEW p, NEW got, NEW a, NEW b, Progress(f, p, <<>>, got), R!Args[f] = <<a, b>>
  PROVE  got[1] \in Values(p, a) /\ got[2] \in Values(p, b)
<1>0. /\ Head(<<a, b>>) = a /\ Tail(<<a, b>>) = <<b>> /\ Head(<<b>>) = b
      /\ <<b>> # <<>> /\ <<a, b>> # <<>>
  BY HeadsSpelled
<1>1. \E v \in Values(p, a) : \E v2 \in Values(p, b) : got = <<v, v2>>
  BY <1>0 DEF Progress
<1>2. QED
  BY <1>1

(* A request that is neither none nor the registration is somebody's, for  *)
(* one of his functions.                                                   *)
LEMMA Asker ==
  ASSUME RequestRight, req.func # "none", req.func # "register_em"
  PROVE  /\ req.id \in Askers /\ req.func \in Funcs(req.id)
         /\ Progress(req.func, req.id, req.want, req.got)
         /\ req = [func |-> req.func, id |-> req.id, want |-> req.want, got |-> req.got]
BY DEF RequestRight, R!Idle, Registration

(* Only programs with windows ask for a client's function.                 *)
LEMMA OfClient ==
  ASSUME RequestRight, req.func \in ClientFuncs
  PROVE  req.id \in Clients /\ req.id # Bearing
<1>1. req.func # "none" /\ req.func # "register_em" /\ req.func \notin BearingFuncs
  BY DEF ClientFuncs, BearingFuncs
<1>2. req.id \in Askers /\ req.func \in Funcs(req.id)
  BY <1>1, Asker
<1>3. QED
  BY <1>1, <1>2 DEF Funcs, Askers

(* Only the manager asks for a manager's function.                         *)
LEMMA OfBearing ==
  ASSUME RequestRight, req.func \in BearingFuncs
  PROVE  req.id = Bearing
<1>1. req.func # "none" /\ req.func # "register_em" /\ req.func \notin ClientFuncs
  BY DEF ClientFuncs, BearingFuncs
<1>2. req.id \in Askers /\ req.func \in Funcs(req.id)
  BY <1>1, Asker
<1>3. QED
  BY <1>1, <1>2 DEF Funcs, Askers

(* The arguments with which a function is performed are of the right kind. *)
LEMMA Arguments ==
  ASSUME RequestRight, req.want = <<>>
  PROVE  /\ req.func = "create" => req.id \in Clients
         /\ req.func = "draw" => req.id \in Clients /\ req.got[1] \in Nat /\ req.got[2] = req.id
         /\ req.func \in {"update", "set_front"} => req.got[1] \in Exp
         /\ req.func = "decorate" => req.got[1] \in Exp /\ req.got[2] \in Colours
         /\ req.func = "send_events" => req.got[1] \in Events
         /\ req.func = "register_em" => em = None /\ req = Registration
<1>1. req.func = "create" => req.id \in Clients
  BY OfClient DEF ClientFuncs
<1>2. ASSUME req.func = "draw"
      PROVE  req.id \in Clients /\ req.got[1] \in Nat /\ req.got[2] = req.id
  <2>1. req.id \in Clients /\ req.id # Bearing
    BY <1>2, OfClient DEF ClientFuncs
  <2>2. Progress("draw", req.id, <<>>, req.got)
    BY <1>2, Asker
  <2>3. req.got[1] \in Values(req.id, "place") /\ req.got[2] \in Values(req.id, "buffer")
    BY <2>2, GotTwo, ArgsSpelled
  <2>4. QED
    BY <2>1, <2>3 DEF Values
<1>3. ASSUME req.func \in {"update", "set_front"}
      PROVE  req.got[1] \in Exp
  <2>1. Progress(req.func, req.id, <<>>, req.got) /\ R!Args[req.func] = <<"expanse">>
    BY <1>3, Asker, ArgsSpelled
  <2>2. QED
    BY <2>1, GotOne, ValuesSpelled
<1>4. ASSUME req.func = "decorate"
      PROVE  req.got[1] \in Exp /\ req.got[2] \in Colours
  <2>1. req.id = Bearing
    BY <1>4, OfBearing DEF BearingFuncs
  <2>2. Progress("decorate", req.id, <<>>, req.got)
    BY <1>4, Asker
  <2>3. req.got[1] \in Values(req.id, "expanse") /\ req.got[2] \in Values(req.id, "buffer")
    BY <2>2, GotTwo, ArgsSpelled
  <2>4. QED
    BY <2>1, <2>3, ValuesSpelled
<1>5. ASSUME req.func = "send_events"
      PROVE  req.got[1] \in Events
  <2>1. Progress("send_events", req.id, <<>>, req.got)
    BY <1>5, Asker
  <2>2. QED
    BY <2>1, GotOne, ValuesSpelled, ArgsSpelled
<1>6. req.func = "register_em" => em = None /\ req = Registration
  <2>1. \A p : "register_em" \notin Funcs(p)
    BY DEF Funcs, ClientFuncs, BearingFuncs
  <2>2. R!Idle.func = "none"
    BY DEF R!Idle
  <2>3. QED
    BY <2>1, <2>2 DEF RequestRight
<1>7. QED
  BY <1>1, <1>2, <1>3, <1>4, <1>5, <1>6

(* When a function has been performed rusk is idle, and wants no more of   *)
(* anyone than before.                                                     *)
LEMMA Performed ==
  ASSUME RequestRight, req.want = <<>>, req' = R!Idle
  PROVE  /\ RequestRight' /\ \A p : Left(p) = <<>> /\ Left(p)' = <<>>
         /\ \A p \in Askers : req'.id # p
<1>1. R!Idle.want = <<>> /\ R!Idle.id = None /\ None \notin Askers
  BY WireAssumption DEF R!Idle, Askers
<1>2. QED
  BY <1>1 DEF RequestRight, Left

(* The same for what is not about answers, if rusk sends no requests.      *)
LEMMA PerformedAsking ==
  ASSUME RequestRight, Asking, Registering, Started, req.want = <<>>, req' = R!Idle,
         req # Registration, UNCHANGED <<em, out, duty>>,
         \A p \in Askers : wire'[AskCh(p)] = wire[AskCh(p)]
  PROVE  RequestRight' /\ Asking' /\ Registering' /\ Started'
<1>1. RequestRight' /\ \A p \in Askers : Left(p)' = Left(p) /\ req'.id # p
  BY Performed
<1>2. Asking'
  BY <1>1, Unasked
<1>3. Registering'
  <2>1. Bearing \in Askers
    BY ChannelsApart
  <2>2. QED
    BY <1>1, <2>1 DEF Registering
<1>4. Started'
  BY DEF Started
<1>5. QED
  BY <1>1, <1>2, <1>3, <1>4

(***************************************************************************)
(* The list of expanses.                                                   *)
(***************************************************************************)

LEMMA MinIn ==
  ASSUME NEW T \in SUBSET Nat, T # {}
  PROVE  Min(T) \in T
<1>1. \E x \in T : \A y \in T : x <= y
  BY LeastNumber
<1>2. QED
  BY <1>1 DEF Min

(* A sequence without one of its elements is a sequence of the same        *)
(* things.                                                                 *)
LEMMA RemoveAtSeq ==
  ASSUME NEW T, NEW s \in Seq(T), NEW i \in DOMAIN s
  PROVE  RemoveAt(s, i) \in Seq(T)
<1>1. i \in 1 .. Len(s) /\ Len(s) \in Nat
  OBVIOUS
<1>2. SubSeq(s, 1, i - 1) \in Seq(T)
  BY <1>1, SubSeqProperties
<1>3. SubSeq(s, i + 1, Len(s)) \in Seq(T)
  BY <1>1, SubSeqProperties
<1>4. SubSeq(s, 1, i - 1) \o SubSeq(s, i + 1, Len(s)) \in Seq(T)
  BY <1>2, <1>3, ConcatProperties
<1>5. QED
  BY <1>4 DEF RemoveAt

(* Bringing an expanse to the front leaves the same expanses.              *)
Members(s) == {s[i] : i \in DOMAIN s}

(* What is brought to the front was there, and so is what is behind it.    *)
LEMMA ToFrontRight ==
  ASSUME NEW h, expanses \in Seq(Window)
  PROVE  R!ToFront(h) \in Seq(Members(expanses)) /\ R!ToFront(h) \in Seq(Window)
<1>0. expanses \in Seq(Members(expanses)) /\ Members(expanses) \subseteq Window
  <2>1. PICK n \in Nat : DOMAIN expanses = 1 .. n
    OBVIOUS
  <2>2. \A i \in DOMAIN expanses : expanses[i] \in Members(expanses) /\ expanses[i] \in Window
    BY DEF Members
  <2>3. expanses = [i \in 1 .. n |-> expanses[i]]
    BY <2>1
  <2>4. expanses \in [1 .. n -> Members(expanses)]
    BY <2>1, <2>2, <2>3
  <2>5. expanses \in Seq(Members(expanses))
    BY <2>4
  <2>6. QED
    BY <2>2, <2>5 DEF Members
<1>1. PICK M : M = Members(expanses)
  OBVIOUS
<1>2. R!ToFront(h) \in Seq(M)
  <2>1. CASE R!Behind(h) = {}
    BY <1>0, <1>1, <2>1 DEF R!ToFront
  <2>2. CASE R!Behind(h) # {}
    <3>1. R!Behind(h) \in SUBSET Nat /\ R!Behind(h) \subseteq DOMAIN expanses
      BY DEF R!Behind, R!OfHandle
    <3>2. PICK i \in DOMAIN expanses : i = Min(R!Behind(h))
      BY <2>2, <3>1, MinIn
    <3>3. RemoveAt(expanses, i) \in Seq(M)
      BY <1>0, <1>1, RemoveAtSeq
    <3>4. << expanses[i] >> \in Seq(M)
      BY <1>0, <1>1
    <3>5. << expanses[i] >> \o RemoveAt(expanses, i) \in Seq(M)
      BY <3>3, <3>4, ConcatProperties
    <3>6. R!Min(R!Behind(h)) = i /\ R!RemoveAt(expanses, i) = RemoveAt(expanses, i)
      BY <3>2 DEF R!Min, Min, R!RemoveAt, RemoveAt
    <3>7. R!ToFront(h) = << expanses[i] >> \o RemoveAt(expanses, i)
      BY <2>2, <3>6 DEF R!ToFront
    <3>8. QED
      BY <3>5, <3>7
  <2>3. QED
    BY <2>1, <2>2
<1>3. Seq(M) \subseteq Seq(Window)
  BY <1>0, <1>1, SeqMonotonic
<1>4. QED
  BY <1>1, <1>2, <1>3

(***************************************************************************)
(* Steps of rusk that send nothing.                                        *)
(***************************************************************************)

LEMMA StepReg ==
  ASSUME StepInv, R!reg_esys, UNCHANGED <<bearingVars, shinyVars>>
  PROVE  StepInv'
BY Frame DEF R!reg_esys, bearingVars, shinyVars, R!ruskVars

(* A function that changes nothing but the list.                           *)
LEMMA StepQuiet ==
  ASSUME StepInv, req.want = <<>>, req # Registration, req' = R!Idle, expanses' \in Seq(Window),
         UNCHANGED <<wire, out, em, count, typed, bearingVars, shinyVars>>
  PROVE  StepInv'
<1>1. UNCHANGED <<duty, mouse_down, resize, chosen, phase, exp_list>>
  BY DEF bearingVars, shinyVars
<1>2. RequestRight' /\ Asking' /\ Registering' /\ Started'
  BY <1>1, PerformedAsking DEF StepInv
<1>3. Answering'
  BY <1>1, Unanswered DEF StepInv, Turn
<1>4. Typed'
  BY <1>1 DEF StepInv, Typed
<1>5. QED
  BY <1>2, <1>3, <1>4 DEF StepInv

(* Whatever asks for another function is not the registration.             *)
LEMMA NotRegistration ==
  ASSUME req.func # "register_em"
  PROVE  req # Registration
BY DEF Registration

(* remove_expanse stops the machine and changes nothing else.              *)
LEMMA StepRemove ==
  ASSUME StepInv, R!remove_expanse, UNCHANGED <<bearingVars, shinyVars>>
  PROVE  StepInv'
<1>1. /\ req.want = <<>> /\ req.func = "remove" /\ req' = R!Idle
      /\ UNCHANGED <<wire, out, em, count, typed, expanses>>
  BY DEF R!remove_expanse, R!Performs, R!Done
<1>2. expanses' \in Seq(Window)
  BY <1>1 DEF StepInv, Typed
<1>3. QED
  BY <1>1, <1>2, NotRegistration, StepQuiet

(* What becomes of the expanses, one by one.                               *)
LEMMA Redrawn ==
  ASSUME expanses \in Seq(Window), NEW F \in [DOMAIN expanses -> Window]
  PROVE  F \in Seq(Window)
<1>1. PICK n \in Nat : DOMAIN expanses = 1 .. n
  OBVIOUS
<1>2. QED
  BY <1>1

(* update_partial changes the pictures in the list.                        *)
LEMMA StepDraw ==
  ASSUME StepInv, R!update_partial, UNCHANGED <<bearingVars, shinyVars>>
  PROVE  StepInv'
<1>1. /\ req.want = <<>> /\ req.func = "draw" /\ req' = R!Idle
      /\ UNCHANGED <<wire, out, em, count, typed>>
      /\ expanses' = [i \in DOMAIN expanses |->
                        IF i \in R!OfHandle(req.got[1])
                        THEN [expanses[i] EXCEPT !.drawn = req.got[2]] ELSE expanses[i]]
  BY DEF R!update_partial, R!Performs, R!Done, R!wireVars
<1>2. req.got[2] \in Clients
  BY <1>1, Arguments DEF StepInv
<1>3. expanses \in Seq(Window)
  BY DEF StepInv, Typed
<1>4. ASSUME NEW i \in DOMAIN expanses
      PROVE  [expanses[i] EXCEPT !.drawn = req.got[2]] \in Window /\ expanses[i] \in Window
  <2>1. PICK e \in Window : e = expanses[i]
    BY <1>3
  <2>2. QED
    BY <1>2, <2>1 DEF Window
<1>5. expanses' \in Seq(Window)
  BY <1>1, <1>3, <1>4, Redrawn
<1>6. QED
  BY <1>1, <1>5, NotRegistration, StepQuiet

(* update_expanse changes the expanses in the list.                        *)
LEMMA StepUpdate ==
  ASSUME StepInv, R!update_expanse, UNCHANGED <<bearingVars, shinyVars>>
  PROVE  StepInv'
<1>1. /\ req.want = <<>> /\ req.func = "update" /\ req' = R!Idle
      /\ UNCHANGED <<wire, out, em, count, typed>>
      /\ expanses' = [i \in DOMAIN expanses |->
                        IF i \in R!OfHandle(req.got[1].handle)
                        THEN [expanses[i] EXCEPT !.exp = req.got[1]] ELSE expanses[i]]
  BY DEF R!update_expanse, R!Performs, R!Done, R!wireVars
<1>2. req.got[1] \in Exp
  BY <1>1, Arguments DEF StepInv
<1>3. expanses \in Seq(Window)
  BY DEF StepInv, Typed
<1>4. ASSUME NEW i \in DOMAIN expanses
      PROVE  [expanses[i] EXCEPT !.exp = req.got[1]] \in Window /\ expanses[i] \in Window
  <2>1. PICK e \in Window : e = expanses[i]
    BY <1>3
  <2>2. QED
    BY <1>2, <2>1 DEF Window
<1>5. expanses' \in Seq(Window)
  BY <1>1, <1>3, <1>4, Redrawn
<1>6. QED
  BY <1>1, <1>5, NotRegistration, StepQuiet

(* set_decoration_buffers changes the borders in the list.                 *)
LEMMA StepDecorate ==
  ASSUME StepInv, R!set_decoration_buffers, UNCHANGED <<bearingVars, shinyVars>>
  PROVE  StepInv'
<1>1. /\ req.want = <<>> /\ req.func = "decorate" /\ req' = R!Idle
      /\ UNCHANGED <<wire, out, em, count, typed>>
      /\ expanses' = [i \in DOMAIN expanses |->
                        IF i \in R!OfHandle(req.got[1].handle)
                        THEN [expanses[i] EXCEPT !.top = req.got[2]] ELSE expanses[i]]
  BY DEF R!set_decoration_buffers, R!Performs, R!Done, R!wireVars
<1>2. req.got[2] \in Colours
  BY <1>1, Arguments DEF StepInv
<1>3. expanses \in Seq(Window)
  BY DEF StepInv, Typed
<1>4. ASSUME NEW i \in DOMAIN expanses
      PROVE  [expanses[i] EXCEPT !.top = req.got[2]] \in Window /\ expanses[i] \in Window
  <2>1. PICK e \in Window : e = expanses[i]
    BY <1>3
  <2>2. QED
    BY <1>2, <2>1 DEF Window
<1>5. expanses' \in Seq(Window)
  BY <1>1, <1>3, <1>4, Redrawn
<1>6. QED
  BY <1>1, <1>5, NotRegistration, StepQuiet

(* bring_expanse_to_front changes the order of the list.                   *)
LEMMA StepFront ==
  ASSUME StepInv, R!bring_expanse_to_front, UNCHANGED <<bearingVars, shinyVars>>
  PROVE  StepInv'
<1>1. /\ req.want = <<>> /\ req.func = "set_front" /\ req' = R!Idle
      /\ UNCHANGED <<wire, out, em, count, typed>>
      /\ expanses' = R!ToFront(req.got[1].handle)
  BY DEF R!bring_expanse_to_front, R!Performs, R!Done, R!wireVars
<1>2. expanses' \in Seq(Window)
  BY <1>1, ToFrontRight DEF StepInv, Typed
<1>3. QED
  BY <1>1, <1>2, NotRegistration, StepQuiet

(***************************************************************************)
(* What rusk sends.                                                        *)
(***************************************************************************)

LEMMA AddedTo ==
  ASSUME NEW w, NEW ch \in Channels, NEW s, NEW n, DOMAIN w = Channels,
         n = [w EXCEPT ![ch] = @ \o s]
  PROVE  /\ DOMAIN n = Channels
         /\ n[ch] = w[ch] \o s
         /\ \A other \in Channels : other # ch => n[other] = w[other]
OBVIOUS

(* Posting an order.                                                       *)
LEMMA PostsOrder ==
  ASSUME NEW w, NEW s, DOMAIN w = Channels
  PROVE  /\ DOMAIN R!Posted(w, Rusk, Bearing, ES_COMM_PORT, s) = Channels
         /\ R!Posted(w, Rusk, Bearing, ES_COMM_PORT, s)[OrderCh] = w[OrderCh] \o s
         /\ \A ch \in Channels : ch # OrderCh => R!Posted(w, Rusk, Bearing, ES_COMM_PORT, s)[ch] = w[ch]
<1>1. PICK n : n = [w EXCEPT ![OrderCh] = @ \o s]
  OBVIOUS
<1>2. R!Posted(w, Rusk, Bearing, ES_COMM_PORT, s) = n
  BY <1>1, Zenon DEF R!Posted, OrderCh
<1>3. OrderCh \in Channels
  BY ChannelsApart
<1>4. DOMAIN n = Channels /\ n[OrderCh] = w[OrderCh] \o s /\ \A ch \in Channels : ch # OrderCh => n[ch] = w[ch]
  BY <1>1, <1>3, AddedTo, Zenon
<1>5. QED
  BY <1>2, <1>4

(* Posting a list with events.                                             *)
LEMMA PostsList ==
  ASSUME NEW w, NEW s, DOMAIN w = Channels
  PROVE  /\ DOMAIN R!Posted(w, Rusk, Bearing, EVENT_COMM_PORT, s) = Channels
         /\ R!Posted(w, Rusk, Bearing, EVENT_COMM_PORT, s)[ListCh] = w[ListCh] \o s
         /\ \A ch \in Channels : ch # ListCh => R!Posted(w, Rusk, Bearing, EVENT_COMM_PORT, s)[ch] = w[ch]
<1>1. PICK n : n = [w EXCEPT ![ListCh] = @ \o s]
  OBVIOUS
<1>2. R!Posted(w, Rusk, Bearing, EVENT_COMM_PORT, s) = n
  BY <1>1, Zenon DEF R!Posted, ListCh
<1>3. ListCh \in Channels
  BY ChannelsApart
<1>4. DOMAIN n = Channels /\ n[ListCh] = w[ListCh] \o s /\ \A ch \in Channels : ch # ListCh => n[ch] = w[ch]
  BY <1>1, <1>3, AddedTo, Zenon
<1>5. QED
  BY <1>2, <1>4

(* Posting a reply.                                                        *)
LEMMA PostsReply ==
  ASSUME NEW w, NEW s, NEW c \in Clients, DOMAIN w = Channels
  PROVE  /\ DOMAIN R!Posted(w, Rusk, c, ES_COMM_PORT, s) = Channels
         /\ R!Posted(w, Rusk, c, ES_COMM_PORT, s)[ReplyCh(c)] = w[ReplyCh(c)] \o s
         /\ \A ch \in Channels : ch # ReplyCh(c) => R!Posted(w, Rusk, c, ES_COMM_PORT, s)[ch] = w[ch]
<1>1. PICK n : n = [w EXCEPT ![ReplyCh(c)] = @ \o s]
  OBVIOUS
<1>2. R!Posted(w, Rusk, c, ES_COMM_PORT, s) = n
  BY <1>1, Zenon DEF R!Posted, ReplyCh
<1>3. ReplyCh(c) \in Channels
  BY ChannelsApart
<1>4. DOMAIN n = Channels /\ n[ReplyCh(c)] = w[ReplyCh(c)] \o s /\ \A ch \in Channels : ch # ReplyCh(c) => n[ch] = w[ch]
  BY <1>1, <1>3, AddedTo, Zenon
<1>5. QED
  BY <1>2, <1>4

(* Posting events for a program.                                           *)
LEMMA PostsGift ==
  ASSUME NEW w, NEW s, NEW c \in Clients, DOMAIN w = Channels
  PROVE  /\ DOMAIN R!Posted(w, Rusk, c, EVENT_COMM_PORT, s) = Channels
         /\ R!Posted(w, Rusk, c, EVENT_COMM_PORT, s)[GiftCh(c)] = w[GiftCh(c)] \o s
         /\ \A ch \in Channels : ch # GiftCh(c) => R!Posted(w, Rusk, c, EVENT_COMM_PORT, s)[ch] = w[ch]
<1>1. PICK n : n = [w EXCEPT ![GiftCh(c)] = @ \o s]
  OBVIOUS
<1>2. R!Posted(w, Rusk, c, EVENT_COMM_PORT, s) = n
  BY <1>1, Zenon DEF R!Posted, GiftCh
<1>3. GiftCh(c) \in Channels
  BY ChannelsApart
<1>4. DOMAIN n = Channels /\ n[GiftCh(c)] = w[GiftCh(c)] \o s /\ \A ch \in Channels : ch # GiftCh(c) => n[ch] = w[ch]
  BY <1>1, <1>3, AddedTo, Zenon
<1>5. QED
  BY <1>2, <1>4

(* The states with names are states.                                       *)
LEMMA NamesOfStates ==
  /\ "register" \in States /\ "serve" \in States /\ "init_expanse" \in States
  /\ "list" \in States /\ "handle" \in States /\ "events" \in States
BY DEF States

(* An expanse is introduced with two messages that belong together.        *)
LEMMA Introduction ==
  ASSUME NEW e \in Exp
  PROVE  Path(OrderSteps, "serve",
              << Message("func", "init_expanse"), Message("expanse", e) >>, "serve")
<1>1. /\ <<"serve", Message("func", "init_expanse"), "init_expanse">> \in OrderSteps
      /\ <<"init_expanse", Message("expanse", e), "serve">> \in OrderSteps
  BY DEF OrderSteps
<1>2. QED
  BY <1>1, PathTwo, NamesOfStates

(* A handle is a whole reply.                                              *)
LEMMA Handing ==
  ASSUME NEW h \in Nat
  PROVE  Path(HandleSteps, "handle", << Message("handle", h) >>, "handle")
<1>1. <<"handle", Message("handle", h), "handle">> \in HandleSteps
  BY DEF HandleSteps
<1>2. QED
  BY <1>1, PathOne, NamesOfStates

(* A handle and events belong together.                                    *)
LEMMA Gift ==
  ASSUME NEW h \in Nat, NEW l \in Events
  PROVE  Path(GivenSteps, "handle", << Message("handle", h), Message("events", l) >>, "handle")
<1>1. /\ <<"handle", Message("handle", h), "events">> \in GivenSteps
      /\ <<"events", Message("events", l), "handle">> \in GivenSteps
  BY DEF GivenSteps
<1>2. QED
  BY <1>1, PathTwo, NamesOfStates

(* A list and events belong together.                                      *)
LEMMA Listed ==
  ASSUME NEW l \in Seq(Exp), NEW s \in Events
  PROVE  Path(ListSteps, "list", << Message("list", l), Message("events", s) >>, "list")
<1>1. /\ <<"list", Message("list", l), "events">> \in ListSteps
      /\ <<"events", Message("events", s), "list">> \in ListSteps
  BY DEF ListSteps
<1>2. QED
  BY <1>1, PathTwo, NamesOfStates

(* The word that events have come and the answer to the registration are   *)
(* whole.                                                                  *)
LEMMA Order ==
  /\ Path(OrderSteps, "serve", << Message("func", "handle_events") >>, "serve")
  /\ Path(OrderSteps, "register", << Message("bool", TRUE) >>, "serve")
<1>1. /\ <<"serve", Message("func", "handle_events"), "serve">> \in OrderSteps
      /\ <<"register", Message("bool", TRUE), "serve">> \in OrderSteps
  BY DEF OrderSteps
<1>2. QED
  BY <1>1, PathOne, NamesOfStates

(* Rusk's messages and ports are everybody's.                              *)
LEMMA RuskMessages ==
  /\ \A type, val : R!Message(type, val) = Message(type, val)
  /\ R!ES_COMM_PORT = ES_COMM_PORT /\ R!EVENT_COMM_PORT = EVENT_COMM_PORT
BY DEF R!Message, Message, R!ES_COMM_PORT, ES_COMM_PORT, R!EVENT_COMM_PORT, EVENT_COMM_PORT

(* create_expanse introduces the new expanse to the manager, if there is   *)
(* one, and sends the handle.                                              *)
LEMMA StepCreate ==
  ASSUME StepInv, R!create_expanse, UNCHANGED <<bearingVars, shinyVars>>
  PROVE  StepInv'
<1>0. UNCHANGED <<duty, mouse_down, resize, chosen, phase, exp_list>>
  BY DEF bearingVars, shinyVars
<1>1. PICK c, e, told :
        /\ c = req.id /\ e = R!NewExpanse(req.id)
        /\ told = IF em = None THEN wire
                  ELSE R!Posted(wire, Rusk, em, R!ES_COMM_PORT, R!em_init_expanse(e))
        /\ wire' = R!Posted(told, Rusk, c, R!ES_COMM_PORT, << R!Message("handle", count) >>)
        /\ expanses' = <<e>> \o expanses
  BY DEF R!create_expanse, R!Delivers
<1>2. /\ req.want = <<>> /\ req.func = "create" /\ req' = R!Idle
      /\ UNCHANGED <<out, em, typed>> /\ count' = count + 1
  BY DEF R!create_expanse, R!Performs, R!Done, R!Delivers
<1>3. c \in Clients /\ ReplyCh(c) \in Channels /\ OrderCh \in Channels
  BY <1>1, <1>2, Arguments, ChannelsApart DEF StepInv
<1>4. /\ DOMAIN wire = Channels /\ count \in Nat /\ expanses \in Seq(Window) /\ em \in {None, Bearing}
      /\ wire[SelfCh] = <<>>
  BY DEF StepInv, Typed
<1>5. e \in Window /\ e.exp \in Exp
  BY <1>1, <1>3, <1>4 DEF R!NewExpanse, Window, Exp
<1>6. /\ DOMAIN told = Channels
      /\ \A ch \in Channels : ch # OrderCh => told[ch] = wire[ch]
      /\ Path(OrderSteps, Turn, told[OrderCh], IF em = None THEN "register" ELSE "serve")
  <2>1. CASE em = None
    BY <1>1, <1>4, <2>1 DEF StepInv, Answering, Ordering
  <2>2. CASE em # None
    <3>1. em = Bearing /\ R!em_init_expanse(e) = << Message("func", "init_expanse"), Message("expanse", e.exp) >>
      BY <1>4, <2>2, RuskMessages DEF R!em_init_expanse
    <3>2. told = R!Posted(wire, Rusk, Bearing, ES_COMM_PORT,
                          << Message("func", "init_expanse"), Message("expanse", e.exp) >>)
      BY <1>1, <2>2, <3>1, RuskMessages
    <3>3. /\ DOMAIN told = Channels
          /\ \A ch \in Channels : ch # OrderCh => told[ch] = wire[ch]
          /\ told[OrderCh] = wire[OrderCh] \o << Message("func", "init_expanse"), Message("expanse", e.exp) >>
      <4>1. PICK s : s = << Message("func", "init_expanse"), Message("expanse", e.exp) >>
        OBVIOUS
      <4>2. told = R!Posted(wire, Rusk, Bearing, ES_COMM_PORT, s)
        BY <3>2, <4>1
      <4>3. /\ DOMAIN told = Channels /\ told[OrderCh] = wire[OrderCh] \o s
            /\ \A ch \in Channels : ch # OrderCh => told[ch] = wire[ch]
        BY <1>4, <4>2, PostsOrder, Zenon
      <4>4. QED
        BY <4>1, <4>3
    <3>4. Path(OrderSteps, Turn, wire[OrderCh], "serve")
      BY <2>2 DEF StepInv, Answering, Ordering
    <3>5. Path(OrderSteps, Turn, told[OrderCh], "serve")
      BY <1>5, <3>3, <3>4, PathCat, Introduction
    <3>6. QED
      BY <2>2, <3>3, <3>5
  <2>3. QED
    BY <2>1, <2>2
<1>7. /\ DOMAIN wire' = Channels
      /\ \A ch \in Channels : ch # ReplyCh(c) => wire'[ch] = told[ch]
      /\ wire'[ReplyCh(c)] = told[ReplyCh(c)] \o << Message("handle", count) >>
  <2>1. wire' = R!Posted(told, Rusk, c, ES_COMM_PORT, << Message("handle", count) >>)
    BY <1>1, RuskMessages, Zenon
  <2>2. PICK s : s = << Message("handle", count) >>
    OBVIOUS
  <2>3. wire' = R!Posted(told, Rusk, c, ES_COMM_PORT, s)
    BY <2>1, <2>2
  <2>4. /\ DOMAIN wire' = Channels /\ wire'[ReplyCh(c)] = told[ReplyCh(c)] \o s
        /\ \A ch \in Channels : ch # ReplyCh(c) => wire'[ch] = told[ch]
    BY <1>3, <1>6, <2>3, PostsReply, Zenon
  <2>5. QED
    BY <2>2, <2>4
<1>8. Answering'
  <2>1. Turn' = Turn
    BY <1>0 DEF Turn
  <2>2. wire'[OrderCh] = told[OrderCh] /\ wire'[ListCh] = wire[ListCh] /\ wire'[SortedCh] = wire[SortedCh]
    BY <1>3, <1>6, <1>7, ChannelsApart, OthersApart
  <2>3. ASSUME NEW d \in Clients
        PROVE  /\ wire'[GiftCh(d)] = wire[GiftCh(d)]
               /\ Path(HandleSteps, "handle", wire'[ReplyCh(d)], "handle")
    <3>1. wire'[GiftCh(d)] = wire[GiftCh(d)]
      BY <1>3, <1>6, <1>7, ChannelsApart, OthersApart
    <3>2. told[ReplyCh(d)] = wire[ReplyCh(d)]
      BY <1>3, <1>6, ChannelsApart, OthersApart
    <3>3. Path(HandleSteps, "handle", wire[ReplyCh(d)], "handle")
      BY DEF StepInv, Answering, Replying
    <3>4. CASE d = c
      BY <1>4, <1>7, <3>1, <3>2, <3>3, <3>4, Handing, PathCat
    <3>5. CASE d # c
      <4>1. wire'[ReplyCh(d)] = wire[ReplyCh(d)]
        BY <1>3, <1>7, <3>2, <3>5, ChannelsApart, OthersApart
      <4>2. QED
        BY <3>1, <3>3, <4>1
    <3>6. QED
      BY <3>1, <3>4, <3>5
  <2>4. QED
    BY <1>2, <1>6, <2>1, <2>2, <2>3
       DEF StepInv, Answering, Ordering, Listing, Replying, Giving, Sorting
<1>9. RequestRight' /\ Asking' /\ Registering' /\ Started'
  <2>1. \A p \in Askers : wire'[AskCh(p)] = wire[AskCh(p)]
    BY <1>3, <1>6, <1>7, ChannelsApart, AskApart
  <2>2. QED
    BY <1>0, <1>2, <2>1, NotRegistration, PerformedAsking DEF StepInv
<1>10. Typed'
  <2>1. <<e>> \o expanses \in Seq(Window)
    BY <1>4, <1>5
  <2>2. wire'[SelfCh] = <<>>
    BY <1>3, <1>4, <1>6, <1>7, ChannelsApart, OthersApart
  <2>3. QED
    BY <1>0, <1>1, <1>2, <1>7, <2>1, <2>2 DEF StepInv, Typed
<1>11. QED
  BY <1>8, <1>9, <1>10 DEF StepInv

(* All the expanses there are, introduced.                                 *)
LEMMA AllIntroduced ==
  ASSUME expanses \in Seq(Window)
  PROVE  Path(OrderSteps, "serve", R!em_registered, "serve")
<1>1. PICK n \in Nat : DOMAIN expanses = 1 .. n /\ Len(expanses) = n
  OBVIOUS
<1>2. PICK L : L = Labels(OrderSteps)
  OBVIOUS
<1>3. ASSUME NEW i \in 1 .. n
      PROVE  /\ R!em_init_expanse(expanses[i]) \in Seq(L)
             /\ Path(OrderSteps, "serve", R!em_init_expanse(expanses[i]), "serve")
  <2>1. PICK e \in Exp : e = expanses[i].exp
    <3>1. expanses[i] \in Window
      BY <1>1
    <3>2. QED
      BY <3>1 DEF Window
  <2>2. R!em_init_expanse(expanses[i]) = << Message("func", "init_expanse"), Message("expanse", e) >>
    BY <2>1, RuskMessages DEF R!em_init_expanse
  <2>3. Path(OrderSteps, "serve", R!em_init_expanse(expanses[i]), "serve")
    BY <2>2, Introduction
  <2>4. QED
    BY <1>2, <2>3, PathEnds
<1>4. PICK ss \in Seq(Seq(L)) : ss = [i \in DOMAIN expanses |-> R!em_init_expanse(expanses[i])]
  <2>1. [i \in 1 .. n |-> R!em_init_expanse(expanses[i])] \in [1 .. n -> Seq(L)]
    BY <1>3
  <2>2. [i \in 1 .. n |-> R!em_init_expanse(expanses[i])] \in Seq(Seq(L))
    BY <2>1
  <2>3. QED
    BY <1>1, <2>2
<1>5. Len(ss) = n /\ \A i \in 1 .. n : ss[i] = R!em_init_expanse(expanses[i])
  BY <1>1, <1>4
<1>6. \A i \in 1 .. Len(ss) : Path(OrderSteps, "serve", ss[i], "serve")
  BY <1>3, <1>5
<1>7. Path(OrderSteps, "serve", FlattenSeq(ss), "serve")
  BY <1>2, <1>6, PathJoin, NamesOfStates
<1>8. R!FlattenSeq(ss) = FlattenSeq(ss)
  BY DEF R!FlattenSeq, FlattenSeq
<1>9. R!em_registered = R!FlattenSeq(ss)
  BY <1>4 DEF R!em_registered
<1>10. QED
  BY <1>7, <1>8, <1>9

(* register_em accepts the manager and introduces all expanses to it.      *)
LEMMA StepRegister ==
  ASSUME StepInv, R!register_em, UNCHANGED <<bearingVars, shinyVars>>
  PROVE  StepInv'
<1>0. UNCHANGED <<duty, mouse_down, resize, chosen, phase, exp_list>>
  BY DEF bearingVars, shinyVars
<1>1. /\ req.want = <<>> /\ req.func = "register_em" /\ req' = R!Idle
      /\ UNCHANGED <<out, expanses, count, typed>>
  BY DEF R!register_em, R!Performs, R!Done, R!Delivers
<1>2. em = None /\ req = Registration /\ req.id = Bearing
  BY <1>1, Arguments DEF StepInv, Registration
<1>3. em' = Bearing /\ Bearing # None
  BY <1>2, WireAssumption DEF R!register_em
<1>4. PICK s : s = << Message("bool", TRUE) >> \o R!em_registered
  OBVIOUS
<1>5. wire' = R!Posted(wire, Rusk, Bearing, ES_COMM_PORT, s)
  BY <1>2, <1>4, RuskMessages DEF R!register_em, R!Delivers
<1>6. /\ DOMAIN wire = Channels /\ expanses \in Seq(Window) /\ wire[SelfCh] = <<>>
  BY DEF StepInv, Typed
<1>7. /\ DOMAIN wire' = Channels /\ wire'[OrderCh] = wire[OrderCh] \o s
      /\ \A ch \in Channels : ch # OrderCh => wire'[ch] = wire[ch]
  BY <1>5, <1>6, PostsOrder
<1>8. Ordering'
  <2>1. Path(OrderSteps, "register", s, "serve")
    BY <1>4, <1>6, Order, AllIntroduced, PathCat
  <2>2. Path(OrderSteps, Turn, wire[OrderCh], "register")
    BY <1>2 DEF StepInv, Answering, Ordering
  <2>3. Path(OrderSteps, Turn, wire'[OrderCh], "serve")
    BY <1>7, <2>1, <2>2, PathCat
  <2>4. Turn' = Turn
    BY <1>0 DEF Turn
  <2>5. QED
    BY <1>3, <2>3, <2>4 DEF Ordering
<1>9. Answering'
  <2>1. /\ wire'[ListCh] = wire[ListCh] /\ wire'[SortedCh] = wire[SortedCh]
        /\ \A c \in Clients : wire'[ReplyCh(c)] = wire[ReplyCh(c)] /\ wire'[GiftCh(c)] = wire[GiftCh(c)]
    BY <1>7, ChannelsApart, OthersApart
  <2>2. QED
    BY <1>8, <2>1 DEF StepInv, Answering, Listing, Replying, Giving, Sorting
<1>10. RequestRight' /\ \A p : Left(p) = <<>> /\ Left(p)' = <<>>
  BY <1>1, Performed DEF StepInv
<1>11. duty = "register" /\ out[Bearing] = <<>> /\ wire[AskCh(Bearing)] = <<>>
  BY <1>2 DEF StepInv, Registering
<1>12. \A p \in Askers : wire'[AskCh(p)] = wire[AskCh(p)]
  BY <1>7, ChannelsApart, AskApart
<1>13. Asking'
  <2>1. ASSUME NEW p \in Askers
        PROVE  Asks(p, Left(p)', wire'[AskCh(p)], out'[p])
    <3>1. CASE p = Bearing
      BY <1>1, <1>10, <1>11, <1>12, <3>1, AskNothing
    <3>2. CASE p # Bearing
      <4>1. Asks(p, Left(p), wire[AskCh(p)], out[p])
        BY <3>2 DEF StepInv, Asking
      <4>2. Left(p)' = Left(p) /\ out'[p] = out[p] /\ wire'[AskCh(p)] = wire[AskCh(p)]
        BY <1>1, <1>10, <1>12
      <4>3. QED
        BY <4>1, <4>2
    <3>3. QED
      BY <3>1, <3>2
  <2>2. QED
    BY <2>1 DEF Asking
<1>14. Registering' /\ Started'
  BY <1>0, <1>3, <1>11 DEF Registering, Started
<1>15. Typed'
  <2>1. wire'[SelfCh] = <<>>
    BY <1>6, <1>7, ChannelsApart, OthersApart
  <2>2. QED
    BY <1>0, <1>1, <1>3, <1>7, <2>1 DEF StepInv, Typed
<1>16. QED
  BY <1>9, <1>10, <1>13, <1>14, <1>15 DEF StepInv

(* send_events hands the events on with the handle of the front expanse.   *)
LEMMA StepSend ==
  ASSUME StepInv, R!send_events, UNCHANGED <<bearingVars, shinyVars>>
  PROVE  StepInv'
<1>0. UNCHANGED <<duty, mouse_down, resize, chosen, phase, exp_list>>
  BY DEF bearingVars, shinyVars
<1>1. /\ req.want = <<>> /\ req.func = "send_events" /\ req' = R!Idle
      /\ UNCHANGED <<out, expanses, em, count, typed>>
  BY DEF R!send_events, R!Performs, R!Done, R!Delivers
<1>2. DOMAIN wire = Channels /\ expanses \in Seq(Window) /\ wire[SelfCh] = <<>>
  BY DEF StepInv, Typed
<1>3. CASE expanses = <<>>
  <2>1. UNCHANGED wire /\ expanses' \in Seq(Window)
    BY <1>1, <1>2, <1>3 DEF R!send_events, R!Delivers
  <2>2. QED
    BY <1>1, <2>1, NotRegistration, StepQuiet
<1>4. CASE expanses # <<>>
  <2>1. PICK e \in Window : e = Head(expanses)
    BY <1>2, <1>4
  <2>2. PICK c \in Clients, h \in Nat : c = e.pid /\ h = e.exp.handle
    BY DEF Window, Exp
  <2>3. PICK l \in Events : l = req.got[1]
    BY <1>1, Arguments DEF StepInv
  <2>4. PICK s : s = << Message("handle", h), Message("events", l) >>
    OBVIOUS
  <2>5. wire' = R!Posted(wire, Rusk, c, EVENT_COMM_PORT, s)
    BY <1>4, <2>1, <2>2, <2>3, <2>4, RuskMessages DEF R!send_events, R!Delivers
  <2>6. /\ DOMAIN wire' = Channels /\ wire'[GiftCh(c)] = wire[GiftCh(c)] \o s
        /\ \A ch \in Channels : ch # GiftCh(c) => wire'[ch] = wire[ch]
    BY <1>2, <2>5, PostsGift
  <2>7. Path(GivenSteps, "handle", wire'[GiftCh(c)], "handle")
    <3>1. Path(GivenSteps, "handle", wire[GiftCh(c)], "handle")
      BY DEF StepInv, Answering, Giving
    <3>2. QED
      BY <2>4, <2>6, <3>1, Gift, PathCat
  <2>8. Giving'
    <3>1. ASSUME NEW d \in Clients
          PROVE  Path(GivenSteps, "handle", wire'[GiftCh(d)], "handle")
      <4>1. CASE d = c
        BY <2>7, <4>1
      <4>2. CASE d # c
        <5>1. wire'[GiftCh(d)] = wire[GiftCh(d)]
          BY <2>6, <4>2, ChannelsApart, OthersApart
        <5>2. QED
          BY <5>1 DEF StepInv, Answering, Giving
      <4>3. QED
        BY <4>1, <4>2
    <3>2. QED
      BY <3>1 DEF Giving
  <2>9. Answering'
    <3>1. /\ wire'[OrderCh] = wire[OrderCh] /\ wire'[ListCh] = wire[ListCh]
          /\ wire'[SortedCh] = wire[SortedCh]
          /\ \A d \in Clients : wire'[ReplyCh(d)] = wire[ReplyCh(d)]
      BY <2>6, ChannelsApart, OthersApart
    <3>2. Turn' = Turn
      BY <1>0 DEF Turn
    <3>3. QED
      BY <1>1, <2>8, <3>1, <3>2 DEF StepInv, Answering, Ordering, Listing, Replying, Sorting
  <2>10. RequestRight' /\ Asking' /\ Registering' /\ Started'
    <3>1. \A p \in Askers : wire'[AskCh(p)] = wire[AskCh(p)]
      BY <2>6, ChannelsApart, AskApart
    <3>2. QED
      BY <1>0, <1>1, <3>1, NotRegistration, PerformedAsking DEF StepInv
  <2>11. Typed'
    <3>1. wire'[SelfCh] = <<>>
      BY <1>2, <2>6, ChannelsApart, OthersApart
    <3>2. QED
      BY <1>0, <1>1, <2>6, <3>1 DEF StepInv, Typed
  <2>12. QED
    BY <2>9, <2>10, <2>11 DEF StepInv
<1>5. QED
  BY <1>3, <1>4

(* What is typed goes to the manager, with the list.                       *)
LEMMA StepRead ==
  ASSUME StepInv, R!process_events, UNCHANGED <<bearingVars, shinyVars>>
  PROVE  StepInv'
<1>0. UNCHANGED <<duty, mouse_down, resize, chosen, phase, exp_list>>
  BY DEF bearingVars, shinyVars
<1>1. UNCHANGED <<expanses, em, count, req>>
  BY DEF R!process_events
<1>2. /\ DOMAIN wire = Channels /\ expanses \in Seq(Window) /\ wire[SelfCh] = <<>>
      /\ typed \in Nat /\ em \in {None, Bearing}
  BY DEF StepInv, Typed
<1>3. PICK n \in 1 .. MaxBatch : \E kinds \in [1 .. n -> Kinds] :
        /\ typed' = typed + n
        /\ R!handle_events([i \in 1 .. n |-> [id |-> typed + i, kind |-> kinds[i]]])
  BY DEF R!process_events
<1>4. PICK kinds \in [1 .. n -> Kinds] :
        /\ typed' = typed + n
        /\ R!handle_events([i \in 1 .. n |-> [id |-> typed + i, kind |-> kinds[i]]])
  BY <1>3
<1>5. n \in Nat /\ typed' \in Nat /\ UNCHANGED out
  BY <1>2, <1>4, DeskAssumption DEF R!handle_events, R!Delivers
<1>6. CASE em = None
  <2>1. UNCHANGED wire
    BY <1>4, <1>6 DEF R!handle_events, R!Delivers
  <2>2. RequestRight' /\ Asking' /\ Registering' /\ Started' /\ Answering'
    BY <1>0, <1>1, <1>5, <2>1
       DEF StepInv, RequestRight, Asking, Registering, Started, Answering, Ordering, Listing,
           Replying, Giving, Sorting, Left, Turn, Progress
  <2>3. Typed'
    BY <1>0, <1>1, <1>5, <2>1 DEF StepInv, Typed
  <2>4. QED
    BY <2>2, <2>3 DEF StepInv
<1>7. CASE em # None
  <2>1. em = Bearing
    BY <1>2, <1>7
  <2>2. PICK l \in Events : l = [i \in 1 .. n |-> [id |-> typed + i, kind |-> kinds[i]]]
    <3>1. PICK E : E = [id : Nat, kind : Kinds]
      OBVIOUS
    <3>2. ASSUME NEW i \in 1 .. n
          PROVE  [id |-> typed + i, kind |-> kinds[i]] \in E
      BY <1>2, <1>5, <3>1
    <3>3. [i \in 1 .. n |-> [id |-> typed + i, kind |-> kinds[i]]] \in [1 .. n -> E]
      BY <3>2
    <3>4. [i \in 1 .. n |-> [id |-> typed + i, kind |-> kinds[i]]] \in Seq(E)
      BY <1>5, <3>3
    <3>5. QED
      BY <3>1, <3>4 DEF Events
  <2>3. PICK list \in Seq(Exp) : list = [i \in DOMAIN expanses |-> expanses[i].exp]
    <3>1. PICK m \in Nat : DOMAIN expanses = 1 .. m
      BY <1>2
    <3>2. ASSUME NEW i \in 1 .. m
          PROVE  expanses[i].exp \in Exp
      <4>1. expanses[i] \in Window
        BY <1>2, <3>1
      <4>2. QED
        BY <4>1 DEF Window
    <3>3. [i \in 1 .. m |-> expanses[i].exp] \in [1 .. m -> Exp]
      BY <3>2
    <3>4. [i \in 1 .. m |-> expanses[i].exp] \in Seq(Exp)
      BY <3>3
    <3>5. QED
      BY <3>1, <3>4
  <2>4. PICK s, t : /\ s = << Message("func", "handle_events") >>
                    /\ t = << Message("list", list), Message("events", l) >>
    OBVIOUS
  <2>5. PICK w : w = R!Posted(wire, Rusk, Bearing, ES_COMM_PORT, s)
    OBVIOUS
  <2>6. wire' = R!Posted(w, Rusk, Bearing, EVENT_COMM_PORT, t)
    <3>1. R!handle_events(l)
      BY <1>4, <2>2
    <3>2. wire' = R!Posted(
                    R!Posted(wire, Rusk, em, R!ES_COMM_PORT, << R!Message("func", "handle_events") >>),
                    Rusk, em, R!EVENT_COMM_PORT, << R!Message("list", list), R!Message("events", l) >>)
      BY <1>7, <2>3, <3>1 DEF R!handle_events, R!Delivers
    <3>3. QED
      BY <2>1, <2>4, <2>5, <3>2, RuskMessages
  <2>7. /\ DOMAIN w = Channels /\ w[OrderCh] = wire[OrderCh] \o s
        /\ \A ch \in Channels : ch # OrderCh => w[ch] = wire[ch]
    BY <1>2, <2>5, PostsOrder
  <2>8. /\ DOMAIN wire' = Channels /\ wire'[ListCh] = w[ListCh] \o t
        /\ \A ch \in Channels : ch # ListCh => wire'[ch] = w[ch]
    BY <2>6, <2>7, PostsList
  <2>9. wire'[OrderCh] = wire[OrderCh] \o s /\ wire'[ListCh] = wire[ListCh] \o t
    BY <2>7, <2>8, ChannelsApart, OthersApart
  <2>10. \A ch \in Channels : ch # ListCh /\ ch # OrderCh => wire'[ch] = wire[ch]
    BY <2>7, <2>8
  <2>11. Ordering' /\ Listing'
    <3>1. Path(OrderSteps, Turn, wire[OrderCh], "serve") /\ Path(ListSteps, "list", wire[ListCh], "list")
      BY <1>7 DEF StepInv, Answering, Ordering, Listing
    <3>2. Path(OrderSteps, Turn, wire'[OrderCh], "serve")
      BY <2>4, <2>9, <3>1, Order, PathCat
    <3>3. Path(ListSteps, "list", wire'[ListCh], "list")
      BY <2>4, <2>9, <3>1, Listed, PathCat
    <3>4. Turn' = Turn
      BY <1>0 DEF Turn
    <3>5. QED
      BY <1>1, <1>7, <3>2, <3>3, <3>4 DEF Ordering, Listing
  <2>12. Answering'
    <3>1. /\ wire'[SortedCh] = wire[SortedCh]
          /\ \A c \in Clients : wire'[ReplyCh(c)] = wire[ReplyCh(c)] /\ wire'[GiftCh(c)] = wire[GiftCh(c)]
      BY <2>10, ChannelsApart, OthersApart
    <3>2. QED
      BY <2>11, <3>1 DEF StepInv, Answering, Replying, Giving, Sorting
  <2>13. Asking'
    <3>1. \A p \in Askers : wire'[AskCh(p)] = wire[AskCh(p)]
      BY <2>10, ChannelsApart, AskApart
    <3>2. \A p \in Askers : Left(p)' = Left(p) /\ out'[p] = out[p]
      BY <1>1, <1>5 DEF Left
    <3>3. QED
      BY <1>1, <3>1, <3>2, Unasked DEF StepInv
  <2>14. RequestRight' /\ Registering' /\ Started'
    BY <1>0, <1>1, <1>7 DEF StepInv, RequestRight, Registering, Started, Progress
  <2>15. Typed'
    <3>1. wire'[SelfCh] = <<>>
      BY <1>2, <2>10, ChannelsApart, OthersApart
    <3>2. QED
      BY <1>0, <1>1, <1>5, <2>8, <3>1 DEF StepInv, Typed
  <2>16. QED
    BY <2>12, <2>13, <2>14, <2>15 DEF StepInv
<1>8. QED
  BY <1>6, <1>7

(***************************************************************************)
(* What rusk receives.                                                     *)
(***************************************************************************)

LEMMA Appended ==
  /\ \A v : Append(<<>>, v) = <<v>>
  /\ \A v, v2 : Append(<<v>>, v2) = <<v, v2>>
<1>1. ASSUME NEW v PROVE Append(<<>>, v) = <<v>>
  <2>1. <<>> \in Seq({v}) /\ v \in {v}
    OBVIOUS
  <2>2. Append(<<>>, v) = <<>> \o <<v>>
    BY <2>1, AppendIsConcat
  <2>3. <<v>> \in Seq({v})
    OBVIOUS
  <2>4. <<>> \o <<v>> = <<v>>
    BY <2>3, ConcatEmptySeq
  <2>5. QED
    BY <2>2, <2>4
<1>2. ASSUME NEW v, NEW v2 PROVE Append(<<v>>, v2) = <<v, v2>>
  <2>1. <<v>> \in Seq({v, v2}) /\ v2 \in {v, v2}
    OBVIOUS
  <2>2. Append(<<v>>, v2) = <<v>> \o <<v2>>
    BY <2>1, AppendIsConcat
  <2>3. QED
    BY <2>2, Pair
<1>3. QED
  BY <1>1, <1>2

(* The events are an only argument; the other functions have one argument  *)
(* or two.                                                                 *)
LEMMA ArgShapes ==
  ASSUME NEW p, NEW f \in Funcs(p)
  PROVE  \/ f = "send_events" /\ R!Args[f] = <<"events">>
         \/ \E a : R!Args[f] = <<a>> /\ <<a>> \in Wants /\ a # "events"
         \/ \E a, b : /\ R!Args[f] = <<a, b>> /\ <<a, b>> \in Wants /\ <<b>> \in Wants
                      /\ a # "events" /\ b # "events"
<1>1. f \in {"create", "remove", "draw", "update", "set_front", "send_events", "decorate"}
  BY DEF Funcs, ClientFuncs, BearingFuncs
<1>2. /\ <<"api">> \in Wants /\ <<"handle">> \in Wants /\ <<"place", "buffer">> \in Wants
      /\ <<"buffer">> \in Wants /\ <<"expanse">> \in Wants /\ <<"expanse", "buffer">> \in Wants
  BY DEF Wants
<1>3. CASE f \in {"create", "remove", "update", "set_front"}
  BY <1>2, <1>3, ArgsSpelled
<1>4. CASE f \in {"draw", "decorate"}
  BY <1>2, <1>4, ArgsSpelled
<1>5. CASE f = "send_events"
  BY <1>5, ArgsSpelled
<1>6. QED
  BY <1>1, <1>3, <1>4, <1>5

(* What is still wanted in the middle of a request.                        *)
LEMMA Wanting ==
  ASSUME NEW p, NEW f \in Funcs(p), NEW want, NEW got, Progress(f, p, want, got), want # <<>>
  PROVE  \/ f = "send_events" /\ want = <<"events">> /\ Head(want) = "events" /\ Tail(want) = <<>>
         \/ want \in Wants /\ Head(want) # "events" /\ Tail(want) # <<"events">>
<1>1. CASE f = "send_events" /\ R!Args[f] = <<"events">>
  <2>1. want = <<"events">>
    BY <1>1, HeadsSpelled DEF Progress
  <2>2. QED
    BY <1>1, <2>1, HeadsSpelled
<1>2. ASSUME NEW a, R!Args[f] = <<a>>, <<a>> \in Wants, a # "events"
      PROVE  want \in Wants /\ Head(want) # "events" /\ Tail(want) # <<"events">>
  <2>1. want = <<a>>
    BY <1>2, HeadsSpelled DEF Progress
  <2>2. QED
    BY <1>2, <2>1, HeadsSpelled
<1>3. ASSUME NEW a, NEW b, R!Args[f] = <<a, b>>, <<a, b>> \in Wants, <<b>> \in Wants,
             a # "events", b # "events"
      PROVE  want \in Wants /\ Head(want) # "events" /\ Tail(want) # <<"events">>
  <2>1. want = <<a, b>> \/ want = <<b>>
    BY <1>3, HeadsSpelled DEF Progress
  <2>2. <<b>> # <<"events">> /\ <<"events">> # <<>>
    BY <1>3
  <2>3. QED
    BY <1>3, <2>1, <2>2, HeadsSpelled
<1>4. QED
  BY <1>1, <1>2, <1>3, ArgShapes

(* An argument of the right kind is progress.                              *)
LEMMA ProgressNext ==
  ASSUME NEW p, NEW f \in Funcs(p), NEW want, NEW got, Progress(f, p, want, got), want # <<>>,
         NEW v \in Values(p, Head(want))
  PROVE  Progress(f, p, Tail(want), Append(got, v))
<1>1. CASE want = R!Args[f] /\ got = <<>>
  <2>1. Append(got, v) = <<v>>
    BY <1>1, Appended
  <2>2. QED
    BY <1>1, <2>1 DEF Progress
<1>2. ASSUME NEW x \in Values(p, Head(R!Args[f])), R!Args[f] # <<>>, want = Tail(R!Args[f]), got = <<x>>
      PROVE  Progress(f, p, Tail(want), Append(got, v))
  <2>1. \E a, b : R!Args[f] = <<a, b>>
    <3>1. \A a : R!Args[f] = <<a>> => want = <<>>
      BY <1>2, HeadsSpelled
    <3>2. QED
      BY <3>1, ArgShapes
  <2>2. PICK a, b : R!Args[f] = <<a, b>>
    BY <2>1
  <2>3. want = <<b>> /\ Tail(want) = <<>> /\ Len(R!Args[f]) = 2
    BY <1>2, <2>2, HeadsSpelled
  <2>4. Append(got, v) = <<x, v>>
    BY <1>2, Appended
  <2>5. v \in Values(p, Head(Tail(R!Args[f])))
    BY <1>2
  <2>6. QED
    BY <1>2, <2>3, <2>4, <2>5 DEF Progress
<1>3. QED
  BY <1>1, <1>2 DEF Progress

(* A channel from which the first message was taken.                       *)
LEMMA Takes ==
  ASSUME NEW ch \in Channels, DOMAIN wire = Channels, NEW T, NEW w, NEW v,
         Path(T, w, wire[ch], v), wire[ch] # <<>>,
         wire' = [wire EXCEPT ![ch] = SubSeq(@, 1 + 1, Len(@))]
  PROVE  /\ DOMAIN wire' = Channels /\ wire'[ch] = Tail(wire[ch])
         /\ \A other \in Channels : other # ch => wire'[other] = wire[other]
<1>1. Tail(wire[ch]) = SubSeq(wire[ch], 2, Len(wire[ch]))
  BY PathHead
<1>2. 1 + 1 = 2
  OBVIOUS
<1>3. wire'[ch] = SubSeq(wire[ch], 1 + 1, Len(wire[ch]))
  OBVIOUS
<1>4. wire'[ch] = Tail(wire[ch])
  BY <1>1, <1>2, <1>3
<1>5. QED
  BY <1>4

(* Rusk takes a message and sends nothing.                                 *)
LEMMA RuskTakes ==
  ASSUME NEW q, NEW port, R!Receives(Rusk, q, port, 1, <<>>), DOMAIN out = Programs
  PROVE  /\ wire' = [wire EXCEPT ![<<q, Rusk, port>>] = SubSeq(@, 1 + 1, Len(@))]
         /\ DOMAIN out' = Programs /\ \A p \in Askers : out'[p] = out[p]
BY ChannelsApart DEF R!Receives

(* What rusk takes from one who asks concerns nobody's answers.            *)
LEMMA AnswersStay ==
  ASSUME StepInv, NEW q \in Askers, UNCHANGED <<em, duty>>,
         \A ch \in Channels : ch # AskCh(q) => wire'[ch] = wire[ch]
  PROVE  Answering' /\ wire'[SelfCh] = <<>>
<1>1. /\ wire'[OrderCh] = wire[OrderCh] /\ wire'[ListCh] = wire[ListCh]
      /\ wire'[SortedCh] = wire[SortedCh] /\ wire'[SelfCh] = wire[SelfCh]
      /\ \A c \in Clients : wire'[ReplyCh(c)] = wire[ReplyCh(c)] /\ wire'[GiftCh(c)] = wire[GiftCh(c)]
  BY ChannelsApart, AskApart
<1>2. Turn' = Turn
  BY DEF Turn
<1>3. Answering'
  BY <1>1, <1>2, Unanswered DEF StepInv
<1>4. QED
  BY <1>1, <1>3 DEF StepInv, Typed

(* serve begins a request with the function number it finds.               *)
LEMMA StepServe ==
  ASSUME StepInv, NEW id \in Programs, R!serve(id), UNCHANGED <<bearingVars, shinyVars>>
  PROVE  StepInv'
<1>0. UNCHANGED <<duty, mouse_down, resize, chosen, phase, exp_list>>
  BY DEF bearingVars, shinyVars
<1>1. PICK s, f : s = wire[AskCh(id)] /\ f = Head(s).val
  OBVIOUS
<1>2. /\ s # <<>> /\ req = R!Idle
      /\ req' = [func |-> f, id |-> id, want |-> R!Args[f], got |-> <<>>]
      /\ R!Receives(Rusk, id, ES_COMM_PORT, 1, <<>>)
      /\ UNCHANGED <<expanses, em, count, typed>>
  BY <1>1, RuskMessages DEF R!serve, R!Serving, R!Finds, R!Waiting, AskCh
<1>3. DOMAIN wire = Channels /\ DOMAIN out = Programs /\ wire[SelfCh] = <<>>
  BY DEF StepInv, Typed
<1>4. id \in Askers
  <2>1. id # Rusk
    BY <1>1, <1>2, <1>3 DEF AskCh, SelfCh
  <2>2. QED
    BY <2>1 DEF Programs, Askers
<1>5. /\ wire' = [wire EXCEPT ![AskCh(id)] = SubSeq(@, 1 + 1, Len(@))]
      /\ DOMAIN out' = Programs /\ \A p \in Askers : out'[p] = out[p]
  BY <1>2, <1>3, RuskTakes DEF AskCh
<1>6. /\ DOMAIN wire' = Channels /\ \A ch \in Channels : ch # AskCh(id) => wire'[ch] = wire[ch]
  BY <1>3, <1>5
<1>7. Answering' /\ wire'[SelfCh] = <<>>
  BY <1>0, <1>2, <1>4, <1>6, AnswersStay
<1>8. Typed'
  BY <1>0, <1>2, <1>5, <1>6, <1>7 DEF StepInv, Typed
<1>9. R!Idle.want = <<>> /\ R!Idle.id = None /\ R!Idle.func = "none"
  BY DEF R!Idle
<1>10. ASSUME NEW p \in Askers
       PROVE  Left(p) = <<>> /\ (p # id => Left(p)' = <<>>)
  BY <1>2, <1>9 DEF Left
<1>11. ASSUME NEW p \in Askers, p # id
       PROVE  wire'[AskCh(p)] = wire[AskCh(p)]
  BY <1>6, <1>11, ChannelsApart, AskApart
<1>12. ASSUME NEW p \in Askers, p # id, ~(p = Bearing /\ em = None)
       PROVE  Asks(p, Left(p)', wire'[AskCh(p)], out'[p])
  <2>1. Asks(p, Left(p), wire[AskCh(p)], out[p])
    BY <1>12 DEF StepInv, Asking
  <2>2. QED
    BY <1>5, <1>10, <1>11, <1>12, <2>1
<1>13. Started'
  BY <1>0, <1>2 DEF StepInv, Started
<1>14. CASE id = Bearing /\ em = None
  <2>1. duty = "register" /\ out[Bearing] = <<>> /\ s = << RegisterFunc >>
    BY <1>1, <1>2, <1>14 DEF StepInv, Registering
  <2>2. f = "register_em" /\ R!Args[f] = <<>>
    BY <1>1, <2>1, ArgsSpelled DEF RegisterFunc, Message
  <2>3. req' = Registration
    BY <1>2, <1>14, <2>2 DEF Registration
  <2>4. wire'[AskCh(Bearing)] = <<>>
    <3>1. wire'[AskCh(Bearing)] = SubSeq(s, 1 + 1, Len(s))
      BY <1>1, <1>3, <1>4, <1>5, <1>14, ChannelsApart
    <3>2. s \in Seq({RegisterFunc}) /\ Len(s) = 1
      BY <2>1
    <3>3. SubSeq(s, 2, 1) = <<>>
      BY <3>2
    <3>4. QED
      BY <3>1, <3>2, <3>3
  <2>5. Registering'
    BY <1>0, <1>2, <1>4, <1>5, <1>14, <2>1, <2>3, <2>4 DEF Registering
  <2>6. Asking'
    BY <1>2, <1>12, <1>14 DEF Asking
  <2>7. RequestRight'
    BY <1>2, <1>14, <2>3 DEF RequestRight
  <2>8. QED
    BY <1>7, <1>8, <1>13, <2>5, <2>6, <2>7 DEF StepInv
<1>15. CASE ~(id = Bearing /\ em = None)
  <2>1. Asks(id, <<>>, s, out[id])
    BY <1>1, <1>4, <1>10, <1>15 DEF StepInv, Asking
  <2>2. PICK u \in States : <<<<>>, Head(s), u>> \in RequestSteps(id) /\ Asks(id, u, Tail(s), out[id])
    BY <1>2, <2>1, AskPop
  <2>3. f \in Funcs(id) /\ u = Wanted(f)
    BY <1>1, <2>2, RequestStep, WantsAreStates
  <2>4. wire'[AskCh(id)] = Tail(s)
    <3>1. \E v : Path(RequestSteps(id), <<>>, s, v)
      BY <2>1 DEF Asks
    <3>2. QED
      BY <1>1, <1>2, <1>3, <1>4, <1>5, <3>1, ChannelsApart, Takes
  <2>5. Left(id)' = Wanted(f)
    <3>1. req'.want = R!Args[f] /\ req'.id = id
      BY <1>2
    <3>2. R!Args[f] = <<"events">> <=> f = "send_events"
      <4>1. f \in {"create", "remove", "draw", "update", "set_front", "send_events", "decorate"}
        BY <2>3 DEF Funcs, ClientFuncs, BearingFuncs
      <4>2. \A a, b : <<a, b>> # <<"events">> /\ (a # "events" => <<a>> # <<"events">>)
        OBVIOUS
      <4>3. QED
        BY <4>1, <4>2, ArgsSpelled
    <3>3. QED
      BY <3>1, <3>2 DEF Left, Wanted
  <2>6. Asking'
    <3>1. Asks(id, Left(id)', wire'[AskCh(id)], out'[id])
      BY <1>4, <1>5, <2>2, <2>3, <2>4, <2>5
    <3>2. QED
      BY <1>2, <1>12, <3>1 DEF Asking
  <2>7. RequestRight'
    <3>1. Progress(f, id, R!Args[f], <<>>)
      BY DEF Progress
    <3>2. /\ req'.func = f /\ req'.id = id /\ req'.want = R!Args[f] /\ req'.got = <<>>
      BY <1>2
    <3>3. QED
      BY <1>2, <1>4, <2>3, <3>1, <3>2 DEF RequestRight
  <2>8. Registering'
    <3>1. ASSUME em = None
          PROVE  req'.id # Bearing /\ wire'[AskCh(Bearing)] = wire[AskCh(Bearing)] /\ out'[Bearing] = out[Bearing]
      BY <1>2, <1>5, <1>11, <1>15, <3>1, ChannelsApart
    <3>2. req # Registration
      BY <1>2, <1>9 DEF Registration
    <3>3. QED
      BY <1>0, <1>2, <3>1, <3>2 DEF StepInv, Registering
  <2>9. QED
    BY <1>7, <1>8, <1>13, <2>6, <2>7, <2>8 DEF StepInv
<1>16. QED
  BY <1>14, <1>15

(* receive_data takes the argument it has found.                           *)
LEMMA StepReceive ==
  ASSUME StepInv, R!receive_data, UNCHANGED <<bearingVars, shinyVars>>
  PROVE  StepInv'
<1>0. UNCHANGED <<duty, mouse_down, resize, chosen, phase, exp_list>>
  BY DEF bearingVars, shinyVars
<1>1. req.want # <<>> /\ UNCHANGED <<expanses, em, count, typed>>
  BY DEF R!receive_data
<1>2. PICK ch, v : ch = R!Waiting(Rusk, R!ArgSender, R!ArgPort) /\ v = Head(ch).val
  OBVIOUS
<1>3. /\ ch # <<>> /\ req' = [req EXCEPT !.want = Tail(@), !.got = Append(@, v)]
      /\ R!Receives(Rusk, R!ArgSender, R!ArgPort, 1, <<>>)
  BY <1>2 DEF R!receive_data, R!Finds, R!Arguments, R!Gets
<1>5. CASE /\ ch # <<>> /\ req' = [req EXCEPT !.want = Tail(@), !.got = Append(@, v)]
           /\ R!Receives(Rusk, R!ArgSender, R!ArgPort, 1, <<>>)
  <2>1. req.func # "none" /\ req.func # "register_em"
    <3>1. req # R!Idle /\ req # Registration
      BY <1>1 DEF R!Idle, Registration
    <3>2. /\ req.func \in Funcs(req.id)
      BY <3>1 DEF StepInv, RequestRight
    <3>3. QED
      BY <3>2 DEF Funcs, ClientFuncs, BearingFuncs
  <2>2. PICK p, f, want, got : p = req.id /\ f = req.func /\ want = req.want /\ got = req.got
    OBVIOUS
  <2>3. /\ p \in Askers /\ f \in Funcs(p) /\ Progress(f, p, want, got) /\ want # <<>>
        /\ req = [func |-> f, id |-> p, want |-> want, got |-> got]
    BY <1>1, <2>1, <2>2, Asker DEF StepInv
  <2>4. req' = [func |-> f, id |-> p, want |-> Tail(want), got |-> Append(got, v)]
    BY <1>5, <2>3
  <2>5. ASSUME em = None
        PROVE  p # Bearing
    BY <1>1, <2>2, <2>5 DEF StepInv, Registering, Registration
  <2>6. DOMAIN wire = Channels /\ DOMAIN out = Programs /\ em \in {None, Bearing}
    BY DEF StepInv, Typed
  <2>7. Started'
    BY <1>0, <1>1 DEF StepInv, Started
  <2>8. RequestRight' \/ v \notin Values(p, Head(want))
    <3>1. ASSUME v \in Values(p, Head(want))
          PROVE  Progress(f, p, Tail(want), Append(got, v))
      BY <2>3, <3>1, ProgressNext
    <3>2. /\ req'.func = f /\ req'.id = p /\ req'.want = Tail(want) /\ req'.got = Append(got, v)
      BY <2>4
    <3>3. QED
      BY <2>3, <2>4, <3>1, <3>2 DEF RequestRight
  <2>9. ASSUME NEW q \in Askers, q # p
        PROVE  Left(q)' = Left(q)
    BY <2>2, <2>4, <2>9 DEF Left
  <2>10. CASE Head(want) = "events"
    <3>1. f = "send_events" /\ want = <<"events">> /\ Tail(want) = <<>>
      BY <2>3, <2>10, Wanting
    <3>2. p = Bearing
      BY <2>2, <3>1, OfBearing DEF StepInv, BearingFuncs
    <3>3. em = Bearing
      BY <2>5, <2>6, <3>2
    <3>4. R!ArgSender = Bearing /\ R!ArgPort = EVENT_COMM_PORT
      BY <2>2, <2>10, <3>3, RuskMessages DEF R!ArgSender, R!ArgPort
    <3>5. ch = wire[SortedCh]
      BY <1>2, <3>4 DEF R!Waiting, SortedCh
    <3>6. /\ wire' = [wire EXCEPT ![SortedCh] = SubSeq(@, 1 + 1, Len(@))]
          /\ DOMAIN out' = Programs /\ \A q \in Askers : out'[q] = out[q]
      BY <1>5, <2>6, <3>4, RuskTakes DEF SortedCh
    <3>7. Path(SortedSteps, "events", ch, "events")
      BY <3>5 DEF StepInv, Answering, Sorting
    <3>8. /\ DOMAIN wire' = Channels /\ wire'[SortedCh] = Tail(ch)
          /\ \A other \in Channels : other # SortedCh => wire'[other] = wire[other]
      BY <1>5, <2>6, <3>5, <3>6, <3>7, ChannelsApart, Takes
    <3>9. PICK u \in States : <<"events", Head(ch), u>> \in SortedSteps /\ Path(SortedSteps, u, Tail(ch), "events")
      BY <1>5, <3>7, PathHead
    <3>10. u = "events" /\ v \in Events
      <4>1. PICK l \in Events : <<"events", Head(ch), u>> = <<"events", Message("events", l), "events">>
        BY <3>9 DEF SortedSteps
      <4>2. Head(ch) = Message("events", l) /\ u = "events"
        BY <4>1, Triple
      <4>3. QED
        BY <1>2, <4>2 DEF Message
    <3>11. RequestRight'
      BY <2>8, <2>10, <3>10, ValuesSpelled
    <3>12. \A q \in Askers : Left(q)' = Left(q)
      <4>1. Left(p) = <<>> /\ Left(p)' = <<>>
        BY <2>2, <2>4, <3>1 DEF Left
      <4>2. QED
        BY <2>9, <4>1
    <3>13. Asking'
      <4>1. \A q \in Askers : wire'[AskCh(q)] = wire[AskCh(q)]
        BY <3>8, ChannelsApart, AskApart
      <4>2. QED
        BY <1>1, <3>6, <3>12, <4>1, Unasked DEF StepInv
    <3>14. Registering'
      BY <1>1, <3>3, WireAssumption DEF Registering
    <3>15. Answering'
      <4>1. /\ wire'[OrderCh] = wire[OrderCh] /\ wire'[ListCh] = wire[ListCh]
            /\ \A c \in Clients : wire'[ReplyCh(c)] = wire[ReplyCh(c)] /\ wire'[GiftCh(c)] = wire[GiftCh(c)]
        BY <3>8, ChannelsApart, OthersApart
      <4>2. Turn' = Turn
        BY <1>0 DEF Turn
      <4>3. Sorting'
        BY <3>8, <3>9, <3>10 DEF Sorting
      <4>4. QED
        BY <1>1, <4>1, <4>2, <4>3 DEF StepInv, Answering, Ordering, Listing, Replying, Giving
    <3>16. Typed'
      <4>1. wire'[SelfCh] = wire[SelfCh]
        BY <3>8, ChannelsApart, OthersApart
      <4>2. QED
        BY <1>0, <1>1, <3>6, <3>8, <4>1 DEF StepInv, Typed
    <3>17. QED
      BY <2>7, <3>11, <3>13, <3>14, <3>15, <3>16 DEF StepInv
  <2>11. CASE Head(want) # "events"
    <3>1. want \in Wants /\ Tail(want) # <<"events">> /\ want # <<"events">>
      <4>1. want \in Wants /\ Tail(want) # <<"events">>
        BY <2>3, <2>11, Wanting
      <4>2. Head(<<"events">>) = "events"
        OBVIOUS
      <4>3. QED
        BY <2>11, <4>1, <4>2
    <3>2. R!ArgSender = p /\ R!ArgPort = ES_COMM_PORT
      BY <2>2, <2>11, RuskMessages DEF R!ArgSender, R!ArgPort
    <3>3. ch = wire[AskCh(p)]
      BY <1>2, <3>2 DEF R!Waiting, AskCh
    <3>4. Left(p) = want /\ Left(p)' = Tail(want)
      BY <2>2, <2>4, <3>1 DEF Left
    <3>5. Asks(p, want, ch, out[p])
      BY <2>3, <2>5, <3>3, <3>4 DEF StepInv, Asking
    <3>6. PICK u \in States : <<want, Head(ch), u>> \in RequestSteps(p) /\ Asks(p, u, Tail(ch), out[p])
      BY <1>5, <3>5, AskPop
    <3>7. v \in Values(p, Head(want)) /\ u = Tail(want)
      BY <1>2, <2>3, <3>6, RequestStep
    <3>8. /\ wire' = [wire EXCEPT ![AskCh(p)] = SubSeq(@, 1 + 1, Len(@))]
          /\ DOMAIN out' = Programs /\ \A q \in Askers : out'[q] = out[q]
      BY <1>5, <2>6, <3>2, RuskTakes DEF AskCh
    <3>9. /\ DOMAIN wire' = Channels /\ wire'[AskCh(p)] = Tail(ch)
          /\ \A other \in Channels : other # AskCh(p) => wire'[other] = wire[other]
      <4>1. \E x : Path(RequestSteps(p), want, ch, x)
        BY <3>5 DEF Asks
      <4>2. QED
        BY <1>5, <2>3, <2>6, <3>3, <3>8, <4>1, ChannelsApart, Takes
    <3>10. RequestRight'
      BY <2>8, <3>7
    <3>11. Asking'
      <4>1. ASSUME NEW q \in Askers, ~(q = Bearing /\ em = None)
            PROVE  Asks(q, Left(q)', wire'[AskCh(q)], out'[q])
        <5>1. CASE q = p
          BY <3>4, <3>6, <3>7, <3>8, <3>9, <5>1
        <5>2. CASE q # p
          <6>1. wire'[AskCh(q)] = wire[AskCh(q)]
            BY <3>9, <5>2, ChannelsApart, AskApart
          <6>2. Asks(q, Left(q), wire[AskCh(q)], out[q])
            BY <4>1 DEF StepInv, Asking
          <6>3. QED
            BY <2>9, <3>8, <5>2, <6>1, <6>2
        <5>3. QED
          BY <5>1, <5>2
      <4>2. QED
        BY <1>1, <4>1 DEF Asking
    <3>12. Registering'
      <4>1. ASSUME em = None
            PROVE  /\ req'.id # Bearing /\ out'[Bearing] = out[Bearing] /\ req # Registration
                   /\ wire'[AskCh(Bearing)] = wire[AskCh(Bearing)]
        <5>1. p # Bearing
          BY <2>5, <4>1
        <5>2. wire'[AskCh(Bearing)] = wire[AskCh(Bearing)]
          BY <3>9, <5>1, ChannelsApart, AskApart
        <5>3. req'.id = p /\ req.id = p
          BY <2>2, <2>4
        <5>4. req # Registration
          BY <5>1, <5>3 DEF Registration
        <5>5. QED
          BY <3>8, <5>1, <5>2, <5>3, <5>4, ChannelsApart
      <4>2. QED
        BY <1>0, <1>1, <4>1 DEF StepInv, Registering
    <3>13. Answering' /\ wire'[SelfCh] = <<>>
      BY <1>0, <1>1, <2>3, <3>9, AnswersStay
    <3>14. Typed'
      BY <1>0, <1>1, <3>8, <3>9, <3>13 DEF StepInv, Typed
    <3>15. QED
      BY <2>7, <3>10, <3>11, <3>12, <3>13, <3>14 DEF StepInv
  <2>12. QED
    BY <2>10, <2>11
<1>6. QED
  BY <1>3, <1>5

(***************************************************************************)
(* What is sent to rusk.                                                   *)
(***************************************************************************)

LEMMA Appends ==
  ASSUME NEW ch \in Channels, DOMAIN wire = Channels, NEW m,
         wire' = [wire EXCEPT ![ch] = Append(@, m)]
  PROVE  /\ DOMAIN wire' = Channels /\ wire'[ch] = Append(wire[ch], m)
         /\ \A other \in Channels : other # ch => wire'[other] = wire[other]
OBVIOUS

(* What one program has to send changes.                                   *)
LEMMA Outs ==
  ASSUME NEW p \in Askers, DOMAIN out = Programs, NEW o, out' = [out EXCEPT ![p] = o]
  PROVE  /\ DOMAIN out' = Programs /\ out'[p] = o
         /\ \A q \in Askers : q # p => out'[q] = out[q]
BY ChannelsApart

(* A program's next system call moves its next message into a channel.     *)
LEMMA StepSends ==
  ASSUME StepInv, NEW p \in Askers, ~(p = Bearing /\ em = None), out[p] # <<>>,
         NEW x, x = Head(out[p]),
         wire' = [wire EXCEPT ![<<p, x.to, x.port>>] = Append(@, x.msg)],
         out' = [out EXCEPT ![p] = Tail(@)],
         UNCHANGED <<expanses, em, count, req, typed, duty, mouse_down, resize, chosen, phase, exp_list>>
  PROVE  StepInv'
<1>1. DOMAIN wire = Channels /\ DOMAIN out = Programs /\ wire[SelfCh] = <<>>
  BY DEF StepInv, Typed
<1>2. /\ DOMAIN out' = Programs /\ out'[p] = Tail(out[p])
      /\ \A q \in Askers : q # p => out'[q] = out[q]
  BY <1>1, Outs
<1>3. Asks(p, Left(p), wire[AskCh(p)], out[p])
  BY DEF StepInv, Asking
<1>4. \A q : Left(q)' = Left(q)
  BY DEF Left
<1>5. RequestRight' /\ Started'
  BY DEF StepInv, RequestRight, Progress, Started
<1>6. Turn' = Turn
  BY DEF Turn
<1>7. CASE /\ x = Posting(ES_COMM_PORT, x.msg)
           /\ Asks(p, Left(p), Append(wire[AskCh(p)], x.msg), Tail(out[p]))
  <2>1. x.to = Rusk /\ x.port = ES_COMM_PORT
    BY <1>7 DEF Posting
  <2>2. wire' = [wire EXCEPT ![AskCh(p)] = Append(@, x.msg)]
    BY <2>1 DEF AskCh
  <2>3. /\ DOMAIN wire' = Channels /\ wire'[AskCh(p)] = Append(wire[AskCh(p)], x.msg)
        /\ \A other \in Channels : other # AskCh(p) => wire'[other] = wire[other]
    BY <1>1, <2>2, Appends, ChannelsApart
  <2>4. Answering' /\ wire'[SelfCh] = <<>>
    BY <2>3, AnswersStay
  <2>5. ASSUME NEW q \in Askers, q # p
        PROVE  wire'[AskCh(q)] = wire[AskCh(q)]
    BY <2>3, <2>5, ChannelsApart, AskApart
  <2>6. Asking'
    <3>1. Asks(p, Left(p)', wire'[AskCh(p)], out'[p])
      BY <1>2, <1>4, <1>7, <2>3
    <3>2. ASSUME NEW q \in Askers, q # p, ~(q = Bearing /\ em = None)
          PROVE  Asks(q, Left(q)', wire'[AskCh(q)], out'[q])
      <4>1. Asks(q, Left(q), wire[AskCh(q)], out[q])
        BY <3>2 DEF StepInv, Asking
      <4>2. QED
        BY <1>2, <1>4, <2>5, <3>2, <4>1
    <3>3. QED
      BY <3>1, <3>2 DEF Asking
  <2>7. Registering'
    <3>1. ASSUME em = None
          PROVE  out'[Bearing] = out[Bearing] /\ wire'[AskCh(Bearing)] = wire[AskCh(Bearing)]
      BY <1>2, <2>5, <3>1, ChannelsApart
    <3>2. QED
      BY <3>1 DEF StepInv, Registering
  <2>8. Typed'
    BY <1>2, <2>3, <2>4 DEF StepInv, Typed
  <2>9. QED
    BY <1>5, <2>4, <2>6, <2>7, <2>8 DEF StepInv
<1>8. CASE /\ p = Bearing /\ \E l \in Events : x = SortedPost(l)
           /\ Asks(p, Left(p), wire[AskCh(p)], Tail(out[p]))
  <2>1. PICK l \in Events : x = SortedPost(l)
    BY <1>8
  <2>2. x.to = Rusk /\ x.port = EVENT_COMM_PORT /\ x.msg = Message("events", l)
    BY <2>1 DEF SortedPost, Posting
  <2>3. wire' = [wire EXCEPT ![SortedCh] = Append(@, x.msg)]
    BY <1>8, <2>2 DEF SortedCh
  <2>4. /\ DOMAIN wire' = Channels /\ wire'[SortedCh] = Append(wire[SortedCh], x.msg)
        /\ \A other \in Channels : other # SortedCh => wire'[other] = wire[other]
    BY <1>1, <2>3, Appends, ChannelsApart
  <2>5. Sorting'
    <3>1. Path(SortedSteps, "events", wire[SortedCh], "events")
      BY DEF StepInv, Answering, Sorting
    <3>2. <<"events", x.msg, "events">> \in SortedSteps
      BY <2>2 DEF SortedSteps
    <3>3. Path(SortedSteps, "events", <<x.msg>>, "events")
      BY <3>2, PathOne, NamesOfStates
    <3>4. Path(SortedSteps, "events", wire[SortedCh] \o <<x.msg>>, "events")
      BY <3>1, <3>3, PathCat
    <3>5. Append(wire[SortedCh], x.msg) = wire[SortedCh] \o <<x.msg>>
      BY <3>1, <3>2, PathEnds, Labelled, AppendIsConcat
    <3>6. QED
      BY <2>4, <3>4, <3>5 DEF Sorting
  <2>6. Answering' /\ wire'[SelfCh] = <<>>
    <3>1. /\ wire'[OrderCh] = wire[OrderCh] /\ wire'[ListCh] = wire[ListCh]
          /\ wire'[SelfCh] = wire[SelfCh]
          /\ \A c \in Clients : wire'[ReplyCh(c)] = wire[ReplyCh(c)] /\ wire'[GiftCh(c)] = wire[GiftCh(c)]
      BY <2>4, ChannelsApart, OthersApart
    <3>2. QED
      BY <1>1, <1>6, <2>5, <3>1 DEF StepInv, Answering, Ordering, Listing, Replying, Giving
  <2>7. \A q \in Askers : wire'[AskCh(q)] = wire[AskCh(q)]
    BY <2>4, ChannelsApart, AskApart
  <2>8. Asking'
    <3>1. Asks(p, Left(p)', wire'[AskCh(p)], out'[p])
      BY <1>2, <1>4, <1>8, <2>7
    <3>2. ASSUME NEW q \in Askers, q # p
          PROVE  Asks(q, Left(q)', wire'[AskCh(q)], out'[q])
      <4>1. Asks(q, Left(q), wire[AskCh(q)], out[q])
        BY <1>8, <3>2 DEF StepInv, Asking
      <4>2. QED
        BY <1>2, <1>4, <2>7, <3>2, <4>1
    <3>3. QED
      BY <3>1, <3>2 DEF Asking
  <2>9. Registering'
    BY <1>8 DEF Registering
  <2>10. Typed'
    BY <1>2, <2>4, <2>6 DEF StepInv, Typed
  <2>11. QED
    BY <1>5, <2>6, <2>8, <2>9, <2>10 DEF StepInv
<1>9. QED
  BY <1>3, <1>7, <1>8, AskSend

(***************************************************************************)
(* The manager.                                                            *)
(***************************************************************************)

LEMMA StepBearingSends ==
  ASSUME StepInv, B!send(Bearing), UNCHANGED <<ruskVars, bearingVars, shinyVars>>
  PROVE  StepInv'
<1>0. UNCHANGED <<expanses, em, count, req, typed, duty, mouse_down, resize, chosen, phase, exp_list>>
  BY DEF ruskVars, bearingVars, shinyVars
<1>1. PICK x : x = Head(out[Bearing])
  OBVIOUS
<1>2. /\ out[Bearing] # <<>>
      /\ wire' = [wire EXCEPT ![<<Bearing, x.to, x.port>>] = Append(@, x.msg)]
      /\ out' = [out EXCEPT ![Bearing] = Tail(@)]
  BY <1>1 DEF B!send
<1>3. CASE em # None
  BY <1>0, <1>1, <1>2, <1>3, StepSends, ChannelsApart
<1>4. CASE em = None
  <2>1. /\ duty = "register" /\ out[Bearing] = << Posting(ES_COMM_PORT, RegisterFunc) >>
        /\ wire[AskCh(Bearing)] = <<>> /\ req.id # Bearing
    BY <1>2, <1>4 DEF StepInv, Registering
  <2>2. x = Posting(ES_COMM_PORT, RegisterFunc) /\ Tail(out[Bearing]) = <<>>
    BY <1>1, <2>1
  <2>3. x.to = Rusk /\ x.port = ES_COMM_PORT /\ x.msg = RegisterFunc
    BY <2>2 DEF Posting
  <2>4. DOMAIN wire = Channels /\ DOMAIN out = Programs /\ wire[SelfCh] = <<>>
    BY DEF StepInv, Typed
  <2>5. wire' = [wire EXCEPT ![AskCh(Bearing)] = Append(@, x.msg)]
    BY <1>2, <2>3 DEF AskCh
  <2>6. /\ DOMAIN wire' = Channels /\ wire'[AskCh(Bearing)] = Append(wire[AskCh(Bearing)], x.msg)
        /\ \A other \in Channels : other # AskCh(Bearing) => wire'[other] = wire[other]
    BY <2>4, <2>5, Appends, ChannelsApart
  <2>7. wire'[AskCh(Bearing)] = << RegisterFunc >>
    BY <2>1, <2>3, <2>6, Appended
  <2>8. /\ DOMAIN out' = Programs /\ out'[Bearing] = <<>>
        /\ \A q \in Askers : q # Bearing => out'[q] = out[q]
    <3>1. out' = [out EXCEPT ![Bearing] = <<>>]
      BY <1>2, <2>2
    <3>2. QED
      BY <2>4, <3>1, Outs, ChannelsApart
  <2>9. Answering' /\ wire'[SelfCh] = <<>>
    BY <1>0, <2>6, AnswersStay, ChannelsApart
  <2>10. Asking'
    <3>1. ASSUME NEW q \in Askers, q # Bearing
          PROVE  Asks(q, Left(q)', wire'[AskCh(q)], out'[q])
      <4>1. Asks(q, Left(q), wire[AskCh(q)], out[q])
        BY <3>1 DEF StepInv, Asking
      <4>2. wire'[AskCh(q)] = wire[AskCh(q)] /\ Left(q)' = Left(q)
        BY <1>0, <2>6, <3>1, ChannelsApart, AskApart DEF Left
      <4>3. QED
        BY <2>8, <3>1, <4>1, <4>2
    <3>2. QED
      BY <1>0, <1>4, <3>1 DEF Asking
  <2>11. Registering'
    BY <1>0, <2>1, <2>7, <2>8 DEF Registering
  <2>12. RequestRight' /\ Started'
    BY <1>0 DEF StepInv, RequestRight, Progress, Started
  <2>13. Typed'
    BY <1>0, <2>6, <2>8, <2>9 DEF StepInv, Typed
  <2>14. QED
    BY <2>9, <2>10, <2>11, <2>12, <2>13 DEF StepInv
<1>5. QED
  BY <1>3, <1>4

(* The steps of the orders.                                                *)
LEMMA OrderStep ==
  ASSUME NEW w, NEW m, NEW u, <<w, m, u>> \in OrderSteps
  PROVE  \/ w = "register" /\ m.type = "bool" /\ u = "serve"
         \/ w = "serve" /\ m.type = "func" /\ m.val = "handle_events" /\ u = "serve"
         \/ w = "serve" /\ m.type = "func" /\ m.val = "init_expanse" /\ u = "init_expanse"
         \/ w = "init_expanse" /\ m.type = "expanse" /\ m.val \in Exp /\ u = "serve"
<1>1. CASE <<w, m, u>> \in { <<"register", Message("bool", TRUE), "serve">>,
                             <<"serve", Message("func", "handle_events"), "serve">>,
                             <<"serve", Message("func", "init_expanse"), "init_expanse">> }
  <2>1. \/ w = "register" /\ m = Message("bool", TRUE) /\ u = "serve"
        \/ w = "serve" /\ m = Message("func", "handle_events") /\ u = "serve"
        \/ w = "serve" /\ m = Message("func", "init_expanse") /\ u = "init_expanse"
    BY <1>1, Triple
  <2>2. QED
    BY <2>1 DEF Message
<1>2. CASE <<w, m, u>> \in {<<"init_expanse", Message("expanse", e), "serve">> : e \in Exp}
  <2>1. PICK e \in Exp : <<w, m, u>> = <<"init_expanse", Message("expanse", e), "serve">>
    BY <1>2
  <2>2. w = "init_expanse" /\ m = Message("expanse", e) /\ u = "serve"
    BY <2>1, Triple
  <2>3. QED
    BY <2>2 DEF Message
<1>3. QED
  BY <1>1, <1>2 DEF OrderSteps

(* The steps of the lists with events.                                     *)
LEMMA ListStep ==
  ASSUME NEW w, NEW m, NEW u, <<w, m, u>> \in ListSteps
  PROVE  \/ w = "list" /\ m.type = "list" /\ m.val \in Seq(Exp) /\ u = "events"
         \/ w = "events" /\ m.type = "events" /\ m.val \in Events /\ u = "list"
<1>1. CASE <<w, m, u>> \in {<<"list", Message("list", l), "events">> : l \in Seq(Exp)}
  <2>1. PICK l \in Seq(Exp) : <<w, m, u>> = <<"list", Message("list", l), "events">>
    BY <1>1
  <2>2. w = "list" /\ m = Message("list", l) /\ u = "events"
    BY <2>1, Triple
  <2>3. QED
    BY <2>2 DEF Message
<1>2. CASE <<w, m, u>> \in {<<"events", Message("events", l), "list">> : l \in Events}
  <2>1. PICK l \in Events : <<w, m, u>> = <<"events", Message("events", l), "list">>
    BY <1>2
  <2>2. w = "events" /\ m = Message("events", l) /\ u = "list"
    BY <2>1, Triple
  <2>3. QED
    BY <2>2 DEF Message
<1>3. QED
  BY <1>1, <1>2 DEF ListSteps

(* Nothing comes before the answer to the registration.                    *)
LEMMA Unregistered ==
  ASSUME NEW w, NEW s, Path(OrderSteps, w, s, "register")
  PROVE  s = <<>>
<1>1. PICK L : L = Labels(OrderSteps)
  OBVIOUS
<1>2. PICK q \in Seq(L) : q = s
  BY <1>1 DEF Path
<1>3. PICK st \in [0 .. Len(q) -> States] : Follows(OrderSteps, w, q, "register", st)
  BY <1>2 DEF Path
<1>4. PICK n \in Nat : n = Len(q)
  BY <1>2
<1>5. CASE n = 0
  BY <1>2, <1>4, <1>5, EmptySeq
<1>6. CASE n # 0
  <2>1. n \in 1 .. n
    BY <1>6
  <2>2. <<st[n - 1], q[n], st[n]>> \in OrderSteps /\ st[n] = "register"
    BY <1>3, <1>4, <2>1 DEF Follows
  <2>3. QED
    BY <2>2, OrderStep
<1>7. QED
  BY <1>5, <1>6

(* What is left when two messages were taken.                              *)
LEMMA TakenTwo ==
  ASSUME NEW T, NEW w, NEW s, NEW v, Path(T, w, s, v), Len(s) >= 2
  PROVE  /\ s # <<>> /\ Tail(s) # <<>>
         /\ s[1] = Head(s) /\ s[2] = Head(Tail(s))
         /\ SubSeq(s, 2 + 1, Len(s)) = Tail(Tail(s))
<1>1. PICK L : L = Labels(T)
  OBVIOUS
<1>2. PICK q \in Seq(L) : q = s
  BY <1>1 DEF Path
<1>3. PICK n \in Nat : n = Len(q) /\ n >= 2
  BY <1>2
<1>4. PICK r \in Seq(L) : r = Tail(q) /\ Len(r) = n - 1 /\ \A i \in 1 .. n - 1 : r[i] = q[i + 1]
  <2>1. q # <<>>
    BY <1>3
  <2>2. Tail(q) \in Seq(L) /\ Len(Tail(q)) = n - 1 /\ \A i \in 1 .. n - 1 : Tail(q)[i] = q[i + 1]
    BY <1>3, <2>1
  <2>3. QED
    BY <2>2
<1>5. PICK t \in Seq(L) : t = Tail(r) /\ Len(t) = n - 2 /\ \A i \in 1 .. n - 2 : t[i] = r[i + 1]
  <2>1. r # <<>>
    <3>1. Len(r) # 0
      BY <1>3, <1>4
    <3>2. Len(<<>>) = 0
      OBVIOUS
    <3>3. QED
      BY <3>1, <3>2, Zenon
  <2>2. Tail(r) \in Seq(L) /\ Len(Tail(r)) = n - 2 /\ \A i \in 1 .. n - 2 : Tail(r)[i] = r[i + 1]
    BY <1>3, <1>4, <2>1
  <2>3. QED
    BY <2>2
<1>6. PICK z \in Seq(L) : z = SubSeq(q, 3, n) /\ Len(z) = n - 2 /\ \A i \in 1 .. n - 2 : z[i] = q[i + 2]
  <2>1. SubSeq(q, 3, n) \in Seq(L) /\ Len(SubSeq(q, 3, n)) = n - 2
    BY <1>3
  <2>2. \A i \in 1 .. n - 2 : SubSeq(q, 3, n)[i] = q[i + 2]
    BY <1>3, <2>1
  <2>3. QED
    BY <2>1, <2>2
<1>7. \A i \in 1 .. Len(z) : z[i] = t[i]
  <2>1. ASSUME NEW i \in 1 .. n - 2
        PROVE  z[i] = t[i]
    <3>1. i + 1 \in 1 .. n - 1 /\ i + 1 + 1 = i + 2
      BY <1>3
    <3>2. t[i] = r[i + 1] /\ r[i + 1] = q[i + 1 + 1]
      BY <1>4, <1>5, <3>1
    <3>3. QED
      BY <1>6, <3>1, <3>2
  <2>2. QED
    BY <1>6, <2>1
<1>8. z = t
  BY <1>5, <1>6, <1>7, SeqEqual
<1>9. q # <<>> /\ r # <<>> /\ q[1] = Head(q) /\ q[2] = Head(r)
  <2>1. q # <<>> /\ r # <<>>
    <3>1. Len(r) # 0 /\ Len(q) # 0
      BY <1>3, <1>4
    <3>2. Len(<<>>) = 0
      OBVIOUS
    <3>3. QED
      BY <3>1, <3>2, Zenon
  <2>2. Head(q) = q[1] /\ Head(r) = r[1]
    BY <2>1
  <2>3. r[1] = q[2]
    BY <1>3, <1>4
  <2>4. QED
    BY <2>1, <2>2, <2>3
<1>10. 2 + 1 = 3
  OBVIOUS
<1>11. QED
  BY <1>2, <1>3, <1>4, <1>5, <1>6, <1>8, <1>9, <1>10

(* When the manager begins a whole request, or none.                       *)
LEMMA BearingAsks ==
  ASSUME StepInv, em # None, out[Bearing] = <<>>, UNCHANGED <<em, req>>,
         NEW o, Whole(Bearing, o), out' = [out EXCEPT ![Bearing] = o], duty' # "start",
         \A p \in Askers : wire'[AskCh(p)] = wire[AskCh(p)]
  PROVE  RequestRight' /\ Asking' /\ Registering' /\ Started' /\ DOMAIN out' = Programs
<1>1. DOMAIN out = Programs
  BY DEF StepInv, Typed
<1>2. /\ DOMAIN out' = Programs /\ out'[Bearing] = o
      /\ \A q \in Askers : q # Bearing => out'[q] = out[q]
  BY <1>1, Outs, ChannelsApart
<1>3. \A q : Left(q)' = Left(q)
  BY DEF Left
<1>4. ASSUME NEW q \in Askers
      PROVE  Asks(q, Left(q)', wire'[AskCh(q)], out'[q])
  <2>1. Asks(q, Left(q), wire[AskCh(q)], out[q])
    BY DEF StepInv, Asking
  <2>2. CASE q = Bearing
    <3>1. Asks(Bearing, Left(q), wire[AskCh(q)], <<>>)
      BY <2>1, <2>2
    <3>2. Asks(Bearing, Left(q), wire[AskCh(q)], o)
      BY <3>1, AskNew
    <3>3. QED
      BY <1>2, <1>3, <2>2, <3>2
  <2>3. CASE q # Bearing
    BY <1>2, <1>3, <2>1, <2>3
  <2>4. QED
    BY <2>2, <2>3
<1>5. Asking' /\ Registering' /\ Started' /\ RequestRight'
  BY <1>4 DEF StepInv, Asking, Registering, Started, RequestRight, Progress
<1>6. QED
  BY <1>2, <1>5

(* When the manager takes something from an order or list channel.         *)
LEMMA OthersAnswered ==
  ASSUME StepInv, UNCHANGED <<em>>,
         \A ch \in Channels : ch # OrderCh /\ ch # ListCh => wire'[ch] = wire[ch],
         Ordering', Listing'
  PROVE  /\ Answering' /\ wire'[SelfCh] = <<>>
         /\ \A p \in Askers : wire'[AskCh(p)] = wire[AskCh(p)]
<1>1. /\ wire'[SortedCh] = wire[SortedCh] /\ wire'[SelfCh] = wire[SelfCh]
      /\ \A c \in Clients : wire'[ReplyCh(c)] = wire[ReplyCh(c)] /\ wire'[GiftCh(c)] = wire[GiftCh(c)]
      /\ \A p \in Askers : wire'[AskCh(p)] = wire[AskCh(p)]
  BY ChannelsApart, AskApart, OthersApart
<1>2. QED
  BY <1>1 DEF StepInv, Typed, Answering, Replying, Giving, Sorting

(* The manager's messages and ports are everybody's.                       *)
LEMMA BearingMessages ==
  /\ B!ES_COMM_PORT = ES_COMM_PORT /\ B!EVENT_COMM_PORT = EVENT_COMM_PORT
  /\ B!Waiting(Bearing, Rusk, ES_COMM_PORT) = wire[OrderCh]
  /\ B!Waiting(Bearing, Rusk, EVENT_COMM_PORT) = wire[ListCh]
  /\ B!Func("register_em") = Posting(ES_COMM_PORT, RegisterFunc)
BY DEF B!ES_COMM_PORT, B!EVENT_COMM_PORT, B!Waiting, ES_COMM_PORT, EVENT_COMM_PORT, OrderCh, ListCh,
       B!Func, B!To, B!Message, Posting, RegisterFunc, Message

(* What it changes that the manager receives.                              *)
LEMMA BearingReceives ==
  ASSUME NEW o, NEW n, NEW port, B!Receives(Bearing, Rusk, port, n, o)
  PROVE  /\ wire' = [wire EXCEPT ![<<Rusk, Bearing, port>>] = SubSeq(@, n + 1, Len(@))]
         /\ out' = [out EXCEPT ![Bearing] = o]
BY DEF B!Receives

(* Whoever finds an order is registered.                                   *)
LEMMA OrderedIsRegistered ==
  ASSUME StepInv, wire[OrderCh] # <<>>
  PROVE  em # None
<1>1. Path(OrderSteps, Turn, wire[OrderCh], IF em = None THEN "register" ELSE "serve")
  BY DEF StepInv, Answering, Ordering
<1>2. QED
  BY <1>1, Unregistered

(* The manager takes an order and does what it says.                       *)
LEMMA StepOrder ==
  ASSUME StepInv, out[Bearing] = <<>>, wire[OrderCh] # <<>>,
         NEW o, Whole(Bearing, o), B!Receives(Bearing, Rusk, ES_COMM_PORT, 1, o),
         UNCHANGED <<expanses, em, count, req, typed, mouse_down, resize, chosen, phase, exp_list>>,
         \A u : <<Turn, Head(wire[OrderCh]), u>> \in OrderSteps =>
                  duty' \in Duties /\ duty' # "start" /\ Turn' = u
  PROVE  StepInv'
<1>1. em # None /\ em' = em
  BY OrderedIsRegistered
<1>2. DOMAIN wire = Channels /\ DOMAIN out = Programs /\ wire[SelfCh] = <<>>
  BY DEF StepInv, Typed
<1>3. Path(OrderSteps, Turn, wire[OrderCh], "serve")
  BY <1>1 DEF StepInv, Answering, Ordering
<1>4. PICK u \in States :
        <<Turn, Head(wire[OrderCh]), u>> \in OrderSteps /\ Path(OrderSteps, u, Tail(wire[OrderCh]), "serve")
  BY <1>3, PathHead
<1>5. duty' \in Duties /\ duty' # "start" /\ Turn' = u
  BY <1>4
<1>6. /\ wire' = [wire EXCEPT ![OrderCh] = SubSeq(@, 1 + 1, Len(@))]
      /\ out' = [out EXCEPT ![Bearing] = o]
  BY BearingReceives DEF OrderCh
<1>7. /\ DOMAIN wire' = Channels /\ wire'[OrderCh] = Tail(wire[OrderCh])
      /\ \A other \in Channels : other # OrderCh => wire'[other] = wire[other]
  BY <1>2, <1>3, <1>6, ChannelsApart, Takes
<1>8. Ordering'
  BY <1>1, <1>4, <1>5, <1>7 DEF Ordering
<1>9. Listing'
  BY <1>7, ChannelsApart, OthersApart DEF StepInv, Answering, Listing
<1>10. /\ Answering' /\ wire'[SelfCh] = <<>>
       /\ \A p \in Askers : wire'[AskCh(p)] = wire[AskCh(p)]
  BY <1>1, <1>7, <1>8, <1>9, OthersAnswered
<1>11. RequestRight' /\ Asking' /\ Registering' /\ Started' /\ DOMAIN out' = Programs
  BY <1>1, <1>5, <1>6, <1>10, BearingAsks
<1>12. Typed'
  BY <1>1, <1>5, <1>7, <1>10, <1>11 DEF StepInv, Typed
<1>13. QED
  BY <1>10, <1>11, <1>12 DEF StepInv

(* The manager asks to be registered.                                      *)
LEMMA StepRegisters ==
  ASSUME StepInv, B!register_em, UNCHANGED <<ruskVars, shinyVars>>
  PROVE  StepInv'
<1>1. /\ out[Bearing] = <<>> /\ duty = "start" /\ duty' = "register"
      /\ out' = [out EXCEPT ![Bearing] = << Posting(ES_COMM_PORT, RegisterFunc) >>]
      /\ UNCHANGED <<wire, expanses, em, count, req, typed, mouse_down, resize, chosen, phase, exp_list>>
  BY BearingMessages DEF B!register_em, B!Free, B!Sends, ruskVars, shinyVars
<1>2. em = None /\ wire[AskCh(Bearing)] = <<>> /\ req.id # Bearing /\ DOMAIN out = Programs
  BY <1>1 DEF StepInv, Typed, Started, Registering
<1>3. /\ DOMAIN out' = Programs /\ out'[Bearing] = << Posting(ES_COMM_PORT, RegisterFunc) >>
      /\ \A q \in Askers : q # Bearing => out'[q] = out[q]
  BY <1>1, <1>2, Outs, ChannelsApart
<1>4. Turn' = Turn
  BY <1>1 DEF Turn
<1>5. Answering'
  BY <1>1, <1>4, Unanswered DEF StepInv
<1>6. Asking'
  BY <1>1, <1>2, <1>3 DEF StepInv, Asking, Left
<1>7. Registering' /\ Started'
  BY <1>1, <1>2, <1>3 DEF Registering, Started
<1>8. RequestRight'
  BY <1>1 DEF StepInv, RequestRight, Progress
<1>9. Typed'
  BY <1>1, <1>3 DEF StepInv, Typed, Duties
<1>10. QED
  BY <1>5, <1>6, <1>7, <1>8, <1>9 DEF StepInv

(* The manager is accepted.                                                *)
LEMMA StepRegistered ==
  ASSUME StepInv, B!registered, UNCHANGED <<ruskVars, shinyVars>>
  PROVE  StepInv'
<1>1. /\ out[Bearing] = <<>> /\ duty = "register" /\ duty' = "serve" /\ wire[OrderCh] # <<>>
      /\ B!Receives(Bearing, Rusk, ES_COMM_PORT, 1, <<>>)
      /\ UNCHANGED <<expanses, em, count, req, typed, mouse_down, resize, chosen, phase, exp_list>>
  BY BearingMessages DEF B!registered, B!Free, ruskVars, shinyVars
<1>2. Turn = "register" /\ Turn' = "serve" /\ duty' \in Duties /\ duty' # "start"
  BY <1>1 DEF Turn, Duties
<1>3. ASSUME NEW u, <<Turn, Head(wire[OrderCh]), u>> \in OrderSteps
      PROVE  duty' \in Duties /\ duty' # "start" /\ Turn' = u
  BY <1>2, <1>3, OrderStep
<1>4. QED
  BY <1>1, <1>3, StepOrder, WholeNone

(* The manager is told what to do next.                                    *)
LEMMA StepServes ==
  ASSUME StepInv, B!serve, UNCHANGED <<ruskVars, shinyVars>>
  PROVE  StepInv'
<1>1. /\ out[Bearing] = <<>> /\ duty = "serve" /\ duty' = Head(wire[OrderCh]).val /\ wire[OrderCh] # <<>>
      /\ B!Receives(Bearing, Rusk, ES_COMM_PORT, 1, <<>>)
      /\ UNCHANGED <<expanses, em, count, req, typed, mouse_down, resize, chosen, phase, exp_list>>
  BY BearingMessages DEF B!serve, B!Free, ruskVars, shinyVars
<1>2. Turn = "serve"
  BY <1>1 DEF Turn
<1>3. ASSUME NEW u, <<Turn, Head(wire[OrderCh]), u>> \in OrderSteps
      PROVE  duty' \in Duties /\ duty' # "start" /\ Turn' = u
  <2>1. \/ duty' = "handle_events" /\ u = "serve"
        \/ duty' = "init_expanse" /\ u = "init_expanse"
    BY <1>1, <1>2, <1>3, OrderStep
  <2>2. QED
    BY <2>1 DEF Turn, Duties
<1>4. QED
  BY <1>1, <1>3, StepOrder, WholeNone

(* The manager gives a new expanse its place and its border.               *)
LEMMA StepPlaces ==
  ASSUME StepInv, B!init_expanse, UNCHANGED <<ruskVars, shinyVars>>
  PROVE  StepInv'
<1>1. PICK e : e = [Head(wire[OrderCh]).val EXCEPT !.place = 1]
  OBVIOUS
<1>2. /\ out[Bearing] = <<>> /\ duty = "init_expanse" /\ duty' = "serve" /\ wire[OrderCh] # <<>>
      /\ B!Receives(Bearing, Rusk, ES_COMM_PORT, 1, B!update(e) \o B!setup_borders(e, "grey"))
      /\ UNCHANGED <<expanses, em, count, req, typed, mouse_down, resize, chosen, phase, exp_list>>
  BY <1>1, BearingMessages DEF B!init_expanse, B!Free, ruskVars, shinyVars
<1>3. Turn = "init_expanse" /\ Turn' = "serve" /\ duty' \in Duties /\ duty' # "start"
  BY <1>2 DEF Turn, Duties
<1>4. ASSUME NEW u, <<Turn, Head(wire[OrderCh]), u>> \in OrderSteps
      PROVE  Head(wire[OrderCh]).val \in Exp /\ u = "serve"
  BY <1>3, <1>4, OrderStep
<1>5. Head(wire[OrderCh]).val \in Exp
  <2>1. \E u \in States : <<Turn, Head(wire[OrderCh]), u>> \in OrderSteps
    BY <1>2, PathHead DEF StepInv, Answering, Ordering
  <2>2. QED
    BY <1>4, <2>1
<1>6. e \in Exp
  BY <1>1, <1>5 DEF Exp
<1>7. Whole(Bearing, B!update(e) \o B!setup_borders(e, "grey"))
  BY <1>6, BearingRequests, WholeCat DEF Colours
<1>8. ASSUME NEW u, <<Turn, Head(wire[OrderCh]), u>> \in OrderSteps
      PROVE  duty' \in Duties /\ duty' # "start" /\ Turn' = u
  BY <1>3, <1>4, <1>8
<1>9. QED
  BY <1>2, <1>7, <1>8, StepOrder

(* What the manager finds when it finds a list and events.                 *)
LEMMA Found ==
  ASSUME NEW s, Path(ListSteps, "list", s, "list"), Len(s) >= 2
  PROVE  /\ s[1].type = "list" /\ s[1].val \in Seq(Exp)
         /\ s[2].type = "events" /\ s[2].val \in Events
         /\ Path(ListSteps, "list", SubSeq(s, 2 + 1, Len(s)), "list")
<1>1. /\ s # <<>> /\ Tail(s) # <<>> /\ s[1] = Head(s) /\ s[2] = Head(Tail(s))
      /\ SubSeq(s, 2 + 1, Len(s)) = Tail(Tail(s))
  BY TakenTwo
<1>2. PICK u \in States : <<"list", Head(s), u>> \in ListSteps /\ Path(ListSteps, u, Tail(s), "list")
  BY <1>1, PathHead
<1>3. u = "events" /\ Head(s).type = "list" /\ Head(s).val \in Seq(Exp)
  BY <1>2, ListStep
<1>4. PICK x \in States : /\ <<"events", Head(Tail(s)), x>> \in ListSteps
                          /\ Path(ListSteps, x, Tail(Tail(s)), "list")
  BY <1>1, <1>2, <1>3, PathHead
<1>5. x = "list" /\ Head(Tail(s)).type = "events" /\ Head(Tail(s)).val \in Events
  BY <1>4, ListStep
<1>6. QED
  BY <1>1, <1>3, <1>4, <1>5

(* The manager looks at the events, sends its requests and hands back the  *)
(* rest.                                                                   *)
LEMMA StepHandles ==
  ASSUME StepInv, B!handle_events, UNCHANGED <<ruskVars, shinyVars>>
  PROVE  StepInv'
<1>0. UNCHANGED <<expanses, em, count, req, typed, phase, exp_list>>
  BY DEF ruskVars, shinyVars
<1>1. PICK s : s = wire[ListCh]
  OBVIOUS
<1>2. PICK list, events : list = s[1].val /\ events = s[2].val
  OBVIOUS
<1>3. out[Bearing] = <<>> /\ duty = "handle_events" /\ Len(s) >= 2
  BY <1>1, BearingMessages DEF B!handle_events, B!Free
<1>4. \/ UNCHANGED <<wire, out, wsys, B!bearingVars>>
       \/ /\ duty' = "serve"
          /\ \E hits \in [DOMAIN events -> B!Hits(list)] :
               /\ B!Receives(Bearing, Rusk, EVENT_COMM_PORT, 2,
                    B!After(events, list, hits).todo \o
                      << B!Func("send_events"),
                         B!To(Rusk, B!EVENT_COMM_PORT, "events", B!After(events, list, hits).new) >>)
               /\ mouse_down' = B!After(events, list, hits).mouse_down
               /\ resize' = B!After(events, list, hits).resize
               /\ chosen' = B!After(events, list, hits).chosen
  <2>1. B!EVENT_COMM_PORT = EVENT_COMM_PORT /\ B!Waiting(Bearing, Rusk, EVENT_COMM_PORT) = s
    BY <1>1, BearingMessages
  <2>2. QED
    BY <1>2, <2>1, Zenon DEF B!handle_events
<1>5. CASE UNCHANGED <<wire, out, wsys, B!bearingVars>>
  BY <1>0, <1>5, Frame DEF B!bearingVars
<1>6. ASSUME NEW hits \in [DOMAIN events -> B!Hits(list)], duty' = "serve",
             B!Receives(Bearing, Rusk, EVENT_COMM_PORT, 2,
                      B!After(events, list, hits).todo \o
                        << B!Func("send_events"),
                           B!To(Rusk, B!EVENT_COMM_PORT, "events", B!After(events, list, hits).new) >>),
             mouse_down' = B!After(events, list, hits).mouse_down,
             resize' = B!After(events, list, hits).resize,
             chosen' = B!After(events, list, hits).chosen
      PROVE  StepInv'
  <2>1. PICK a : a = B!After(events, list, hits)
    OBVIOUS
  <2>2. PICK last : last = << B!Func("send_events"), B!To(Rusk, B!EVENT_COMM_PORT, "events", a.new) >>
    OBVIOUS
  <2>3. /\ B!Receives(Bearing, Rusk, EVENT_COMM_PORT, 2, a.todo \o last)
        /\ mouse_down' = a.mouse_down /\ resize' = a.resize /\ chosen' = a.chosen
    BY <1>6, <2>1, <2>2
  <2>4. em # None /\ em' = em
    BY <1>0, <1>3 DEF StepInv, Registering
  <2>5. /\ DOMAIN wire = Channels /\ DOMAIN out = Programs /\ wire[SelfCh] = <<>>
        /\ mouse_down \in BOOLEAN /\ resize \in BOOLEAN /\ chosen \in Exp
    BY DEF StepInv, Typed
  <2>6. /\ list \in Seq(Exp) /\ events \in Events
        /\ Path(ListSteps, "list", SubSeq(s, 2 + 1, Len(s)), "list")
    BY <1>1, <1>2, <1>3, Found DEF StepInv, Answering, Listing
  <2>7. a \in Handlings
    BY <2>1, <2>5, <2>6, AfterRight
  <2>8. /\ a.new \in Events /\ a.todo \in Todos /\ a.mouse_down \in BOOLEAN
        /\ a.resize \in BOOLEAN /\ a.chosen \in Exp
    BY <2>7 DEF Handlings
  <2>9. Whole(Bearing, a.todo) /\ Whole(Bearing, last)
    BY <2>2, <2>8, WholeTodo, BearingRequests
  <2>10. Whole(Bearing, a.todo \o last)
    BY <2>9, WholeCat
  <2>11. /\ wire' = [wire EXCEPT ![ListCh] = SubSeq(@, 2 + 1, Len(@))]
         /\ out' = [out EXCEPT ![Bearing] = a.todo \o last]
    BY <2>3, BearingReceives DEF ListCh
  <2>12. /\ DOMAIN wire' = Channels /\ wire'[ListCh] = SubSeq(s, 2 + 1, Len(s))
         /\ \A other \in Channels : other # ListCh => wire'[other] = wire[other]
    BY <1>1, <2>5, <2>11, ChannelsApart
  <2>13. Listing'
    BY <2>6, <2>12 DEF Listing
  <2>14. Turn = "serve" /\ Turn' = "serve"
    BY <1>3, <1>6 DEF Turn
  <2>15. Ordering'
    BY <2>4, <2>12, <2>14, ChannelsApart, OthersApart DEF StepInv, Answering, Ordering
  <2>16. /\ Answering' /\ wire'[SelfCh] = <<>>
         /\ \A p \in Askers : wire'[AskCh(p)] = wire[AskCh(p)]
    BY <2>4, <2>12, <2>13, <2>15, OthersAnswered
  <2>17. RequestRight' /\ Asking' /\ Registering' /\ Started' /\ DOMAIN out' = Programs
    BY <1>0, <1>3, <1>6, <2>4, <2>10, <2>11, <2>16, BearingAsks
  <2>18. duty' \in Duties
    BY <1>6 DEF Duties
  <2>19. Typed'
    BY <1>0, <2>3, <2>8, <2>12, <2>16, <2>17, <2>18 DEF StepInv, Typed
  <2>20. QED
    BY <2>16, <2>17, <2>19 DEF StepInv
<1>7. QED
  BY <1>5, <1>6, <1>4, Zenon

(* Every step of the manager keeps the invariant.                          *)
LEMMA StepBearing ==
  ASSUME StepInv, B!Work, UNCHANGED <<ruskVars, shinyVars>>
  PROVE  StepInv'
<1>1. CASE B!register_em
  BY <1>1, StepRegisters
<1>2. CASE B!registered
  BY <1>2, StepRegistered
<1>3. CASE B!serve
  BY <1>3, StepServes
<1>4. CASE B!init_expanse
  BY <1>4, StepPlaces
<1>5. CASE B!handle_events
  BY <1>5, StepHandles
<1>6. CASE B!send(Bearing) /\ UNCHANGED B!bearingVars
  <2>1. UNCHANGED bearingVars
    BY <1>6 DEF B!bearingVars, bearingVars
  <2>2. QED
    BY <1>6, <2>1, StepBearingSends
<1>7. QED
  BY <1>1, <1>2, <1>3, <1>4, <1>5, <1>6 DEF B!Work

(***************************************************************************)
(* A program with windows.                                                 *)
(***************************************************************************)

LEMMA HandleStep ==
  ASSUME NEW w, NEW m, NEW u, <<w, m, u>> \in HandleSteps
  PROVE  w = "handle" /\ m.type = "handle" /\ m.val \in Nat /\ u = "handle"
<1>1. PICK h \in Nat : <<w, m, u>> = <<"handle", Message("handle", h), "handle">>
  BY DEF HandleSteps
<1>2. w = "handle" /\ m = Message("handle", h) /\ u = "handle"
  BY <1>1, Triple
<1>3. QED
  BY <1>2 DEF Message

(* The steps of the handles with events.                                   *)
LEMMA GivenStep ==
  ASSUME NEW w, NEW m, NEW u, <<w, m, u>> \in GivenSteps
  PROVE  \/ w = "handle" /\ m.type = "handle" /\ m.val \in Nat /\ u = "events"
         \/ w = "events" /\ m.type = "events" /\ m.val \in Events /\ u = "handle"
<1>1. CASE <<w, m, u>> \in {<<"handle", Message("handle", h), "events">> : h \in Nat}
  <2>1. PICK h \in Nat : <<w, m, u>> = <<"handle", Message("handle", h), "events">>
    BY <1>1
  <2>2. w = "handle" /\ m = Message("handle", h) /\ u = "events"
    BY <2>1, Triple
  <2>3. QED
    BY <2>2 DEF Message
<1>2. CASE <<w, m, u>> \in {<<"events", Message("events", l), "handle">> : l \in Events}
  <2>1. PICK l \in Events : <<w, m, u>> = <<"events", Message("events", l), "handle">>
    BY <1>2
  <2>2. w = "events" /\ m = Message("events", l) /\ u = "handle"
    BY <2>1, Triple
  <2>3. QED
    BY <2>2 DEF Message
<1>3. QED
  BY <1>1, <1>2 DEF GivenSteps

(* What a program finds when it finds a handle and events.                 *)
LEMMA Given ==
  ASSUME NEW s, Path(GivenSteps, "handle", s, "handle"), Len(s) >= 2
  PROVE  /\ s[1].type = "handle" /\ s[1].val \in Nat
         /\ s[2].type = "events" /\ s[2].val \in Events
         /\ Path(GivenSteps, "handle", SubSeq(s, 2 + 1, Len(s)), "handle")
<1>1. /\ s # <<>> /\ Tail(s) # <<>> /\ s[1] = Head(s) /\ s[2] = Head(Tail(s))
      /\ SubSeq(s, 2 + 1, Len(s)) = Tail(Tail(s))
  BY TakenTwo
<1>2. PICK u \in States : <<"handle", Head(s), u>> \in GivenSteps /\ Path(GivenSteps, u, Tail(s), "handle")
  BY <1>1, PathHead
<1>3. u = "events" /\ Head(s).type = "handle" /\ Head(s).val \in Nat
  BY <1>2, GivenStep
<1>4. PICK x \in States : /\ <<"events", Head(Tail(s)), x>> \in GivenSteps
                          /\ Path(GivenSteps, x, Tail(Tail(s)), "handle")
  BY <1>1, <1>2, <1>3, PathHead
<1>5. x = "handle" /\ Head(Tail(s)).type = "events" /\ Head(Tail(s)).val \in Events
  BY <1>4, GivenStep
<1>6. QED
  BY <1>1, <1>3, <1>4, <1>5

(* The programs' messages and ports are everybody's.                       *)
LEMMA ClientMessages ==
  ASSUME NEW c
  PROVE  /\ S!ES_COMM_PORT = ES_COMM_PORT /\ S!EVENT_COMM_PORT = EVENT_COMM_PORT
         /\ S!Waiting(c, Rusk, ES_COMM_PORT) = wire[ReplyCh(c)]
         /\ S!Waiting(c, Rusk, EVENT_COMM_PORT) = wire[GiftCh(c)]
BY DEF S!ES_COMM_PORT, S!EVENT_COMM_PORT, S!Waiting, ES_COMM_PORT, EVENT_COMM_PORT, ReplyCh, GiftCh

(* What it changes that a program receives.                                *)
LEMMA ClientReceives ==
  ASSUME NEW c, NEW o, NEW n, NEW port, S!Receives(c, Rusk, port, n, o)
  PROVE  /\ wire' = [wire EXCEPT ![<<Rusk, c, port>>] = SubSeq(@, n + 1, Len(@))]
         /\ out' = [out EXCEPT ![c] = o]
BY DEF S!Receives

(* A program takes what is for it, and begins a whole request or none.     *)
LEMMA StepClient ==
  ASSUME StepInv, NEW c \in Clients, out[c] = <<>>, NEW o, Whole(c, o),
         out' = [out EXCEPT ![c] = o],
         UNCHANGED <<expanses, em, count, req, typed, duty, mouse_down, resize, chosen>>,
         DOMAIN wire' = Channels,
         \A ch \in Channels : ch # ReplyCh(c) /\ ch # GiftCh(c) => wire'[ch] = wire[ch],
         Path(HandleSteps, "handle", wire'[ReplyCh(c)], "handle"),
         Path(GivenSteps, "handle", wire'[GiftCh(c)], "handle"),
         phase' \in [Clients -> Phases], exp_list' \in [Clients -> Seq(Nat)]
  PROVE  StepInv'
<1>1. DOMAIN wire = Channels /\ DOMAIN out = Programs /\ wire[SelfCh] = <<>>
  BY DEF StepInv, Typed
<1>2. c \in Askers /\ c # Bearing
  BY ChannelsApart
<1>3. /\ DOMAIN out' = Programs /\ out'[c] = o
      /\ \A q \in Askers : q # c => out'[q] = out[q]
  BY <1>1, <1>2, Outs
<1>4. /\ \A p \in Askers : wire'[AskCh(p)] = wire[AskCh(p)]
      /\ wire'[OrderCh] = wire[OrderCh] /\ wire'[ListCh] = wire[ListCh]
      /\ wire'[SortedCh] = wire[SortedCh] /\ wire'[SelfCh] = wire[SelfCh]
  BY ChannelsApart, AskApart, OthersApart
<1>5. ASSUME NEW d \in Clients, d # c
      PROVE  wire'[ReplyCh(d)] = wire[ReplyCh(d)] /\ wire'[GiftCh(d)] = wire[GiftCh(d)]
  <2>1. /\ ReplyCh(d) # ReplyCh(c) /\ ReplyCh(d) # GiftCh(c)
        /\ GiftCh(d) # ReplyCh(c) /\ GiftCh(d) # GiftCh(c)
    BY <1>5, OthersApart
  <2>2. QED
    BY <2>1, ChannelsApart
<1>6. Replying' /\ Giving'
  BY <1>5 DEF StepInv, Answering, Replying, Giving
<1>7. Turn' = Turn
  BY DEF Turn
<1>8. Answering'
  BY <1>4, <1>6, <1>7 DEF StepInv, Answering, Ordering, Listing, Sorting
<1>9. Asking'
  <2>1. ASSUME NEW q \in Askers, ~(q = Bearing /\ em = None)
        PROVE  Asks(q, Left(q)', wire'[AskCh(q)], out'[q])
    <3>1. Asks(q, Left(q), wire[AskCh(q)], out[q]) /\ Left(q)' = Left(q)
      BY <2>1 DEF StepInv, Asking, Left
    <3>2. CASE q = c
      <4>1. Asks(c, Left(q), wire[AskCh(q)], <<>>)
        BY <3>1, <3>2
      <4>2. Asks(c, Left(q), wire[AskCh(q)], o)
        BY <4>1, AskNew
      <4>3. QED
        BY <1>3, <1>4, <3>1, <3>2, <4>2
    <3>3. CASE q # c
      BY <1>3, <1>4, <2>1, <3>1, <3>3
    <3>4. QED
      BY <3>2, <3>3
  <2>2. QED
    BY <2>1 DEF Asking
<1>10. RequestRight' /\ Started'
  BY DEF StepInv, RequestRight, Progress, Started
<1>11. Registering'
  <2>1. out'[Bearing] = out[Bearing] /\ wire'[AskCh(Bearing)] = wire[AskCh(Bearing)]
    BY <1>2, <1>3, <1>4, ChannelsApart
  <2>2. QED
    BY <2>1 DEF StepInv, Registering
<1>12. Typed'
  BY <1>1, <1>3, <1>4 DEF StepInv, Typed
<1>13. QED
  BY <1>8, <1>9, <1>10, <1>11, <1>12 DEF StepInv

(* A program asks for an expanse.                                          *)
LEMMA StepCreates ==
  ASSUME StepInv, NEW c \in Clients, S!create_shiny_expanse(c), UNCHANGED <<ruskVars, bearingVars>>
  PROVE  StepInv'
<1>1. PICK o : o = << S!call_func("create"), S!send_data("api", c) >>
  OBVIOUS
<1>2. /\ out[c] = <<>> /\ out' = [out EXCEPT ![c] = o] /\ phase' = [phase EXCEPT ![c] = "handle"]
      /\ UNCHANGED <<wire, exp_list, expanses, em, count, req, typed, duty, mouse_down, resize, chosen>>
  BY <1>1 DEF S!create_shiny_expanse, S!Free, S!Sends, ruskVars, bearingVars
<1>3. Whole(c, o)
  BY <1>1, ClientRequests
<1>4. /\ DOMAIN wire = Channels /\ phase' \in [Clients -> Phases] /\ exp_list' \in [Clients -> Seq(Nat)]
  BY <1>2 DEF StepInv, Typed, Phases
<1>5. /\ Path(HandleSteps, "handle", wire[ReplyCh(c)], "handle")
      /\ Path(GivenSteps, "handle", wire[GiftCh(c)], "handle")
  BY DEF StepInv, Answering, Replying, Giving
<1>6. QED
  BY <1>2, <1>3, <1>4, <1>5, StepClient

(* The pictures of all expanses are whole requests.                        *)
LEMMA AllDrawn ==
  ASSUME NEW c \in Clients, NEW list \in Seq(Nat)
  PROVE  Whole(c, S!FlattenSeq([i \in DOMAIN list |-> S!draw_buffer(c, list[i])]))
<1>1. PICK n \in Nat : DOMAIN list = 1 .. n /\ Len(list) = n
  OBVIOUS
<1>2. PICK L : L = Labels(OutSteps(c))
  OBVIOUS
<1>3. ASSUME NEW i \in 1 .. n
      PROVE  S!draw_buffer(c, list[i]) \in Seq(L) /\ Path(OutSteps(c), <<>>, S!draw_buffer(c, list[i]), <<>>)
  <2>1. list[i] \in Nat
    BY <1>1
  <2>2. Path(OutSteps(c), <<>>, S!draw_buffer(c, list[i]), <<>>)
    BY <2>1, ClientRequests DEF Whole
  <2>3. QED
    BY <1>2, <2>2, PathEnds
<1>4. PICK ss \in Seq(Seq(L)) : ss = [i \in DOMAIN list |-> S!draw_buffer(c, list[i])]
  <2>1. [i \in 1 .. n |-> S!draw_buffer(c, list[i])] \in [1 .. n -> Seq(L)]
    BY <1>3
  <2>2. [i \in 1 .. n |-> S!draw_buffer(c, list[i])] \in Seq(Seq(L))
    BY <2>1
  <2>3. QED
    BY <1>1, <2>2
<1>5. Len(ss) = n /\ \A i \in 1 .. n : ss[i] = S!draw_buffer(c, list[i])
  BY <1>1, <1>4
<1>6. \A i \in 1 .. Len(ss) : Path(OutSteps(c), <<>>, ss[i], <<>>)
  BY <1>3, <1>5
<1>7. Path(OutSteps(c), <<>>, FlattenSeq(ss), <<>>)
  BY <1>2, <1>6, PathJoin, WantsAreStates
<1>8. S!FlattenSeq(ss) = FlattenSeq(ss)
  BY DEF S!FlattenSeq, FlattenSeq
<1>9. QED
  BY <1>4, <1>7, <1>8 DEF Whole

(* A program is given its handle, and draws with the last.                 *)
LEMMA StepHandled ==
  ASSUME StepInv, NEW c \in Clients, S!recieve_handle(c), UNCHANGED <<ruskVars, bearingVars>>
  PROVE  StepInv'
<1>1. PICK s, list : s = wire[ReplyCh(c)] /\ list = Append(exp_list[c], Head(s).val)
  OBVIOUS
<1>2. PICK o : o = IF Len(list) = Windows
                   THEN S!FlattenSeq([i \in DOMAIN list |-> S!draw_buffer(c, list[i])]) ELSE <<>>
  OBVIOUS
<1>3. /\ out[c] = <<>> /\ s # <<>>
      /\ exp_list' = [exp_list EXCEPT ![c] = list]
      /\ phase' = [phase EXCEPT ![c] = IF Len(list) = Windows THEN "main" ELSE "create"]
      /\ S!Receives(c, Rusk, ES_COMM_PORT, 1, o)
      /\ UNCHANGED <<expanses, em, count, req, typed, duty, mouse_down, resize, chosen>>
  BY <1>1, <1>2, ClientMessages DEF S!recieve_handle, S!Free, ruskVars, bearingVars
<1>4. /\ DOMAIN wire = Channels /\ phase \in [Clients -> Phases] /\ exp_list \in [Clients -> Seq(Nat)]
      /\ Path(HandleSteps, "handle", s, "handle")
      /\ Path(GivenSteps, "handle", wire[GiftCh(c)], "handle")
  BY <1>1 DEF StepInv, Typed, Answering, Replying, Giving
<1>5. PICK u \in States : <<"handle", Head(s), u>> \in HandleSteps /\ Path(HandleSteps, u, Tail(s), "handle")
  BY <1>3, <1>4, PathHead
<1>6. Head(s).val \in Nat /\ u = "handle"
  BY <1>5, HandleStep
<1>7. list \in Seq(Nat)
  BY <1>1, <1>4, <1>6
<1>8. Whole(c, o)
  BY <1>2, <1>7, AllDrawn, WholeNone
<1>9. /\ wire' = [wire EXCEPT ![ReplyCh(c)] = SubSeq(@, 1 + 1, Len(@))]
      /\ out' = [out EXCEPT ![c] = o]
  BY <1>3, ClientReceives DEF ReplyCh
<1>10. /\ DOMAIN wire' = Channels /\ wire'[ReplyCh(c)] = Tail(s)
       /\ \A other \in Channels : other # ReplyCh(c) => wire'[other] = wire[other]
  BY <1>1, <1>3, <1>4, <1>9, ChannelsApart, Takes
<1>11. wire'[GiftCh(c)] = wire[GiftCh(c)]
  BY <1>10, ChannelsApart, OthersApart
<1>12. phase' \in [Clients -> Phases] /\ exp_list' \in [Clients -> Seq(Nat)]
  BY <1>3, <1>4, <1>7 DEF Phases
<1>13. QED
  BY <1>3, <1>4, <1>5, <1>6, <1>8, <1>9, <1>10, <1>11, <1>12, StepClient

(* Forgetting an expanse leaves a list of handles.                         *)
LEMMA WithoutRight ==
  ASSUME NEW T, NEW list \in Seq(T), NEW h
  PROVE  S!Without(list, h) \in Seq(T)
<1>1. PICK places : places = {i \in DOMAIN list : list[i] = h}
  OBVIOUS
<1>2. S!Without(list, h) = IF places = {} \/ Len(list) = 1 THEN list
                           ELSE S!RemoveAt(list, S!Min(places))
  BY <1>1 DEF S!Without
<1>3. CASE places = {} \/ Len(list) = 1
  BY <1>2, <1>3
<1>4. CASE ~(places = {} \/ Len(list) = 1)
  <2>1. places \in SUBSET Nat /\ places \subseteq DOMAIN list
    BY <1>1
  <2>2. PICK i \in DOMAIN list : i = Min(places)
    BY <1>4, <2>1, MinIn
  <2>3. RemoveAt(list, i) \in Seq(T)
    BY RemoveAtSeq
  <2>4. S!Min(places) = i /\ S!RemoveAt(list, i) = RemoveAt(list, i)
    BY <2>2 DEF S!Min, Min, S!RemoveAt, RemoveAt
  <2>5. QED
    BY <1>2, <1>4, <2>3, <2>4
<1>5. QED
  BY <1>3, <1>4

(* A program takes the events for an expanse and reacts.                   *)
LEMMA StepMainLoop ==
  ASSUME StepInv, NEW c \in Clients, S!shiny_main_loop(c), UNCHANGED <<ruskVars, bearingVars>>
  PROVE  StepInv'
<1>1. PICK s, h : s = wire[GiftCh(c)] /\ h = s[1].val
  OBVIOUS
<1>2. PICK reaction :
        /\ S!Receives(c, Rusk, EVENT_COMM_PORT, 2,
             CASE reaction = "draw" -> S!draw_buffer(c, h)
               [] reaction = "destroy" -> << S!call_func("remove"), S!send_data("handle", h) >>
               [] OTHER -> <<>>)
        /\ exp_list' = [exp_list EXCEPT ![c] = IF reaction = "destroy" THEN S!Without(@, h) ELSE @]
  BY <1>1, ClientMessages DEF S!shiny_main_loop
<1>3. /\ out[c] = <<>> /\ Len(s) >= 2
      /\ UNCHANGED <<phase, expanses, em, count, req, typed, duty, mouse_down, resize, chosen>>
  BY <1>1, ClientMessages DEF S!shiny_main_loop, S!Free, ruskVars, bearingVars
<1>4. /\ DOMAIN wire = Channels /\ phase \in [Clients -> Phases] /\ exp_list \in [Clients -> Seq(Nat)]
      /\ Path(HandleSteps, "handle", wire[ReplyCh(c)], "handle")
      /\ Path(GivenSteps, "handle", s, "handle")
  BY <1>1 DEF StepInv, Typed, Answering, Replying, Giving
<1>5. h \in Nat /\ Path(GivenSteps, "handle", SubSeq(s, 2 + 1, Len(s)), "handle")
  BY <1>1, <1>3, <1>4, Given
<1>6. PICK o : o = CASE reaction = "draw" -> S!draw_buffer(c, h)
                     [] reaction = "destroy" -> << S!call_func("remove"), S!send_data("handle", h) >>
                     [] OTHER -> <<>>
  OBVIOUS
<1>7. Whole(c, o)
  <2>1. /\ Whole(c, S!draw_buffer(c, h)) /\ Whole(c, <<>>)
        /\ Whole(c, << S!call_func("remove"), S!send_data("handle", h) >>)
    BY <1>5, ClientRequests, WholeNone
  <2>2. \/ o = S!draw_buffer(c, h) \/ o = <<>>
        \/ o = << S!call_func("remove"), S!send_data("handle", h) >>
    BY <1>6
  <2>3. QED
    BY <2>1, <2>2
<1>8. /\ wire' = [wire EXCEPT ![GiftCh(c)] = SubSeq(@, 2 + 1, Len(@))]
      /\ out' = [out EXCEPT ![c] = o]
  <2>1. S!Receives(c, Rusk, EVENT_COMM_PORT, 2, o)
    BY <1>2, <1>6, Zenon
  <2>2. QED
    BY <2>1, ClientReceives DEF GiftCh
<1>9. /\ DOMAIN wire' = Channels /\ wire'[GiftCh(c)] = SubSeq(s, 2 + 1, Len(s))
      /\ \A other \in Channels : other # GiftCh(c) => wire'[other] = wire[other]
  BY <1>1, <1>4, <1>8, ChannelsApart
<1>10. wire'[ReplyCh(c)] = wire[ReplyCh(c)]
  BY <1>9, ChannelsApart, OthersApart
<1>11. exp_list' \in [Clients -> Seq(Nat)]
  <2>1. exp_list[c] \in Seq(Nat) /\ S!Without(exp_list[c], h) \in Seq(Nat)
    BY <1>4, WithoutRight
  <2>2. PICK l \in Seq(Nat) : l = IF reaction = "destroy" THEN S!Without(exp_list[c], h) ELSE exp_list[c]
    BY <2>1
  <2>3. exp_list' = [exp_list EXCEPT ![c] = l]
    BY <1>2, <1>4, <2>2
  <2>4. QED
    BY <1>4, <2>3
<1>12. QED
  BY <1>3, <1>4, <1>5, <1>7, <1>8, <1>9, <1>10, <1>11, StepClient

(* Every step of a program with windows keeps the invariant.               *)
LEMMA StepShiny ==
  ASSUME StepInv, NEW c \in Clients, S!Work(c), UNCHANGED <<ruskVars, bearingVars>>
  PROVE  StepInv'
<1>1. CASE S!create_shiny_expanse(c)
  BY <1>1, StepCreates
<1>2. CASE S!recieve_handle(c)
  BY <1>2, StepHandled
<1>3. CASE S!shiny_main_loop(c)
  BY <1>3, StepMainLoop
<1>4. ASSUME S!send(c), UNCHANGED S!shinyVars
      PROVE  StepInv'
  <2>1. PICK x : x = Head(out[c])
    OBVIOUS
  <2>2. /\ out[c] # <<>>
        /\ wire' = [wire EXCEPT ![<<c, x.to, x.port>>] = Append(@, x.msg)]
        /\ out' = [out EXCEPT ![c] = Tail(@)]
    BY <1>4, <2>1 DEF S!send
  <2>3. UNCHANGED <<expanses, em, count, req, typed, duty, mouse_down, resize, chosen, phase, exp_list>>
    BY <1>4 DEF ruskVars, bearingVars, S!shinyVars
  <2>4. QED
    BY <2>1, <2>2, <2>3, StepSends, ChannelsApart
<1>5. QED
  BY <1>1, <1>2, <1>3, <1>4 DEF S!Work

(* Every step of rusk keeps the invariant.                                 *)
LEMMA StepRusk ==
  ASSUME StepInv, R!Work, UNCHANGED <<bearingVars, shinyVars>>
  PROVE  StepInv'
<1>1. ASSUME NEW id \in Programs, R!serve(id)
      PROVE  StepInv'
  BY <1>1, StepServe
<1>2. CASE R!reg_esys
  BY <1>2, StepReg
<1>3. CASE R!receive_data
  BY <1>3, StepReceive
<1>4. CASE R!create_expanse
  BY <1>4, StepCreate
<1>5. CASE R!remove_expanse
  BY <1>5, StepRemove
<1>6. CASE R!update_partial
  BY <1>6, StepDraw
<1>7. CASE R!update_expanse
  BY <1>7, StepUpdate
<1>8. CASE R!set_decoration_buffers
  BY <1>8, StepDecorate
<1>9. CASE R!register_em
  BY <1>9, StepRegister
<1>10. CASE R!bring_expanse_to_front
  BY <1>10, StepFront
<1>11. CASE R!send_events
  BY <1>11, StepSend
<1>12. QED
  BY <1>1, <1>2, <1>3, <1>4, <1>5, <1>6, <1>7, <1>8, <1>9, <1>10, <1>11 DEF R!Work, R!Programs, Programs

(* In the beginning nothing is under way.                                  *)
LEMMA StepStarts == Init => StepInv
<1> SUFFICES ASSUME Init PROVE StepInv
  OBVIOUS
<1>1. /\ wire = [ch \in Channels |-> <<>>] /\ out = [p \in Programs |-> <<>>]
      /\ expanses = <<>> /\ em = None /\ count \in Nat /\ req = R!Idle /\ typed = 0
      /\ duty = "start" /\ mouse_down = FALSE /\ resize = FALSE
      /\ chosen = [handle |-> 0, place |-> 0]
      /\ phase = [c \in Clients |-> "create"] /\ exp_list = [c \in Clients |-> <<>>]
  BY DEF Init, InitWire, R!InitRusk, B!InitBearing, S!InitShiny
<1>2. \A ch \in Channels : wire[ch] = <<>>
  BY <1>1
<1>3. \A p \in Askers : out[p] = <<>> /\ wire[AskCh(p)] = <<>>
  BY <1>1, <1>2, ChannelsApart
<1>4. req.id = None /\ None \notin Askers /\ Bearing \in Askers
  BY <1>1, WireAssumption DEF R!Idle, Askers
<1>5. Typed
  <2>1. wire[SelfCh] = <<>>
    BY <1>2, ChannelsApart
  <2>2. expanses \in Seq(Window) /\ exp_list \in [Clients -> Seq(Nat)]
    BY <1>1
  <2>3. QED
    BY <1>1, <2>1, <2>2 DEF Typed, Duties, Exp, Phases
<1>6. RequestRight /\ Registering /\ Started
  BY <1>1, <1>3, <1>4 DEF RequestRight, Registering, Started
<1>7. Asking
  <2>1. \A p \in Askers : Left(p) = <<>>
    BY <1>4 DEF Left
  <2>2. QED
    BY <1>3, <2>1, AskNothing DEF Asking
<1>8. Answering
  <2>1. /\ wire[OrderCh] = <<>> /\ wire[ListCh] = <<>> /\ wire[SortedCh] = <<>>
        /\ \A c \in Clients : wire[ReplyCh(c)] = <<>> /\ wire[GiftCh(c)] = <<>>
    BY <1>2, ChannelsApart
  <2>2. Turn = "register"
    BY <1>1 DEF Turn
  <2>3. Ordering
    BY <1>1, <2>1, <2>2, PathNone, NamesOfStates DEF Ordering
  <2>4. QED
    BY <2>1, <2>3, PathNone, NamesOfStates DEF Answering, Listing, Replying, Giving, Sorting
<1>9. QED
  BY <1>5, <1>6, <1>7, <1>8 DEF StepInv

(* As long as rusk finds its arguments every step keeps the invariant.     *)
LEMMA StepKept == StepInv /\ [Orderly]_vars => StepInv'
<1> SUFFICES ASSUME StepInv, [Orderly]_vars PROVE StepInv'
  OBVIOUS
<1>1. CASE RuskWorks
  BY <1>1, StepRusk DEF RuskWorks
<1>2. CASE RuskReads
  BY <1>2, StepRead DEF RuskReads
<1>3. CASE BearingWorks
  BY <1>3, StepBearing DEF BearingWorks
<1>4. ASSUME NEW c \in Clients, ShinyWorks(c)
      PROVE  StepInv'
  BY <1>4, StepShiny DEF ShinyWorks
<1>5. CASE UNCHANGED vars
  <2>1. UNCHANGED <<wire, out, expanses, em, count, req, typed, duty, mouse_down, resize, chosen,
                    phase, exp_list>>
    BY <1>5 DEF vars, wireVars, ruskVars, bearingVars, shinyVars
  <2>2. QED
    BY <2>1, Frame
<1>6. QED
  BY <1>1, <1>2, <1>3, <1>4, <1>5 DEF Orderly

(* What the invariant says of the next message of each channel.            *)
LEMMA RuskFindsRight ==
  ASSUME StepInv
  PROVE  RuskFinds
<1> SUFFICES ASSUME NEW id \in Programs, Waiting(Rusk, id, ES_COMM_PORT) # <<>>
             PROVE  Head(Waiting(Rusk, id, ES_COMM_PORT)).type =
                      IF req.id = id /\ req.want # <<>> /\ Head(req.want) # "events"
                      THEN Head(req.want) ELSE "func"
  BY DEF RuskFinds, Finds
<1>1. PICK s : s = wire[AskCh(id)]
  OBVIOUS
<1>2. Waiting(Rusk, id, ES_COMM_PORT) = s /\ s # <<>>
  BY <1>1 DEF Waiting, AskCh
<1>3. id \in Askers
  <2>1. id # Rusk
    BY <1>1, <1>2 DEF StepInv, Typed, AskCh, SelfCh
  <2>2. QED
    BY <2>1 DEF Programs, Askers
<1>4. CASE id = Bearing /\ em = None
  <2>1. s = << RegisterFunc >> /\ req.id # Bearing
    BY <1>1, <1>2, <1>4 DEF StepInv, Registering
  <2>2. Head(s).type = "func"
    BY <2>1 DEF RegisterFunc, Message
  <2>3. QED
    BY <1>2, <1>4, <2>1, <2>2
<1>5. CASE ~(id = Bearing /\ em = None)
  <2>1. Asks(id, Left(id), s, out[id])
    BY <1>1, <1>3, <1>5 DEF StepInv, Asking
  <2>2. PICK u \in States : <<Left(id), Head(s), u>> \in RequestSteps(id)
    BY <1>2, <2>1, AskPop
  <2>3. \/ Left(id) = <<>> /\ Head(s).type = "func"
        \/ Left(id) # <<>> /\ Head(s).type = Head(Left(id))
    BY <2>2, RequestStep, WantsAreStates
  <2>4. CASE req.id = id /\ req.want # <<>> /\ Head(req.want) # "events"
    <3>1. Head(<<"events">>) = "events"
      OBVIOUS
    <3>2. Left(id) = req.want
      BY <2>4, <3>1 DEF Left
    <3>3. QED
      BY <1>2, <2>3, <2>4, <3>2
  <2>5. CASE ~(req.id = id /\ req.want # <<>> /\ Head(req.want) # "events")
    <3>1. Left(id) = <<>>
      <4>1. CASE req.id # id \/ req.want = <<>>
        BY <4>1 DEF Left
      <4>2. CASE req.id = id /\ req.want # <<>> /\ Head(req.want) = "events"
        <5>1. req # R!Idle /\ req # Registration
          BY <4>2 DEF R!Idle, Registration
        <5>2. req.func \in Funcs(req.id) /\ Progress(req.func, req.id, req.want, req.got)
          BY <5>1 DEF StepInv, RequestRight
        <5>3. req.want = <<"events">>
          BY <4>2, <5>2, Wanting
        <5>4. QED
          BY <5>3 DEF Left
      <4>3. QED
        BY <2>5, <4>1, <4>2
    <3>2. QED
      BY <1>2, <2>3, <2>5, <3>1
  <2>6. QED
    BY <2>4, <2>5
<1>6. QED
  BY <1>4, <1>5

(* What the manager and the programs find is what they are about to read.  *)
LEMMA OthersFindRight ==
  ASSUME StepInv
  PROVE  BearingFinds /\ \A c \in Clients : ClientFinds(c)
<1>1. Finds(Bearing, Rusk, ES_COMM_PORT,
            CASE duty \in {"start", "register"} -> "bool"
              [] duty = "init_expanse" -> "expanse"
              [] OTHER -> "func")
  <2> SUFFICES ASSUME wire[OrderCh] # <<>>
               PROVE  Head(wire[OrderCh]).type =
                        CASE duty \in {"start", "register"} -> "bool"
                          [] duty = "init_expanse" -> "expanse"
                          [] OTHER -> "func"
    BY DEF Finds, Waiting, OrderCh
  <2>1. PICK u \in States : <<Turn, Head(wire[OrderCh]), u>> \in OrderSteps
    BY PathHead DEF StepInv, Answering, Ordering
  <2>2. \/ Turn = "register" /\ Head(wire[OrderCh]).type = "bool"
        \/ Turn = "serve" /\ Head(wire[OrderCh]).type = "func"
        \/ Turn = "init_expanse" /\ Head(wire[OrderCh]).type = "expanse"
    BY <2>1, OrderStep
  <2>3. CASE duty \in {"start", "register"}
    BY <2>2, <2>3 DEF Turn
  <2>4. CASE duty = "init_expanse"
    BY <2>2, <2>4 DEF Turn
  <2>5. CASE duty \notin {"start", "register"} /\ duty # "init_expanse"
    BY <2>2, <2>5 DEF Turn
  <2>6. QED
    BY <2>3, <2>4, <2>5
<1>2. Finds(Bearing, Rusk, EVENT_COMM_PORT, "list")
  <2> SUFFICES ASSUME wire[ListCh] # <<>> PROVE Head(wire[ListCh]).type = "list"
    BY DEF Finds, Waiting, ListCh
  <2>1. PICK u \in States : <<"list", Head(wire[ListCh]), u>> \in ListSteps
    BY PathHead DEF StepInv, Answering, Listing
  <2>2. QED
    BY <2>1, ListStep
<1>3. ASSUME NEW c \in Clients
      PROVE  ClientFinds(c)
  <2>1. Finds(c, Rusk, ES_COMM_PORT, "handle")
    <3> SUFFICES ASSUME wire[ReplyCh(c)] # <<>> PROVE Head(wire[ReplyCh(c)]).type = "handle"
      BY DEF Finds, Waiting, ReplyCh
    <3>1. PICK u \in States : <<"handle", Head(wire[ReplyCh(c)]), u>> \in HandleSteps
      BY PathHead DEF StepInv, Answering, Replying
    <3>2. QED
      BY <3>1, HandleStep
  <2>2. Finds(c, Rusk, EVENT_COMM_PORT, "handle")
    <3> SUFFICES ASSUME wire[GiftCh(c)] # <<>> PROVE Head(wire[GiftCh(c)]).type = "handle"
      BY DEF Finds, Waiting, GiftCh
    <3>1. PICK u \in States : <<"handle", Head(wire[GiftCh(c)]), u>> \in GivenSteps
      BY PathHead DEF StepInv, Answering, Giving
    <3>2. QED
      BY <3>1, GivenStep
  <2>3. QED
    BY <2>1, <2>2 DEF ClientFinds
<1>4. QED
  BY <1>1, <1>2, <1>3 DEF BearingFinds

(* While the channels hold what their readers expect, rusk misreads        *)
(* nothing: the first thing that goes wrong is an argument that is not     *)
(* there yet, and that is kept in mind.                                    *)
LEMMA FirstMissed ==
  ASSUME StepInv, RuskStrays
  PROVE  astray'
<1>1. R!receive_nothing \/ R!misread
  BY DEF RuskStrays, R!Strays
<1>2. CASE R!receive_nothing
  BY <1>2 DEF R!receive_nothing
<1>3. CASE R!misread
  <2>1. ASSUME NEW id \in Programs, R!Misses(R!Waiting(Rusk, id, ES_COMM_PORT), "func"), R!Serving
        PROVE  FALSE
    <3>1. PICK ch : ch = Waiting(Rusk, id, ES_COMM_PORT) /\ ch = R!Waiting(Rusk, id, ES_COMM_PORT)
      BY RuskMessages DEF R!Waiting, Waiting
    <3>2. req.want = <<>>
      BY <2>1 DEF R!Serving, R!Idle
    <3>3. ch # <<>> => Head(ch).type = "func"
      BY <3>1, <3>2, RuskFindsRight DEF RuskFinds, Finds
    <3>4. QED
      BY <2>1, <3>1, <3>3 DEF R!Misses
  <2>2. ASSUME req.want # <<>>, R!Misses(R!Arguments, Head(req.want))
        PROVE  FALSE
    <3>1. req # R!Idle /\ req # Registration
      BY <2>2 DEF R!Idle, Registration
    <3>2. PICK p, f, want, got : p = req.id /\ f = req.func /\ want = req.want /\ got = req.got
      OBVIOUS
    <3>3. p \in Askers /\ f \in Funcs(p) /\ Progress(f, p, want, got) /\ want # <<>>
      BY <2>2, <3>1, <3>2, Asker DEF StepInv, RequestRight
    <3>4. CASE Head(want) = "events"
      <4>1. f = "send_events"
        BY <3>3, <3>4, Wanting
      <4>2. p = Bearing
        BY <3>2, <4>1, OfBearing, <3>3 DEF StepInv, BearingFuncs
      <4>3. em = Bearing
        <5>1. em \in {None, Bearing}
          BY DEF StepInv, Typed
        <5>2. em # None
          BY <2>2, <3>1, <3>2, <4>2 DEF StepInv, Registering, Registration
        <5>3. QED
          BY <5>1, <5>2
      <4>4. R!Arguments = wire[SortedCh]
        BY <3>2, <3>4, <4>3, RuskMessages DEF R!Arguments, R!ArgSender, R!ArgPort, R!Waiting, SortedCh
      <4>5. wire[SortedCh] # <<>> /\ Head(wire[SortedCh]).type # "events"
        BY <2>2, <3>2, <3>4, <4>4 DEF R!Misses
      <4>6. PICK u \in States : <<"events", Head(wire[SortedCh]), u>> \in SortedSteps
        BY <4>5, PathHead DEF StepInv, Answering, Sorting
      <4>7. PICK l \in Events :
              <<"events", Head(wire[SortedCh]), u>> = <<"events", Message("events", l), "events">>
        BY <4>6 DEF SortedSteps
      <4>8. Head(wire[SortedCh]) = Message("events", l)
        BY <4>7, Triple
      <4>9. QED
        BY <4>5, <4>8 DEF Message
    <3>5. CASE Head(want) # "events"
      <4>1. p \in Programs
        BY <3>3 DEF Askers, Programs
      <4>2. PICK ch : ch = Waiting(Rusk, p, ES_COMM_PORT) /\ ch = R!Arguments
        BY <3>2, <3>5, RuskMessages DEF R!Arguments, R!ArgSender, R!ArgPort, R!Waiting, Waiting
      <4>3. ch # <<>> => Head(ch).type = Head(want)
        BY <2>2, <3>2, <3>5, <4>1, <4>2, RuskFindsRight DEF RuskFinds, Finds
      <4>4. QED
        BY <2>2, <3>2, <4>2, <4>3 DEF R!Misses
    <3>6. QED
      BY <3>4, <3>5
  <2>3. QED
    BY <1>3, <2>1, <2>2, RuskMessages DEF R!misread, R!Programs, Programs
<1>4. QED
  BY <1>1, <1>2, <1>3

(* A step is one of those that keep the invariants, or rusk has missed an  *)
(* argument.                                                               *)
LEMMA OrderlyUntil == StepInv /\ [Next]_vars => [Orderly]_vars \/ astray'
BY FirstMissed DEF Next

(* What has gone astray stays astray: nothing takes up a late argument.    *)
LEMMA AstrayStays ==
  ASSUME astray, [Next]_vars
  PROVE  astray'
<1>1. CASE RuskWorks
  <2>1. R!Work
    BY <1>1 DEF RuskWorks
  <2>2. ASSUME NEW id \in R!Programs, R!serve(id)
        PROVE  astray'
    BY <2>2 DEF R!serve
  <2>3. CASE R!reg_esys \/ R!receive_data
    BY <2>3 DEF R!reg_esys, R!receive_data, R!ruskVars
  <2>4. ASSUME \/ R!create_expanse \/ R!remove_expanse \/ R!update_partial \/ R!update_expanse
               \/ R!set_decoration_buffers \/ R!register_em \/ R!bring_expanse_to_front
               \/ R!send_events
        PROVE  astray'
    BY <2>4 DEF R!create_expanse, R!remove_expanse, R!update_partial, R!update_expanse,
                R!set_decoration_buffers, R!register_em, R!bring_expanse_to_front, R!send_events,
                R!Done
  <2>5. QED
    BY <2>1, <2>2, <2>3, <2>4 DEF R!Work
<1>2. CASE RuskReads
  BY <1>2 DEF RuskReads, R!process_events
<1>3. CASE BearingWorks
  BY <1>3 DEF BearingWorks, ruskVars
<1>4. ASSUME NEW c \in Clients, ShinyWorks(c)
      PROVE  astray'
  BY <1>4 DEF ShinyWorks, ruskVars
<1>5. CASE RuskStrays
  BY <1>5 DEF RuskStrays, R!Strays, R!receive_nothing, R!misread
<1>6. CASE UNCHANGED vars
  BY <1>6 DEF vars, ruskVars
<1>7. QED
  BY <1>1, <1>2, <1>3, <1>4, <1>5, <1>6 DEF Next, Orderly

(* However the programs' system calls are mixed, until rusk for the first  *)
(* time reads an argument that is not there yet, what a program finds at   *)
(* the head of a channel is what it is about to read: rusk takes no        *)
(* argument for a function number, the manager no expanse for an order, a  *)
(* program no handle for an event list (rusk_comm.c, bearing.c, shiny.c).  *)
(* For any programs, any windows, any number of events.                    *)
THEOREM AlwaysInStep == Spec => []InStep
<1>1. Init => astray \/ StepInv
  BY StepStarts
<1>2. (astray \/ StepInv) /\ [Next]_vars => astray' \/ StepInv'
  BY AstrayStays, OrderlyUntil, StepKept
<1>3. astray \/ StepInv => InStep
  BY RuskFindsRight, OthersFindRight DEF InStep
<1>4. QED
  BY <1>1, <1>2, <1>3, PTL DEF Spec

(***************************************************************************)
(* Lists of events that are joined, and what handle_events of the manager  *)
(* does to them: EventsInOrder (DeskOwnProofs) rests on these.             *)
(***************************************************************************)

(* The list ss, joined up to each of its pieces.                           *)
Joins(f, ss) == f[0] = <<>> /\ \A i \in 1 .. Len(ss) : f[i] = f[i - 1] \o ss[i]

(* FlattenSeq joins a list piece by piece.                                 *)
LEMMA Joined ==
  ASSUME NEW L, NEW ss \in Seq(Seq(L)), NEW n \in Nat, n = Len(ss)
  PROVE  \E f \in [0 .. n -> Seq(L)] : Joins(f, ss) /\ FlattenSeq(ss) = f[n]
<1>1. CASE n = 0
  <2>1. ss = <<>> /\ Len(ss) = 0
    BY <1>1, EmptySeq
  <2>2. PICK f \in [0 .. n -> Seq(L)] : f[0] = <<>>
    <3>1. [i \in 0 .. n |-> <<>>] \in [0 .. n -> Seq(L)] /\ 0 \in 0 .. n
      OBVIOUS
    <3>2. QED
      BY <3>1
  <2>3. FlattenSeq(ss) = ss
    BY <2>1, Zenon DEF FlattenSeq
  <2>4. QED
    BY <1>1, <2>1, <2>2, <2>3 DEF Joins
<1>2. CASE n # 0
  <2>1. PICK h : /\ FlattenSeq(ss) = h[n]
                 /\ \A i \in 1 .. n : h[i] = IF i = 1 THEN ss[i] ELSE h[i - 1] \o ss[i]
    BY <1>2, Unfolded
  <2>2. \A i \in 1 .. n : ss[i] \in Seq(L)
    OBVIOUS
  <2> DEFINE G == {m \in 0 .. n : m # 0 => h[m] \in Seq(L)}
  <2>3. 0 \in G
    OBVIOUS
  <2>4. ASSUME NEW m \in 1 .. n, m - 1 \in G
        PROVE  m \in G
    <3>1. PICK s \in Seq(L) : s = ss[m]
      BY <2>2
    <3>2. CASE m = 1
      <4>1. h[m] = s
        BY <2>1, <3>1, <3>2
      <4>2. QED
        BY <4>1
    <3>3. CASE m # 1
      <4>1. PICK t \in Seq(L) : t = h[m - 1]
        BY <2>4, <3>3
      <4>2. h[m] = t \o s
        BY <2>1, <3>1, <3>3, <4>1
      <4>3. t \o s \in Seq(L)
        OBVIOUS
      <4>4. m \in 0 .. n
        OBVIOUS
      <4>5. QED
        BY <4>2, <4>3, <4>4
    <3>4. QED
      BY <3>2, <3>3
  <2>5. \A m \in 0 .. n : m \in G
    <3> HIDE DEF G
    <3>1. QED
      BY <2>3, <2>4, Upwards
  <2>6. \A m \in 1 .. n : h[m] \in Seq(L)
    BY <2>5
  <2>7. PICK f : f = [i \in 0 .. n |-> IF i = 0 THEN <<>> ELSE h[i]]
    OBVIOUS
  <2>8. f \in [0 .. n -> Seq(L)]
    <3>1. \A i \in 0 .. n : (IF i = 0 THEN <<>> ELSE h[i]) \in Seq(L)
      BY <2>6
    <3>2. QED
      BY <2>7, <3>1
  <2>9. f[0] = <<>> /\ \A i \in 1 .. n : f[i] = h[i]
    BY <2>7
  <2>10. ASSUME NEW i \in 1 .. n
         PROVE  f[i] = f[i - 1] \o ss[i]
    <3>1. PICK s \in Seq(L) : s = ss[i]
      BY <2>2
    <3>2. CASE i = 1
      <4>1. <<>> \o s = s
        BY ConcatEmptySeq
      <4>2. f[i] = s /\ f[i - 1] = <<>>
        BY <2>1, <2>9, <3>1, <3>2
      <4>3. QED
        BY <3>1, <4>1, <4>2
    <3>3. CASE i # 1
      <4>1. i - 1 \in 1 .. n
        BY <3>3
      <4>2. QED
        BY <2>1, <2>9, <3>3, <4>1
    <3>4. QED
      BY <3>2, <3>3
  <2>11. Joins(f, ss) /\ FlattenSeq(ss) = f[n]
    <3>1. f[n] = h[n]
      BY <1>2, <2>9
    <3>2. QED
      BY <2>1, <2>9, <2>10, <3>1 DEF Joins
  <2>12. QED
    BY <2>8, <2>11
<1>3. QED
  BY <1>1, <1>2

(* Whatever joins it piece by piece gives the same.                        *)
LEMMA JoinedBy ==
  ASSUME NEW L, NEW ss \in Seq(Seq(L)), NEW n \in Nat, n = Len(ss), NEW f, Joins(f, ss)
  PROVE  FlattenSeq(ss) = f[n]
<1>1. PICK g \in [0 .. n -> Seq(L)] : Joins(g, ss) /\ FlattenSeq(ss) = g[n]
  BY Joined
<1> DEFINE G == {m \in 0 .. n : f[m] = g[m]}
<1>2. 0 \in G
  BY <1>1 DEF Joins
<1>3. ASSUME NEW m \in 1 .. n, m - 1 \in G
      PROVE  m \in G
  <2>1. f[m] = f[m - 1] \o ss[m] /\ g[m] = g[m - 1] \o ss[m]
    BY <1>1 DEF Joins
  <2>2. f[m - 1] = g[m - 1] /\ m \in 0 .. n
    BY <1>3
  <2>3. QED
    BY <2>1, <2>2
<1>4. \A m \in 0 .. n : m \in G
  <2> HIDE DEF G
  <2>1. QED
    BY <1>2, <1>3, Upwards
<1>5. QED
  BY <1>1, <1>4

(* Three sequences may be joined in either order.                          *)
LEMMA Regrouped ==
  ASSUME NEW L, NEW a \in Seq(L), NEW b \in Seq(L), NEW c \in Seq(L)
  PROVE  a \o (b \o c) = (a \o b) \o c
BY ConcatAssociative, SMTT(60)

(* One list after another, joined.                                         *)
LEMMA JoinedCat ==
  ASSUME NEW L, NEW a \in Seq(Seq(L)), NEW b \in Seq(Seq(L))
  PROVE  /\ FlattenSeq(a) \in Seq(L)
         /\ FlattenSeq(a \o b) = FlattenSeq(a) \o FlattenSeq(b)
<1>0. \A s, u, v \in Seq(L) : s \o (u \o v) = (s \o u) \o v
  BY Regrouped
<1>1. PICK n \in Nat, m \in Nat : n = Len(a) /\ m = Len(b)
  OBVIOUS
<1>2. PICK f \in [0 .. n -> Seq(L)] : Joins(f, a) /\ FlattenSeq(a) = f[n]
  BY <1>1, Joined
<1>3. PICK g \in [0 .. m -> Seq(L)] : Joins(g, b) /\ FlattenSeq(b) = g[m]
  BY <1>1, Joined
<1>4. PICK c \in Seq(Seq(L)) : c = a \o b
  <2>1. a \o b \in Seq(Seq(L))
    BY ConcatProperties
  <2>2. QED
    BY <2>1
<1>5. /\ Len(c) = n + m /\ n + m \in Nat
      /\ \A i \in 1 .. n : c[i] = a[i]
      /\ \A i \in 1 .. m : c[n + i] = b[i]
  <2>1. Len(c) = Len(a) + Len(b)
    BY <1>4, ConcatProperties
  <2>2. \A i \in 1 .. Len(a) + Len(b) : c[i] = IF i <= Len(a) THEN a[i] ELSE b[i - Len(a)]
    BY <1>4, ConcatProperties
  <2>3. \A i \in 1 .. n + m : c[i] = IF i <= n THEN a[i] ELSE b[i - n]
    BY <1>1, <2>2, Zenon
  <2>4. \A i \in 1 .. m : n + i \in 1 .. n + m /\ ~(n + i <= n) /\ n + i - n = i
    OBVIOUS
  <2>5. ASSUME NEW i \in 1 .. m
        PROVE  c[n + i] = b[i]
    <3>1. n + i \in 1 .. n + m /\ ~(n + i <= n) /\ n + i - n = i
      BY <2>4, Zenon
    <3>2. PICK k \in 1 .. n + m : k = n + i
      BY <3>1, Zenon
    <3>3. ~(k <= n) /\ k - n = i
      BY <3>2, SMTT(60)
    <3>4. c[k] = IF k <= n THEN a[k] ELSE b[k - n]
      BY <2>3, Zenon
    <3>5. c[k] = b[i]
      BY <3>3, <3>4, Zenon
    <3>6. QED
      BY <3>2, <3>5, Zenon
  <2>6. \A i \in 1 .. n : i \in 1 .. n + m /\ i <= n
    OBVIOUS
  <2>7. ASSUME NEW i \in 1 .. n
        PROVE  c[i] = a[i]
    <3>1. c[i] = IF i <= n THEN a[i] ELSE b[i - n]
      BY <2>3, <2>6, Zenon
    <3>2. QED
      BY <2>6, <3>1, Zenon
  <2>8. n + m \in Nat
    OBVIOUS
  <2>9. Len(c) = n + m
    BY <1>1, <2>1, Zenon
  <2>10. QED
    BY <2>5, <2>7, <2>8, <2>9, Zenon
<1>6. PICK x \in Seq(L) : x = f[n]
  BY <1>2
<1>7. PICK h : h = [i \in 0 .. n + m |-> IF i <= n THEN f[i] ELSE x \o g[i - n]]
  OBVIOUS
<1>8. \A i \in 0 .. n : h[i] = f[i]
  BY <1>7
<1>9. \A i \in 0 .. m : h[n + i] = x \o g[i]
  <2>1. ASSUME NEW i \in 0 .. m
        PROVE  h[n + i] = x \o g[i]
    <3>1. CASE i = 0
      <4>1. x \o <<>> = x
        BY ConcatEmptySeq
      <4>2. g[i] = <<>> /\ n + i = n
        BY <1>3, <3>1 DEF Joins
      <4>3. h[n + i] = x
        BY <1>6, <1>8, <4>2, SMTT(60)
      <4>4. QED
        BY <4>1, <4>2, <4>3
    <3>2. CASE i # 0
      <4>1. n + i \in 0 .. n + m /\ ~(n + i <= n) /\ n + i - n = i
        BY <3>2
      <4>2. QED
        BY <1>7, <4>1, SMTT(60)
    <3>3. QED
      BY <3>1, <3>2
  <2>2. QED
    BY <2>1
<1>10. Joins(h, c)
  <2>1. h[0] = <<>>
    BY <1>2, <1>8, SMTT(60) DEF Joins
  <2>2. ASSUME NEW i \in 1 .. n
        PROVE  h[i] = h[i - 1] \o c[i]
    <3>1. i \in 0 .. n /\ i - 1 \in 0 .. n
      OBVIOUS
    <3>2. f[i] = f[i - 1] \o a[i]
      BY <1>1, <1>2 DEF Joins
    <3>3. QED
      BY <1>5, <1>8, <3>1, <3>2
  <2>3. ASSUME NEW i \in 1 .. m
        PROVE  h[n + i] = h[n + (i - 1)] \o c[n + i]
    <3>1. i \in 0 .. m /\ i - 1 \in 0 .. m
      OBVIOUS
    <3>2. PICK u \in Seq(L) : u = g[i - 1]
      BY <1>3, <3>1
    <3>3. PICK v \in Seq(L) : v = b[i]
      BY <1>1
    <3>4. g[i] = u \o v
      BY <1>1, <1>3, <3>2, <3>3 DEF Joins
    <3>5. x \o (u \o v) = (x \o u) \o v
      BY <1>0, Zenon
    <3>6. h[n + i] = x \o (u \o v)
      BY <1>9, <3>1, <3>4
    <3>7. h[n + (i - 1)] = x \o u /\ c[n + i] = v
      BY <1>5, <1>9, <3>1, <3>2, <3>3
    <3>8. QED
      BY <3>5, <3>6, <3>7
  <2>4. ASSUME NEW i \in 1 .. Len(c)
        PROVE  h[i] = h[i - 1] \o c[i]
    <3>1. i \in 1 .. n + m
      BY <1>5
    <3>2. CASE i <= n
      <4>1. i \in 1 .. n
        BY <3>1, <3>2
      <4>2. QED
        BY <2>2, <4>1
    <3>3. CASE ~(i <= n)
      <4>1. PICK k \in 1 .. m : k = i - n
        BY <3>1, <3>3
      <4>2. n + k = i /\ n + (k - 1) = i - 1
        BY <3>1, <4>1
      <4>3. h[n + k] = h[n + (k - 1)] \o c[n + k]
        BY <2>3
      <4>4. QED
        BY <4>2, <4>3
    <3>4. QED
      BY <3>2, <3>3
  <2>5. QED
    BY <2>1, <2>4 DEF Joins
<1>11. FlattenSeq(c) = h[n + m]
  BY <1>5, <1>10, JoinedBy
<1>12. h[n + m] = x \o g[m]
  BY <1>9
<1>13. QED
  BY <1>2, <1>3, <1>4, <1>6, <1>11, <1>12

(* A list of one piece, and of none.                                       *)
LEMMA JoinedShort ==
  /\ FlattenSeq(<<>>) = <<>>
  /\ \A L : \A x \in Seq(L) : FlattenSeq(<<x>>) = x
<1>1. FlattenSeq(<<>>) = <<>>
  BY EmptySeq, Zenon DEF FlattenSeq
<1>2. ASSUME NEW L, NEW x \in Seq(L)
      PROVE  FlattenSeq(<<x>>) = x
  <2>1. <<x>> \in Seq(Seq(L)) /\ Len(<<x>>) = 1 /\ <<x>>[1] = x
    OBVIOUS
  <2>2. PICK f \in [0 .. 1 -> Seq(L)] : Joins(f, <<x>>) /\ FlattenSeq(<<x>>) = f[1]
    BY <2>1, Joined
  <2>3. f[0] = <<>> /\ f[1] = f[0] \o x
    <3>1. 1 \in 1 .. 1 /\ 1 - 1 = 0
      OBVIOUS
    <3>2. f[1] = f[1 - 1] \o <<x>>[1]
      BY <2>1, <2>2, <3>1 DEF Joins
    <3>3. QED
      BY <2>1, <2>2, <3>1, <3>2 DEF Joins
  <2>4. <<>> \o x = x
    BY ConcatEmptySeq
  <2>5. QED
    BY <2>2, <2>3, <2>4
<1>3. QED
  BY <1>1, <1>2

(* The pieces F gives for the elements of s, joined.                       *)
Spread(F, s) == FlattenSeq([i \in DOMAIN s |-> F[s[i]]])
Spreads(F, a, b) == Spread(F, a \o b) = Spread(F, a) \o Spread(F, b)

(* The pieces of two sequences are joined one after the other.             *)
LEMMA SpreadCat ==
  ASSUME NEW L, NEW M, NEW F \in [M -> Seq(L)], NEW a \in Seq(M), NEW b \in Seq(M)
  PROVE  /\ Spread(F, a) \in Seq(L)
         /\ Spreads(F, a, b)
<1>1. PICK n \in Nat, m \in Nat : n = Len(a) /\ m = Len(b)
  OBVIOUS
<1>2. /\ DOMAIN a = 1 .. n /\ DOMAIN b = 1 .. m
      /\ \A i \in 1 .. n : a[i] \in M
      /\ \A i \in 1 .. m : b[i] \in M
  BY <1>1
<1>3. PICK c \in Seq(M) : c = a \o b
  <2>1. a \o b \in Seq(M)
    BY ConcatProperties
  <2>2. QED
    BY <2>1
<1>4. /\ DOMAIN c = 1 .. n + m /\ n + m \in Nat
      /\ \A i \in 1 .. n + m : c[i] = IF i <= n THEN a[i] ELSE b[i - n]
  <2>1. Len(c) = n + m /\ \A i \in 1 .. n + m : c[i] = IF i <= n THEN a[i] ELSE b[i - n]
    BY <1>1, <1>3, ConcatProperties
  <2>2. QED
    BY <2>1
<1>5. PICK x : x = [i \in 1 .. n |-> F[a[i]]]
  OBVIOUS
<1>6. PICK y : y = [i \in 1 .. m |-> F[b[i]]]
  OBVIOUS
<1>7. PICK z : z = [i \in 1 .. n + m |-> F[c[i]]]
  OBVIOUS
<1>8. x \in Seq(Seq(L)) /\ Len(x) = n
  <2>1. \A i \in 1 .. n : F[a[i]] \in Seq(L)
    BY <1>2
  <2>2. x \in [1 .. n -> Seq(L)]
    BY <1>5, <2>1
  <2>3. QED
    BY <2>2, SeqDef
<1>9. y \in Seq(Seq(L)) /\ Len(y) = m
  <2>1. \A i \in 1 .. m : F[b[i]] \in Seq(L)
    BY <1>2
  <2>2. y \in [1 .. m -> Seq(L)]
    BY <1>6, <2>1
  <2>3. QED
    BY <2>2, SeqDef
<1>10. z = x \o y
  <2>1. /\ Len(x \o y) = n + m /\ x \o y \in Seq(Seq(L))
        /\ \A i \in 1 .. n + m : (x \o y)[i] = IF i <= n THEN x[i] ELSE y[i - n]
    BY <1>8, <1>9, ConcatProperties
  <2>2. ASSUME NEW i \in 1 .. n + m
        PROVE  z[i] = (x \o y)[i]
    <3>1. CASE i <= n
      <4>1. i \in 1 .. n
        BY <3>1
      <4>2. c[i] = a[i] /\ (x \o y)[i] = x[i]
        BY <1>4, <2>1, <3>1
      <4>3. QED
        BY <1>5, <1>7, <4>1, <4>2
    <3>2. CASE ~(i <= n)
      <4>1. i - n \in 1 .. m
        BY <3>2
      <4>2. c[i] = b[i - n] /\ (x \o y)[i] = y[i - n]
        BY <1>4, <2>1, <3>2
      <4>3. QED
        BY <1>6, <1>7, <4>1, <4>2
    <3>3. QED
      BY <3>1, <3>2
  <2>3. z \in Seq(Seq(L)) /\ Len(z) = n + m
    <3>1. ASSUME NEW i \in 1 .. n + m
          PROVE  F[c[i]] \in Seq(L)
      <4>1. c[i] \in M
        BY <1>4
      <4>2. QED
        BY <4>1
    <3>2. z \in [1 .. n + m -> Seq(L)]
      BY <1>7, <3>1
    <3>3. PICK k \in Nat : k = n + m
      OBVIOUS
    <3>4. z \in [1 .. k -> Seq(L)]
      BY <3>2, <3>3
    <3>5. z \in Seq(Seq(L)) /\ Len(z) = k
      BY <3>4, SeqDef
    <3>6. QED
      BY <3>3, <3>5
  <2>4. QED
    BY <2>1, <2>2, <2>3, SeqEqual
<1>11. Spread(F, a) = FlattenSeq(x) /\ Spread(F, b) = FlattenSeq(y) /\ Spread(F, c) = FlattenSeq(z)
  BY <1>2, <1>4, <1>5, <1>6, <1>7, Zenon DEF Spread
<1>12. FlattenSeq(x) \in Seq(L) /\ FlattenSeq(x \o y) = FlattenSeq(x) \o FlattenSeq(y)
  BY <1>8, <1>9, JoinedCat
<1>13. QED
  BY <1>3, <1>10, <1>11, <1>12, Zenon DEF Spreads

(* The pieces of no and of one element.                                    *)
LEMMA SpreadShort ==
  ASSUME NEW L, NEW M, NEW F \in [M -> Seq(L)]
  PROVE  /\ Spread(F, <<>>) = <<>>
         /\ \A x \in M : Spread(F, <<x>>) = F[x]
<1>1. Spread(F, <<>>) = <<>>
  <2>1. PICK e : e = <<>>
    OBVIOUS
  <2>2. [i \in DOMAIN e |-> F[e[i]]] = <<>>
    BY <2>1, EmptySeq
  <2>3. QED
    BY <2>1, <2>2, JoinedShort DEF Spread
<1>2. ASSUME NEW x \in M
      PROVE  Spread(F, <<x>>) = F[x]
  <2>1. PICK e : e = <<x>>
    OBVIOUS
  <2>2. PICK y \in Seq(L) : y = F[x]
    OBVIOUS
  <2>3. [i \in DOMAIN e |-> F[e[i]]] = <<y>>
    <3>1. DOMAIN e = 1 .. 1 /\ e[1] = x
      BY <2>1
    <3>2. \A i \in 1 .. 1 : F[e[i]] = y
      BY <2>2, <3>1
    <3>3. [i \in DOMAIN e |-> F[e[i]]] = [i \in 1 .. 1 |-> y]
      BY <3>1, <3>2
    <3>4. [i \in 1 .. 1 |-> y] = <<y>>
      OBVIOUS
    <3>5. QED
      BY <3>3, <3>4
  <2>4. FlattenSeq(<<y>>) = y
    BY JoinedShort
  <2>5. QED
    BY <2>1, <2>2, <2>3, <2>4, Zenon DEF Spread
<1>3. QED
  BY <1>1, <1>2

(* The messages on the events' way, and what is posted by the manager.     *)
Typing   == [id : Nat, kind : Kinds]
Carriers == Labels(GivenSteps) \cup Labels(ListSteps) \cup Labels(SortedSteps)
Posts    == Labels(OutSteps(Bearing)) \cup {Posting(ES_COMM_PORT, RegisterFunc)}

EventsOf == [m \in Carriers |-> IF m.type = "events" THEN m.val ELSE <<>>]
PostedOf ==
  [x \in Posts |-> IF x.to = Rusk /\ x.port = EVENT_COMM_PORT THEN <<x.msg>> ELSE <<>>]

(* Each carries events or none.                                            *)
LEMMA CarriersCarry ==
  /\ EventsOf \in [Carriers -> Seq(Typing)]
  /\ \A l \in Events : /\ Message("events", l) \in Carriers
                       /\ EventsOf[Message("events", l)] = l
  /\ \A h \in Nat : Message("handle", h) \in Carriers /\ EventsOf[Message("handle", h)] = <<>>
  /\ \A s \in Seq(Exp) : Message("list", s) \in Carriers /\ EventsOf[Message("list", s)] = <<>>
<1>1. ASSUME NEW m \in Carriers
      PROVE  \/ \E l \in Events : m = Message("events", l)
             \/ \E h \in Nat : m = Message("handle", h)
             \/ \E s \in Seq(Exp) : m = Message("list", s)
  <2>1. CASE m \in Labels(GivenSteps)
    <3>1. PICK t \in GivenSteps : m = t[2]
      BY <2>1 DEF Labels
    <3>2. \/ \E h \in Nat : t = <<"handle", Message("handle", h), "events">>
          \/ \E l \in Events : t = <<"events", Message("events", l), "handle">>
      BY DEF GivenSteps
    <3>3. QED
      BY <3>1, <3>2
  <2>2. CASE m \in Labels(ListSteps)
    <3>1. PICK t \in ListSteps : m = t[2]
      BY <2>2 DEF Labels
    <3>2. \/ \E l \in Seq(Exp) : t = <<"list", Message("list", l), "events">>
          \/ \E l \in Events : t = <<"events", Message("events", l), "list">>
      BY DEF ListSteps
    <3>3. QED
      BY <3>1, <3>2
  <2>3. CASE m \in Labels(SortedSteps)
    <3>1. PICK t \in SortedSteps : m = t[2]
      BY <2>3 DEF Labels
    <3>2. \E l \in Events : t = <<"events", Message("events", l), "events">>
      BY DEF SortedSteps
    <3>3. QED
      BY <3>1, <3>2
  <2>4. QED
    BY <2>1, <2>2, <2>3 DEF Carriers
<1>2. \A l \in Events : Message("events", l) \in Carriers
  <2>1. ASSUME NEW l \in Events
        PROVE  Message("events", l) \in Carriers
    <3>1. <<"events", Message("events", l), "events">> \in SortedSteps
      BY DEF SortedSteps
    <3>2. QED
      BY <3>1, Labelled DEF Carriers
  <2>2. QED
    BY <2>1
<1>3. \A h \in Nat : Message("handle", h) \in Carriers
  <2>1. ASSUME NEW h \in Nat
        PROVE  Message("handle", h) \in Carriers
    <3>1. <<"handle", Message("handle", h), "events">> \in GivenSteps
      BY DEF GivenSteps
    <3>2. QED
      BY <3>1, Labelled DEF Carriers
  <2>2. QED
    BY <2>1
<1>4. \A s \in Seq(Exp) : Message("list", s) \in Carriers
  <2>1. ASSUME NEW s \in Seq(Exp)
        PROVE  Message("list", s) \in Carriers
    <3>1. <<"list", Message("list", s), "events">> \in ListSteps
      BY DEF ListSteps
    <3>2. QED
      BY <3>1, Labelled DEF Carriers
  <2>2. QED
    BY <2>1
<1>5. \A type, val : Message(type, val).type = type /\ Message(type, val).val = val
  BY DEF Message
<1>6. \A l \in Events : EventsOf[Message("events", l)] = l
  BY <1>2, <1>5 DEF EventsOf
<1>7. /\ \A h \in Nat : EventsOf[Message("handle", h)] = <<>>
      /\ \A s \in Seq(Exp) : EventsOf[Message("list", s)] = <<>>
  BY <1>3, <1>4, <1>5 DEF EventsOf
<1>8. ASSUME NEW m \in Carriers
      PROVE  EventsOf[m] \in Seq(Typing)
  <2>1. \A l \in Events : l \in Seq(Typing)
    BY DEF Events, Typing
  <2>2. <<>> \in Seq(Typing)
    BY EmptySeq
  <2>3. QED
    BY <1>1, <1>6, <1>7, <2>1, <2>2
<1>9. EventsOf \in [Carriers -> Seq(Typing)]
  <2>1. EventsOf = [m \in Carriers |-> EventsOf[m]]
    BY DEF EventsOf
  <2>2. QED
    BY <1>8, <2>1
<1>10. QED
  BY <1>2, <1>3, <1>4, <1>6, <1>7, <1>9

(* The events in messages, and what is under way to rusk's event port.     *)
LEMMA SpreadEvents ==
  /\ \A s \in Seq(Carriers) : EventsIn(s) = Spread(EventsOf, s)
  /\ \A o \in Seq(Posts) : Addressed(o, Rusk, EVENT_COMM_PORT) = Spread(PostedOf, o)
<1>1. ASSUME NEW s \in Seq(Carriers)
      PROVE  EventsIn(s) = Spread(EventsOf, s)
  <2>1. \A i \in DOMAIN s : s[i] \in Carriers
    OBVIOUS
  <2>2. \A i \in DOMAIN s : EventsOf[s[i]] = IF s[i].type = "events" THEN s[i].val ELSE <<>>
    BY <2>1 DEF EventsOf
  <2>3. [i \in DOMAIN s |-> IF s[i].type = "events" THEN s[i].val ELSE <<>>]
          = [i \in DOMAIN s |-> EventsOf[s[i]]]
    BY <2>2
  <2>4. QED
    BY <2>3, Zenon DEF EventsIn, Spread
<1>2. ASSUME NEW o \in Seq(Posts)
      PROVE  Addressed(o, Rusk, EVENT_COMM_PORT) = Spread(PostedOf, o)
  <2>1. \A i \in DOMAIN o : o[i] \in Posts
    OBVIOUS
  <2>2. \A i \in DOMAIN o : PostedOf[o[i]] =
            IF o[i].to = Rusk /\ o[i].port = EVENT_COMM_PORT THEN <<o[i].msg>> ELSE <<>>
    BY <2>1 DEF PostedOf
  <2>3. [i \in DOMAIN o |-> IF o[i].to = Rusk /\ o[i].port = EVENT_COMM_PORT
                             THEN <<o[i].msg>> ELSE <<>>]
          = [i \in DOMAIN o |-> PostedOf[o[i]]]
    BY <2>2
  <2>4. QED
    BY <2>3, Zenon DEF Addressed, Spread
<1>3. QED
  BY <1>1, <1>2

(* What the manager posts goes to rusk, as a request or as events.         *)
LEMMA PostsCarry ==
  /\ PostedOf \in [Posts -> Seq(Carriers)]
  /\ \A l \in Events : /\ SortedPost(l) \in Posts
                       /\ PostedOf[SortedPost(l)] = << Message("events", l) >>
  /\ \A x \in Posts : x.port = ES_COMM_PORT => PostedOf[x] = <<>>
  /\ \A x \in Posts : \/ x.to = Rusk /\ x.port = ES_COMM_PORT
                      \/ \E l \in Events : x = SortedPost(l)
<1>1. ASSUME NEW x \in Posts
      PROVE  \/ x.to = Rusk /\ x.port = ES_COMM_PORT
             \/ \E l \in Events : x = SortedPost(l)
  <2>1. CASE x = Posting(ES_COMM_PORT, RegisterFunc)
    BY <2>1 DEF Posting
  <2>2. CASE x \in Labels(OutSteps(Bearing))
    <3>1. PICK t \in OutSteps(Bearing) : x = t[2]
      BY <2>2 DEF Labels
    <3>2. \/ \E r \in RequestSteps(Bearing) : t = <<r[1], Posting(ES_COMM_PORT, r[2]), r[3]>>
          \/ \E l \in Events : t = << <<>>, SortedPost(l), <<>> >>
      BY DEF OutSteps
    <3>3. CASE \E r \in RequestSteps(Bearing) : t = <<r[1], Posting(ES_COMM_PORT, r[2]), r[3]>>
      BY <3>1, <3>3 DEF Posting
    <3>4. QED
      BY <3>1, <3>2, <3>3
  <2>3. QED
    BY <2>1, <2>2 DEF Posts
<1>2. \A l \in Events : SortedPost(l) \in Posts
  <2>1. ASSUME NEW l \in Events
        PROVE  SortedPost(l) \in Posts
    <3>1. << <<>>, SortedPost(l), <<>> >> \in OutSteps(Bearing)
      BY SortedOutStep
    <3>2. QED
      BY <3>1, Labelled DEF Posts
  <2>2. QED
    BY <2>1
<1>3. \A l \in Events : PostedOf[SortedPost(l)] = << Message("events", l) >>
  BY <1>2 DEF PostedOf, SortedPost, Posting
<1>4. \A x \in Posts : x.port = ES_COMM_PORT => PostedOf[x] = <<>>
  BY DEF PostedOf, ES_COMM_PORT, EVENT_COMM_PORT
<1>5. ASSUME NEW x \in Posts
      PROVE  PostedOf[x] \in Seq(Carriers)
  <2>1. \A l \in Events : << Message("events", l) >> \in Seq(Carriers)
    BY CarriersCarry
  <2>2. CASE x.port = ES_COMM_PORT
    BY <1>4, <2>2, EmptySeq
  <2>3. CASE \E l \in Events : x = SortedPost(l)
    BY <1>3, <2>1, <2>3
  <2>4. QED
    BY <1>1, <2>2, <2>3
<1>6. PostedOf \in [Posts -> Seq(Carriers)]
  <2>1. PostedOf = [x \in Posts |-> PostedOf[x]]
    BY DEF PostedOf
  <2>2. QED
    BY <1>5, <2>1
<1>7. QED
  BY <1>1, <1>2, <1>3, <1>4, <1>6

(* Events in messages that are joined.                                     *)
LEMMA EventsCat ==
  /\ EventsIn(<<>>) = <<>>
  /\ \A m \in Carriers : EventsIn(<<m>>) = EventsOf[m]
  /\ \A a, b \in Seq(Carriers) : /\ EventsIn(a) \in Events
                                 /\ EventsIn(a \o b) = EventsIn(a) \o EventsIn(b)
<1>1. EventsOf \in [Carriers -> Seq(Typing)]
  BY CarriersCarry
<1>2. EventsIn(<<>>) = <<>>
  BY <1>1, SpreadShort, SpreadEvents, EmptySeq
<1>3. ASSUME NEW m \in Carriers
      PROVE  EventsIn(<<m>>) = EventsOf[m]
  <2>1. <<m>> \in Seq(Carriers)
    OBVIOUS
  <2>2. Spread(EventsOf, <<m>>) = EventsOf[m]
    BY <1>1, SpreadShort
  <2>3. QED
    BY <2>1, <2>2, SpreadEvents, Zenon
<1>4. ASSUME NEW a \in Seq(Carriers), NEW b \in Seq(Carriers)
      PROVE  /\ EventsIn(a) \in Events
             /\ EventsIn(a \o b) = EventsIn(a) \o EventsIn(b)
  <2>1. a \o b \in Seq(Carriers)
    BY ConcatProperties
  <2>2. /\ Spread(EventsOf, a) \in Seq(Typing)
        /\ Spread(EventsOf, a \o b) = Spread(EventsOf, a) \o Spread(EventsOf, b)
    <3>1. PICK F \in [Carriers -> Seq(Typing)] : F = EventsOf
      BY <1>1
    <3>2. Spread(F, a) \in Seq(Typing)
      BY SpreadCat, Zenon
    <3>3. Spreads(F, a, b)
      BY SpreadCat, Zenon
    <3>4. QED
      BY <3>1, <3>2, <3>3, Zenon DEF Spreads
  <2>3. Seq(Typing) = Events
    BY DEF Events, Typing
  <2>4. QED
    BY <2>1, <2>2, <2>3, SpreadEvents, Zenon
<1>5. QED
  BY <1>2, <1>3, <1>4

(* What is under way to rusk's event port of things posted one after the   *)
(* other.                                                                  *)
Sorted(o) == Addressed(o, Rusk, EVENT_COMM_PORT)
LEMMA SortedCat ==
  /\ Sorted(<<>>) = <<>>
  /\ \A x \in Posts : Sorted(<<x>>) = PostedOf[x]
  /\ \A a, b \in Seq(Posts) : /\ Sorted(a) \in Seq(Carriers)
                              /\ Sorted(a \o b) = Sorted(a) \o Sorted(b)
<1>1. PostedOf \in [Posts -> Seq(Carriers)]
  BY PostsCarry
<1>2. Sorted(<<>>) = <<>>
  BY <1>1, SpreadShort, SpreadEvents, EmptySeq DEF Sorted
<1>3. ASSUME NEW x \in Posts
      PROVE  Sorted(<<x>>) = PostedOf[x]
  <2>1. <<x>> \in Seq(Posts)
    OBVIOUS
  <2>2. Spread(PostedOf, <<x>>) = PostedOf[x]
    BY <1>1, SpreadShort
  <2>3. QED
    BY <2>1, <2>2, SpreadEvents, Zenon DEF Sorted
<1>4. ASSUME NEW a \in Seq(Posts), NEW b \in Seq(Posts)
      PROVE  /\ Sorted(a) \in Seq(Carriers)
             /\ Sorted(a \o b) = Sorted(a) \o Sorted(b)
  <2>1. a \o b \in Seq(Posts)
    BY ConcatProperties
  <2>2. /\ Spread(PostedOf, a) \in Seq(Carriers)
        /\ Spread(PostedOf, a \o b) = Spread(PostedOf, a) \o Spread(PostedOf, b)
    <3>1. PICK F \in [Posts -> Seq(Carriers)] : F = PostedOf
      BY <1>1
    <3>2. Spread(F, a) \in Seq(Carriers)
      BY SpreadCat, Zenon
    <3>3. Spreads(F, a, b)
      BY SpreadCat, Zenon
    <3>4. QED
      BY <3>1, <3>2, <3>3, Zenon DEF Spreads
  <2>3. QED
    BY <2>1, <2>2, SpreadEvents, Zenon DEF Sorted
<1>5. QED
  BY <1>2, <1>3, <1>4

(* The numbers of events, and numbers that all come before others.         *)
Ids(s) == {s[i].id : i \in DOMAIN s}
Before(A, C) == \A x \in A, y \in C : x < y

(* Events in order, joined with later ones in order.                       *)
LEMMA OrderedCat ==
  ASSUME NEW a \in Events, NEW b \in Events
  PROVE  /\ a \o b \in Events /\ Ids(a) \in SUBSET Nat
         /\ Ids(a \o b) = Ids(a) \cup Ids(b)
         /\ Ordered(a \o b) => Ordered(a) /\ Ordered(b) /\ Before(Ids(a), Ids(b))
         /\ Ordered(a) /\ Ordered(b) /\ Before(Ids(a), Ids(b)) => Ordered(a \o b)
<1>1. a \in Seq(Typing) /\ b \in Seq(Typing)
  BY DEF Events, Typing
<1>2. PICK n \in Nat, m \in Nat : n = Len(a) /\ m = Len(b)
  BY <1>1
<1>3. PICK c \in Seq(Typing) : c = a \o b
  <2>1. a \o b \in Seq(Typing)
    BY <1>1, ConcatProperties
  <2>2. QED
    BY <2>1
<1>4. /\ Len(c) = n + m /\ DOMAIN c = 1 .. n + m /\ DOMAIN a = 1 .. n /\ DOMAIN b = 1 .. m
      /\ \A i \in 1 .. n + m : c[i] = IF i <= n THEN a[i] ELSE b[i - n]
  <2>1. Len(c) = n + m /\ \A i \in 1 .. n + m : c[i] = IF i <= n THEN a[i] ELSE b[i - n]
    BY <1>1, <1>2, <1>3, ConcatProperties
  <2>2. DOMAIN a = 1 .. n /\ DOMAIN b = 1 .. m
    BY <1>1, <1>2
  <2>3. DOMAIN c = 1 .. n + m
    BY <1>3, <2>1
  <2>4. QED
    BY <2>1, <2>2, <2>3, Zenon
<1>5. /\ \A i \in 1 .. n : i \in 1 .. n + m /\ c[i] = a[i]
      /\ \A i \in 1 .. m : n + i \in 1 .. n + m /\ c[n + i] = b[i]
  <2>1. \A i \in 1 .. n : i \in 1 .. n + m /\ i <= n
    OBVIOUS
  <2>2. \A i \in 1 .. m : n + i \in 1 .. n + m /\ ~(n + i <= n) /\ n + i - n = i
    OBVIOUS
  <2>3. QED
    BY <1>4, <2>1, <2>2
<1>6. /\ \A i \in 1 .. n : a[i].id \in Nat
      /\ \A i \in 1 .. m : b[i].id \in Nat
  <2>1. /\ \A i \in 1 .. n : a[i] \in Typing
        /\ \A i \in 1 .. m : b[i] \in Typing
    BY <1>1, <1>4
  <2>2. QED
    BY <2>1 DEF Typing
<1>7. \A i \in 1 .. n + m : i \in 1 .. n \/ \E k \in 1 .. m : i = n + k
  <2>1. ASSUME NEW i \in 1 .. n + m, i \notin 1 .. n
        PROVE  \E k \in 1 .. m : i = n + k
    <3>1. i - n \in 1 .. m /\ i = n + (i - n)
      BY <2>1
    <3>2. QED
      BY <3>1
  <2>2. QED
    BY <2>1
<1>8. Ids(c) = Ids(a) \cup Ids(b) /\ Ids(a) \in SUBSET Nat
  <2>1. /\ Ids(c) = {c[i].id : i \in 1 .. n + m} /\ Ids(a) = {a[i].id : i \in 1 .. n}
        /\ Ids(b) = {b[i].id : i \in 1 .. m}
    BY <1>4 DEF Ids
  <2>2. ASSUME NEW x \in Ids(c)
        PROVE  x \in Ids(a) \cup Ids(b)
    <3>1. PICK i \in 1 .. n + m : x = c[i].id
      BY <2>1
    <3>2. CASE i \in 1 .. n
      BY <1>5, <2>1, <3>1, <3>2
    <3>3. CASE i \notin 1 .. n
      <4>1. PICK k \in 1 .. m : i = n + k
        BY <1>7, <3>3
      <4>2. x = b[k].id
        BY <1>5, <3>1, <4>1
      <4>3. QED
        BY <2>1, <4>2
    <3>4. QED
      BY <3>2, <3>3
  <2>3. Ids(a) \cup Ids(b) \subseteq Ids(c)
    BY <1>5, <2>1
  <2>4. Ids(a) \in SUBSET Nat
    BY <1>6, <2>1
  <2>5. QED
    BY <2>2, <2>3, <2>4
<1>9. ASSUME Ordered(c)
      PROVE  Ordered(a) /\ Ordered(b) /\ Before(Ids(a), Ids(b))
  <2>1. \A i, j \in 1 .. n + m : i < j => c[i].id < c[j].id
    BY <1>4, <1>9 DEF Ordered
  <2>2. Ordered(a)
    BY <1>4, <1>5, <2>1 DEF Ordered
  <2>3. \A i, j \in 1 .. m : i < j => n + i < n + j
    OBVIOUS
  <2>4. Ordered(b)
    BY <1>4, <1>5, <2>1, <2>3 DEF Ordered
  <2>5. \A i \in 1 .. n : \A j \in 1 .. m : i < n + j
    OBVIOUS
  <2>6. \A i \in 1 .. n : \A j \in 1 .. m : a[i].id < b[j].id
    BY <1>5, <2>1, <2>5
  <2>7. Before(Ids(a), Ids(b))
    BY <1>4, <2>6 DEF Before, Ids
  <2>8. QED
    BY <2>2, <2>4, <2>7
<1>10. ASSUME Ordered(a), Ordered(b), Before(Ids(a), Ids(b))
       PROVE  Ordered(c)
  <2>1. \A i, j \in 1 .. n : i < j => c[i].id < c[j].id
    BY <1>4, <1>5, <1>10 DEF Ordered
  <2>2. \A i \in 1 .. n : \A j \in 1 .. m : c[i].id < c[n + j].id
    BY <1>4, <1>5, <1>10 DEF Before, Ids
  <2>3. \A i, j \in 1 .. m : n + i < n + j => c[n + i].id < c[n + j].id
    <3>1. \A i, j \in 1 .. m : n + i < n + j => i < j
      OBVIOUS
    <3>2. \A i, j \in 1 .. m : i < j => b[i].id < b[j].id
      BY <1>4, <1>10 DEF Ordered
    <3>3. ASSUME NEW i \in 1 .. m, NEW j \in 1 .. m, n + i < n + j
          PROVE  c[n + i].id < c[n + j].id
      <4>1. b[i].id < b[j].id
        BY <3>1, <3>2, <3>3
      <4>2. c[n + i] = b[i] /\ c[n + j] = b[j]
        BY <1>5
      <4>3. QED
        BY <4>1, <4>2
    <3>4. QED
      BY <3>3
  <2>4. \A i \in 1 .. n : \A j \in 1 .. m : ~(n + j < i)
    OBVIOUS
  <2>5. ASSUME NEW i \in 1 .. n + m, NEW j \in 1 .. n + m, i < j
        PROVE  c[i].id < c[j].id
    <3>1. CASE i \in 1 .. n /\ j \in 1 .. n
      BY <2>1, <2>5, <3>1
    <3>2. CASE i \in 1 .. n /\ j \notin 1 .. n
      BY <1>7, <2>2, <3>2
    <3>3. CASE i \notin 1 .. n
      <4>1. PICK k \in 1 .. m : i = n + k
        BY <1>7, <3>3
      <4>2. j \notin 1 .. n
        BY <2>4, <2>5, <4>1
      <4>3. PICK l \in 1 .. m : j = n + l
        BY <1>7, <4>2
      <4>4. QED
        BY <2>3, <2>5, <4>1, <4>3
    <3>4. QED
      BY <3>1, <3>2, <3>3
  <2>6. QED
    BY <1>4, <2>5 DEF Ordered
<1>11. c \in Events
  BY DEF Events, Typing
<1>12. QED
  BY <1>3, <1>8, <1>9, <1>10, <1>11

(* No events are in order, and one is.                                     *)
LEMMA OrderedShort ==
  /\ <<>> \in Events /\ Ordered(<<>>) /\ Ids(<<>>) = {}
  /\ \A e \in Typing : <<e>> \in Events /\ Ordered(<<e>>) /\ Ids(<<e>>) = {e.id}
<1>1. <<>> \in Events /\ Ordered(<<>>) /\ Ids(<<>>) = {}
  BY DEF Events, Ordered, Ids
<1>2. ASSUME NEW e \in Typing
      PROVE  <<e>> \in Events /\ Ordered(<<e>>) /\ Ids(<<e>>) = {e.id}
  <2>1. DOMAIN <<e>> = 1 .. 1 /\ <<e>>[1] = e /\ <<e>> \in Seq(Typing)
    OBVIOUS
  <2>2. \A i \in 1 .. 1 : i = 1
    OBVIOUS
  <2>3. Ids(<<e>>) = {e.id}
    BY <2>1, <2>2 DEF Ids
  <2>4. Ordered(<<e>>)
    BY <2>1, <2>2 DEF Ordered
  <2>5. QED
    BY <2>1, <2>3, <2>4 DEF Events, Typing
<1>3. QED
  BY <1>1, <1>2

(* Posts without events.                                                   *)
Silent(o) == o \in Seq(Posts) /\ Sorted(o) = <<>>

LEMMA SilentCat ==
  ASSUME NEW a, NEW b, Silent(a), Silent(b)
  PROVE  Silent(a \o b)
<1>1. a \o b \in Seq(Posts)
  BY ConcatProperties DEF Silent
<1>2. Sorted(a \o b) = <<>> \o <<>>
  BY SortedCat, Zenon DEF Silent
<1>3. <<>> \o <<>> = <<>>
  <2>1. PICK e \in Seq({}) : e = <<>>
    BY EmptySeq
  <2>2. e \o <<>> = e
    BY ConcatEmptySeq
  <2>3. QED
    BY <2>1, <2>2
<1>4. QED
  BY <1>1, <1>2, <1>3 DEF Silent

(* What the manager sends, but for the events it hands back.               *)
LEMMA BearingSilent ==
  /\ Silent(<<>>)
  /\ \A e \in Exp : Silent(B!update(e)) /\ Silent(B!set_front(e))
  /\ \A e \in Exp : \A colour \in Colours : Silent(B!setup_borders(e, colour))
<1>1. /\ \A f : B!Func(f) = Posting(ES_COMM_PORT, Message("func", f))
      /\ \A type, val : B!To(Rusk, B!ES_COMM_PORT, type, val) = Posting(ES_COMM_PORT, Message(type, val))
  BY DEF B!Func, B!To, B!ES_COMM_PORT, B!Message, Posting, Message, ES_COMM_PORT
<1>2. \A m : Posting(ES_COMM_PORT, m).port = ES_COMM_PORT
  BY DEF Posting
<1>3. \A t \in Todos : t \in Seq(Posts)
  <2>1. ASSUME NEW t \in Todos
        PROVE  t \in Seq(Posts)
    <3>1. t \in Seq(Labels(OutSteps(Bearing)))
      BY DEF Todos
    <3>2. Labels(OutSteps(Bearing)) \subseteq Posts
      BY DEF Posts
    <3>3. QED
      BY <3>1, <3>2, SeqMonotonic
  <2>2. QED
    BY <2>1
<1>4. Silent(<<>>)
  BY SortedCat DEF Silent
<1>5. \A m : Posting(ES_COMM_PORT, m) \in Posts => Silent(<<Posting(ES_COMM_PORT, m)>>)
  <2>1. ASSUME NEW m, Posting(ES_COMM_PORT, m) \in Posts
        PROVE  Silent(<<Posting(ES_COMM_PORT, m)>>)
    <3>1. PICK x \in Posts : x = Posting(ES_COMM_PORT, m)
      BY <2>1
    <3>2. x.port = ES_COMM_PORT
      BY <1>2, <3>1
    <3>3. PostedOf[x] = <<>>
      BY <3>2, PostsCarry
    <3>4. Sorted(<<x>>) = <<>>
      BY <3>3, SortedCat
    <3>5. QED
      BY <3>1, <3>4 DEF Silent
  <2>2. QED
    BY <2>1
<1>6. ASSUME NEW m, NEW k,
             << Posting(ES_COMM_PORT, m), Posting(ES_COMM_PORT, k) >> \in Seq(Posts)
      PROVE  Silent(<< Posting(ES_COMM_PORT, m), Posting(ES_COMM_PORT, k) >>)
  <2>1. PICK x, y : x = Posting(ES_COMM_PORT, m) /\ y = Posting(ES_COMM_PORT, k)
    OBVIOUS
  <2>2. <<x, y>> \in Seq(Posts)
    BY <1>6, <2>1
  <2>3. x \in Posts /\ y \in Posts
    <3>1. \A i \in 1 .. 2 : <<x, y>>[i] \in Posts
      BY <2>2
    <3>2. <<x, y>>[1] = x /\ <<x, y>>[2] = y
      OBVIOUS
    <3>3. QED
      BY <3>1, <3>2
  <2>4. Silent(<<x>>) /\ Silent(<<y>>)
    BY <1>5, <2>1, <2>3
  <2>5. Silent(<<x>> \o <<y>>)
    BY <2>4, SilentCat
  <2>6. QED
    BY <2>1, <2>5, Pair
<1>7. ASSUME NEW m, NEW k, NEW l,
             << Posting(ES_COMM_PORT, m), Posting(ES_COMM_PORT, k), Posting(ES_COMM_PORT, l) >> \in Seq(Posts)
      PROVE  Silent(<< Posting(ES_COMM_PORT, m), Posting(ES_COMM_PORT, k), Posting(ES_COMM_PORT, l) >>)
  <2>1. PICK x, y, z : /\ x = Posting(ES_COMM_PORT, m) /\ y = Posting(ES_COMM_PORT, k)
                       /\ z = Posting(ES_COMM_PORT, l)
    OBVIOUS
  <2>2. <<x, y, z>> \in Seq(Posts)
    BY <1>7, <2>1
  <2>3. x \in Posts /\ y \in Posts /\ z \in Posts
    <3>1. \A i \in 1 .. 3 : <<x, y, z>>[i] \in Posts
      BY <2>2
    <3>2. <<x, y, z>>[1] = x /\ <<x, y, z>>[2] = y /\ <<x, y, z>>[3] = z
      OBVIOUS
    <3>3. QED
      BY <3>1, <3>2
  <2>4. Silent(<<x>>) /\ Silent(<<y>>) /\ Silent(<<z>>)
    BY <1>5, <2>1, <2>3
  <2>5. Silent((<<x>> \o <<y>>) \o <<z>>)
    BY <2>4, SilentCat
  <2>6. (<<x>> \o <<y>>) \o <<z>> = <<x, y, z>>
    <3>1. <<x>> \o <<y>> = <<x, y>>
      BY Pair
    <3>2. <<x, y>> \o <<z>> = <<x, y, z>>
      BY Three
    <3>3. QED
      BY <3>1, <3>2
  <2>7. QED
    BY <2>1, <2>5, <2>6
<1>8. ASSUME NEW e \in Exp
      PROVE  Silent(B!update(e)) /\ Silent(B!set_front(e))
  <2>1. B!update(e) \in Seq(Posts) /\ B!set_front(e) \in Seq(Posts)
    BY <1>3, BearingTodos
  <2>2. /\ B!update(e) = << Posting(ES_COMM_PORT, Message("func", "update")),
                            Posting(ES_COMM_PORT, Message("expanse", e)) >>
        /\ B!set_front(e) = << Posting(ES_COMM_PORT, Message("func", "set_front")),
                               Posting(ES_COMM_PORT, Message("expanse", e)) >>
    BY <1>1 DEF B!update, B!set_front
  <2>3. QED
    BY <1>6, <2>1, <2>2
<1>9. ASSUME NEW e \in Exp, NEW colour \in Colours
      PROVE  Silent(B!setup_borders(e, colour))
  <2>1. B!setup_borders(e, colour) \in Seq(Posts)
    BY <1>3, BearingTodos
  <2>2. B!setup_borders(e, colour) = << Posting(ES_COMM_PORT, Message("func", "decorate")),
                                        Posting(ES_COMM_PORT, Message("expanse", e)),
                                        Posting(ES_COMM_PORT, Message("buffer", colour)) >>
    BY <1>1 DEF B!setup_borders
  <2>3. QED
    BY <1>7, <2>1, <2>2
<1>10. QED
  BY <1>4, <1>8, <1>9


(* What handle_events hands back and what it sends, one event further: the *)
(* event is handed back, or not, and no other is.                          *)
LEMMA HandledSorts ==
  ASSUME NEW s \in Handlings, NEW ev \in Typing, NEW list \in Seq(Exp), NEW hit \in B!Hits(list),
         NEW t, t = B!Handled(s, ev, list, hit), Silent(s.todo)
  PROVE  /\ t.new = s.new \/ t.new = s.new \o <<ev>>
         /\ Silent(t.todo)
<1>0. "blue" \in Colours /\ "grey" \in Colours
  BY DEF Colours
<1>1. /\ s = [new |-> s.new, todo |-> s.todo, mouse_down |-> s.mouse_down, resize |-> s.resize,
              chosen |-> s.chosen]
      /\ s.new \in Events /\ s.chosen \in Exp /\ s.resize \in BOOLEAN
  BY DEF Handlings
<1>2. ASSUME NEW x, Silent(x)
      PROVE  Silent(s.todo \o x)
  BY <1>2, SilentCat
<1>3. CASE ev.kind = "hide"
  <2>1. t = [s EXCEPT !.todo = @ \o B!update(s.chosen)]
    BY <1>3 DEF B!Handled
  <2>2. PICK x : x = s.todo \o B!update(s.chosen)
    OBVIOUS
  <2>3. t.new = s.new /\ t.todo = x
    BY <1>1, <2>1, <2>2
  <2>4. Silent(x)
    BY <1>1, <1>2, <2>2, BearingSilent
  <2>5. QED
    BY <2>3, <2>4
<1>4. CASE ev.kind # "hide" /\ ev.kind = "down" /\ hit.at # 0
  <2>1. PICK e \in Exp : e = list[hit.at]
    <3>1. hit.at \in DOMAIN list
      BY <1>4 DEF B!Hits, B!Miss
    <3>2. QED
      BY <3>1
  <2>2. t = B!Choose(s, e, hit.corner)
    BY <1>4, <2>1 DEF B!Handled
  <2>3. PICK x : x = IF hit.corner /\ e.handle = s.chosen.handle THEN <<>> ELSE B!Selected(s, e)
    OBVIOUS
  <2>4. Silent(x)
    <3>1. Silent(B!setup_borders(s.chosen, "grey") \o B!set_front(e))
      BY <1>0, <1>1, BearingSilent, SilentCat
    <3>2. Silent(B!Selected(s, e))
      BY <1>0, <3>1, BearingSilent, SilentCat DEF B!Selected
    <3>3. QED
      BY <2>3, <3>2, BearingSilent
  <2>5. PICK y, b : y = s.todo \o x /\ b = IF hit.corner /\ e.handle = s.chosen.handle THEN s.chosen ELSE e
    OBVIOUS
  <2>6. t = [s EXCEPT !.mouse_down = TRUE, !.resize = hit.corner, !.chosen = b, !.todo = y]
    BY <2>2, <2>3, <2>5 DEF B!Choose
  <2>7. t.new = s.new /\ t.todo = y
    BY <1>1, <2>6
  <2>8. QED
    BY <1>2, <2>4, <2>5, <2>7
<1>5. CASE ev.kind # "hide" /\ ~(ev.kind = "down" /\ hit.at # 0) /\ ev.kind = "up" /\ s.mouse_down
  <2>1. t = B!Release(s)
    BY <1>5 DEF B!Handled
  <2>2. PICK e \in Exp : e = B!Moved(s.chosen)
    <3>1. PICK c \in Exp, n \in Nat : c = s.chosen /\ n = c.place + 1
      BY <1>1 DEF Exp
    <3>2. [c EXCEPT !.place = n] \in Exp
      BY DEF Exp
    <3>3. QED
      BY <3>1, <3>2 DEF B!Moved
  <2>3. PICK x : x = IF s.resize THEN B!setup_borders(s.chosen, "blue") ELSE <<>>
    OBVIOUS
  <2>4. Silent(x) /\ Silent(B!update(e))
    BY <1>0, <1>1, <2>3, BearingSilent
  <2>5. Silent((s.todo \o B!update(e)) \o x)
    BY <1>2, <2>4, SilentCat
  <2>6. PICK y : y = (s.todo \o B!update(e)) \o x
    OBVIOUS
  <2>7. t = [s EXCEPT !.mouse_down = FALSE, !.chosen = e, !.todo = y]
    BY <2>1, <2>2, <2>3, <2>6 DEF B!Release
  <2>8. t.new = s.new /\ t.todo = y
    BY <1>1, <2>7
  <2>9. QED
    BY <2>5, <2>6, <2>8
<1>6. CASE /\ ev.kind # "hide" /\ ~(ev.kind = "down" /\ hit.at # 0)
           /\ ~(ev.kind = "up" /\ s.mouse_down)
  <2>1. t = B!Pass(s, ev)
    BY <1>6 DEF B!Handled
  <2>2. s.new \in Seq(Typing)
    BY <1>1 DEF Events, Typing
  <2>3. Append(s.new, ev) = s.new \o <<ev>>
    BY <2>2, AppendIsConcat
  <2>4. t.new = Append(s.new, ev) /\ t.todo = s.todo
    BY <1>1, <2>1 DEF B!Pass
  <2>5. QED
    BY <2>3, <2>4
<1>7. QED
  BY <1>3, <1>4, <1>5, <1>6

(* What handle_events hands back is a part of what it is given, in its     *)
(* order; what it sends meanwhile carries no events.                       *)
LEMMA AfterSorts ==
  ASSUME NEW events \in Events, NEW list \in Seq(Exp),
         NEW hits \in [DOMAIN events -> B!Hits(list)],
         mouse_down \in BOOLEAN, resize \in BOOLEAN, chosen \in Exp,
         Ordered(events), NEW a, a = B!After(events, list, hits)
  PROVE  a.new \in Events /\ Ordered(a.new) /\ Ids(a.new) \subseteq Ids(events) /\ Silent(a.todo)
<1>1. PICK h : Looked(h, events, list, hits, Len(events))
  BY AfterLooked
<1>2. PICK n \in Nat : /\ n = Len(events) /\ DOMAIN events = 1 .. n
                       /\ \A i \in 1 .. n : events[i] \in Typing
  <2>1. events \in Seq(Typing)
    BY DEF Events, Typing
  <2>2. QED
    BY <2>1
<1>3. /\ h[0] = B!Before /\ a = h[n]
      /\ \A i \in 1 .. n : h[i] = B!Handled(h[i - 1], events[i], list, hits[i])
      /\ \A i \in 0 .. n : h[i] \in Handlings
  BY <1>1, <1>2 DEF Looked
<1> DEFINE Upto(m) == {events[j].id : j \in 1 .. m}
           G == {m \in 0 .. n : /\ Ordered(h[m].new) /\ Ids(h[m].new) \subseteq Upto(m)
                                /\ Silent(h[m].todo)}
<1>4. 0 \in G
  <2>1. h[0].new = <<>> /\ h[0].todo = <<>>
    BY <1>3 DEF B!Before
  <2>2. Ordered(<<>>) /\ Ids(<<>>) = {} /\ Silent(<<>>)
    BY OrderedShort, BearingSilent
  <2>3. QED
    BY <2>1, <2>2
<1>5. ASSUME NEW m \in 1 .. n, m - 1 \in G
      PROVE  m \in G
  <2>1. PICK s \in Handlings, ev \in Typing : s = h[m - 1] /\ ev = events[m]
    BY <1>2, <1>3, <1>5
  <2>2. hits[m] \in B!Hits(list)
    BY <1>2
  <2>3. Ordered(s.new) /\ Ids(s.new) \subseteq Upto(m - 1) /\ Silent(s.todo)
    BY <1>5, <2>1
  <2>4. PICK t : t = h[m] /\ t = B!Handled(s, ev, list, hits[m])
    BY <1>3, <2>1
  <2>5. (t.new = s.new \/ t.new = s.new \o <<ev>>) /\ Silent(t.todo)
    BY <2>2, <2>3, <2>4, HandledSorts
  <2>6. m \in 0 .. n /\ Upto(m - 1) \subseteq Upto(m) /\ ev.id \in Upto(m)
    BY <2>1
  <2>7. CASE t.new = s.new
    BY <2>3, <2>4, <2>5, <2>6, <2>7
  <2>8. CASE t.new = s.new \o <<ev>>
    <3>1. s.new \in Events /\ <<ev>> \in Events /\ Ordered(<<ev>>) /\ Ids(<<ev>>) = {ev.id}
      BY OrderedShort DEF Handlings
    <3>2. Before(Upto(m - 1), {ev.id})
      <4>1. \A j \in 1 .. m - 1 : j \in 1 .. n /\ j < m
        OBVIOUS
      <4>2. \A j \in 1 .. m - 1 : events[j].id < events[m].id
        BY <1>2, <4>1 DEF Ordered
      <4>3. QED
        BY <2>1, <4>2 DEF Before
    <3>3. Before(Ids(s.new), {ev.id})
      BY <2>3, <3>2 DEF Before
    <3>4. Ordered(s.new \o <<ev>>) /\ Ids(s.new \o <<ev>>) = Ids(s.new) \cup {ev.id}
      BY <2>3, <3>1, <3>3, OrderedCat
    <3>5. Ids(t.new) \subseteq Upto(m)
      <4>1. Ids(t.new) = Ids(s.new) \cup {ev.id}
        BY <2>8, <3>4, Zenon
      <4>2. Ids(s.new) \subseteq Upto(m) /\ {ev.id} \subseteq Upto(m)
        <5> HIDE DEF Upto
        <5>1. QED
          BY <2>3, <2>6
      <4>3. QED
        BY <4>1, <4>2, Zenon
    <3>6. QED
      BY <2>4, <2>5, <2>6, <2>8, <3>4, <3>5
  <2>9. QED
    BY <2>5, <2>7, <2>8
<1>6. n \in G
  <2> HIDE DEF G
  <2>1. \A m \in 0 .. n : m \in G
    BY <1>4, <1>5, Upwards
  <2>2. QED
    BY <2>1
<1>7. Upto(n) = Ids(events)
  BY <1>2 DEF Ids
<1>8. n \in 0 .. n
  OBVIOUS
<1>9. a.new \in Events
  BY <1>3, <1>8 DEF Handlings
<1>10. QED
  BY <1>3, <1>6, <1>7, <1>9
=============================================================================
