---------------------------- MODULE SchedProofs ----------------------------
(***************************************************************************)
(* Theorems about the context switch, for any number of threads and any    *)
(* stale state bytes.                                                      *)
(*                                                                         *)
(* The inductive invariant is that the ring is typed and without           *)
(* repetition, that threads which were not ready at first never become     *)
(* so, that of the others just the current one is taken, and that a thread *)
(* is never further from the head than it still has to wait                *)
(* (NeverPassedOver), which is what bounds the wait.                       *)
(***************************************************************************)
EXTENDS Sched, SequenceTheorems, TLAPS

USE SchedAssumption DEF SchedAssumption

Types ==
  /\ ring \in Seq(Threads)
  /\ state \in [Threads -> Nat]
  /\ current_thread \in Spawned \cup {None}
  /\ waited \in [Threads -> Nat]
  /\ notReady \subseteq Spawned

EachOnce == \A p, q \in 1 .. Len(ring) : ring[p] = ring[q] => p = q

JustOneTaken == \A t \in Spawned \ notReady : ~Ready(t) <=> t = current_thread

StaleStay == \A t \in notReady : ~Ready(t) /\ t # current_thread

(* Neither the current thread nor one not yet spawned has waited; one at   *)
(* place p of the ring has waited for at most as many switches as there    *)
(* are threads behind it.                                                  *)
NeverPassedOver ==
  /\ \A t \in Threads : t \notin Spawned \/ t = current_thread => waited[t] = 0
  /\ \A p \in 1 .. Len(ring) :
       ring[p] \notin notReady => waited[ring[p]] + p <= Len(ring)

IInv == Types /\ EachOnce /\ StaleStay /\ JustOneTaken /\ NeverPassedOver

(* The threads of the ring are those at its places. *)
LEMMA SpawnedPlaces ==
  ASSUME ring \in Seq(Threads)
  PROVE  /\ DOMAIN ring = 1 .. Len(ring) /\ Len(ring) \in Nat
         /\ \A p \in 1 .. Len(ring) : ring[p] \in Spawned
         /\ \A t \in Spawned : t \in Threads /\ \E p \in 1 .. Len(ring) : ring[p] = t
BY DEF Spawned, Range

(* A part of a sequence. *)
LEMMA PartPlaces ==
  ASSUME NEW S, NEW r \in Seq(S), NEW i \in 1 .. Len(r) + 1, NEW j \in i - 1 .. Len(r)
  PROVE  /\ SubSeq(r, i, j) \in Seq(S)
         /\ Len(SubSeq(r, i, j)) = j - i + 1
         /\ \A p \in 1 .. j - i + 1 : SubSeq(r, i, j)[p] = r[p + i - 1]
<1> DEFINE a == SubSeq(r, i, j)
<1>0. Len(r) \in Nat /\ i \in Int /\ j \in Int
  OBVIOUS
<1>1. \A k \in i .. j : r[k] \in S
  BY <1>0
<1>2. /\ a \in Seq(S)
      /\ Len(a) = IF i <= j THEN j - i + 1 ELSE 0
      /\ \A p \in 1 .. j - i + 1 : a[p] = r[i + p - 1]
  BY <1>0, <1>1, SubSeqProperties
<1> HIDE DEF a
<1>3. a \in Seq(S)
  BY <1>2
<1>4. Len(a) = j - i + 1
  BY <1>0, <1>2, <1>3
<1>5. ASSUME NEW p \in 1 .. j - i + 1
      PROVE  a[p] = r[p + i - 1]
  <2>1. i + p - 1 = p + i - 1
    BY <1>0
  <2>2. QED
    BY <1>2, <2>1
<1>6. QED
  BY <1>3, <1>4, <1>5 DEF a

(* Sequences with the same elements have the same range. *)
LEMMA PlacesMakeRange ==
  ASSUME NEW S, NEW r \in Seq(S), NEW s \in Seq(S),
         \A p \in 1 .. Len(r) : \E q \in 1 .. Len(s) : s[q] = r[p],
         \A p \in 1 .. Len(s) : \E q \in 1 .. Len(r) : s[p] = r[q]
  PROVE  Range(s) = Range(r)
<1>1. Range(s) = {s[p] : p \in 1 .. Len(s)}
  BY DEF Range
<1>2. Range(r) = {r[p] : p \in 1 .. Len(r)}
  BY DEF Range
<1>3. QED
  BY <1>1, <1>2, ZenonT(30)

(* The head moved past a thread: the same threads, those behind it first,  *)
(* it and those before it last.                                            *)
LEMMA RotatedPlaces ==
  ASSUME NEW S, NEW r \in Seq(S), NEW i \in 1 .. Len(r),
         NEW a \in Seq(S), NEW b \in Seq(S), NEW s \in Seq(S),
         a = SubSeq(r, i + 1, Len(r)), b = SubSeq(r, 1, i), s = a \o b
  PROVE  /\ Len(s) = Len(r)
         /\ \A p \in 1 .. Len(r) :
              s[p] = IF p <= Len(r) - i THEN r[p + i] ELSE r[p + i - Len(r)]
<1>0. Len(r) \in Nat /\ i \in Nat
  OBVIOUS
<1>1. Len(a) = Len(r) - i
  BY <1>0, PartPlaces
<1>2. Len(b) = i
  BY <1>0, PartPlaces
<1>3. Len(s) = Len(r)
  BY <1>0, <1>1, <1>2
<1>4. ASSUME NEW p \in 1 .. Len(r)
      PROVE  s[p] = IF p <= Len(r) - i THEN r[p + i] ELSE r[p + i - Len(r)]
  <2>1. CASE p <= Len(r) - i
    <3>1. s[p] = a[p]
      BY <1>0, <1>1, <1>2, <2>1
    <3>2. a[p] = r[p + i]
      <4>1. i + 1 \in 1 .. Len(r) + 1 /\ Len(r) \in i + 1 - 1 .. Len(r)
        BY <1>0
      <4>2. \A q \in 1 .. Len(r) - (i + 1) + 1 : a[q] = r[q + (i + 1) - 1]
        BY <4>1, PartPlaces
      <4>3. p \in 1 .. Len(r) - (i + 1) + 1 /\ p + (i + 1) - 1 = p + i
        BY <1>0, <2>1
      <4>4. QED
        BY <4>2, <4>3
    <3>3. QED
      BY <2>1, <3>1, <3>2
  <2>2. CASE ~(p <= Len(r) - i)
    <3>1. s[p] = b[p + i - Len(r)]
      <4>1. p > Len(a) /\ p <= Len(a) + Len(b) /\ p \in Nat
        BY <1>0, <1>1, <1>2, <2>2
      <4>2. s[p] = b[p - Len(a)]
        BY <4>1
      <4>3. p - Len(a) = p + i - Len(r)
        <5>1. PICK n, k : n = Len(r) /\ k = Len(a)
          OBVIOUS
        <5>2. n \in Nat /\ k = n - i /\ p \in Nat
          BY <1>0, <1>1, <5>1
        <5>3. p - k = p + i - n
          BY <1>0, <5>2
        <5>4. QED
          BY <5>1, <5>3
      <4>4. QED
        BY <4>2, <4>3
    <3>2. b[p + i - Len(r)] = r[p + i - Len(r)]
      BY <1>0, <1>1, <1>2, <2>2, PartPlaces
    <3>3. QED
      BY <2>2, <3>1, <3>2
  <2>3. QED
    BY <2>1, <2>2
<1>5. QED
  BY <1>3, <1>4

(* ... and so it holds the same threads. *)
LEMMA RotatedRange ==
  ASSUME NEW S, NEW r \in Seq(S), NEW s \in Seq(S), NEW i \in 1 .. Len(r), Len(s) = Len(r),
         \A p \in 1 .. Len(r) :
           s[p] = IF p <= Len(r) - i THEN r[p + i] ELSE r[p + i - Len(r)]
  PROVE  Range(s) = Range(r)
<1>0. Len(r) \in Nat /\ i \in Nat
  OBVIOUS
<1>1. ASSUME NEW p \in 1 .. Len(r)
      PROVE  \E q \in 1 .. Len(s) : s[q] = r[p]
  <2>1. CASE p <= i
    <3>1. p + Len(r) - i \in 1 .. Len(r)
      BY <1>0, <2>1
    <3>2. ~(p + Len(r) - i <= Len(r) - i) /\ p + Len(r) - i + i - Len(r) = p
      BY <1>0, <2>1
    <3>3. s[p + Len(r) - i] = r[p]
      BY <3>1, <3>2
    <3>4. QED
      BY <3>1, <3>3
  <2>2. CASE ~(p <= i)
    <3>1. p - i \in 1 .. Len(r) /\ p - i <= Len(r) - i /\ p - i + i = p
      BY <1>0, <2>2
    <3>2. s[p - i] = r[p]
      BY <3>1
    <3>3. QED
      BY <3>1, <3>2
  <2>3. QED
    BY <2>1, <2>2
<1>2. ASSUME NEW p \in 1 .. Len(s)
      PROVE  \E q \in 1 .. Len(r) : s[p] = r[q]
  <2>1. CASE p <= Len(r) - i
    <3>1. p + i \in 1 .. Len(r) /\ s[p] = r[p + i]
      BY <1>0, <2>1
    <3>2. QED
      BY <3>1
  <2>2. CASE ~(p <= Len(r) - i)
    <3>1. p + i - Len(r) \in 1 .. Len(r) /\ s[p] = r[p + i - Len(r)]
      BY <1>0, <2>2
    <3>2. QED
      BY <3>1
  <2>3. QED
    BY <2>1, <2>2
<1>3. QED
  BY <1>1, <1>2, PlacesMakeRange

(* A new thread comes behind the first, whose place does not change; all   *)
(* others move one place back.                                             *)
LEMMA LinkedPlaces ==
  ASSUME NEW S, NEW r \in Seq(S), NEW x \in S, r # <<>>,
         NEW a \in Seq(S), NEW b \in Seq(S), NEW c \in Seq(S), NEW l \in Seq(S),
         a = SubSeq(r, 1, 2 - 1), b = SubSeq(r, 2, Len(r)), c = a \o <<x>>, l = c \o b
  PROVE  /\ Len(l) = Len(r) + 1
         /\ \A p \in 1 .. Len(r) + 1 :
              l[p] = IF p = 2 THEN x ELSE IF p = 1 THEN r[1] ELSE r[p - 1]
<1>0. Len(r) \in Nat /\ Len(r) >= 1
  OBVIOUS
<1>1. Len(a) = 1 /\ a[1] = r[1]
  <2>1. 1 \in 1 .. Len(r) + 1 /\ 2 - 1 \in 1 - 1 .. Len(r)
    BY <1>0
  <2>2. /\ Len(a) = (2 - 1) - 1 + 1
        /\ \A p \in 1 .. (2 - 1) - 1 + 1 : a[p] = r[p + 1 - 1]
    BY <2>1, PartPlaces
  <2>3. 1 \in 1 .. (2 - 1) - 1 + 1 /\ 1 + 1 - 1 = 1
    OBVIOUS
  <2>4. a[1] = r[1 + 1 - 1]
    BY <2>2, <2>3
  <2>5. QED
    BY <2>2, <2>4
<1>2. Len(b) = Len(r) - 1 /\ \A p \in 1 .. Len(r) - 1 : b[p] = r[p + 1]
  <2>1. 2 \in 1 .. Len(r) + 1 /\ Len(r) \in 2 - 1 .. Len(r)
    BY <1>0
  <2>2. /\ Len(b) = Len(r) - 2 + 1
        /\ \A p \in 1 .. Len(r) - 2 + 1 : b[p] = r[p + 2 - 1]
    BY <2>1, PartPlaces
  <2>3. Len(r) - 2 + 1 = Len(r) - 1 /\ \A p \in 1 .. Len(r) - 1 : p + 2 - 1 = p + 1
    BY <1>0
  <2>4. QED
    BY <2>2, <2>3
<1>3. Len(c) = 2 /\ c[1] = r[1] /\ c[2] = x
  BY <1>1
<1>4. Len(l) = Len(r) + 1
  BY <1>0, <1>2, <1>3
<1>5. ASSUME NEW p \in 1 .. Len(r) + 1
      PROVE  l[p] = IF p = 2 THEN x ELSE IF p = 1 THEN r[1] ELSE r[p - 1]
  <2>1. CASE p \in {1, 2}
    BY <1>0, <1>2, <1>3, <2>1
  <2>2. CASE p \notin {1, 2}
    <3>1. l[p] = b[p - 2]
      BY <1>0, <1>2, <1>3, <2>2
    <3>2. p - 2 \in 1 .. Len(r) - 1 /\ p - 2 + 1 = p - 1
      BY <1>0, <2>2
    <3>3. QED
      BY <1>2, <2>2, <3>1, <3>2
  <2>3. QED
    BY <2>1, <2>2
<1>6. QED
  BY <1>4, <1>5

(* ... and so it joins the threads there were. *)
LEMMA LinkedRange ==
  ASSUME NEW S, NEW r \in Seq(S), NEW x \in S, NEW l \in Seq(S), r # <<>>,
         Len(l) = Len(r) + 1,
         \A p \in 1 .. Len(r) + 1 :
           l[p] = IF p = 2 THEN x ELSE IF p = 1 THEN r[1] ELSE r[p - 1]
  PROVE  Range(l) = Range(r) \cup {x}
<1>0. Len(r) \in Nat /\ Len(r) >= 1
  OBVIOUS
<1>1. \E q \in 1 .. Len(l) : l[q] = x
  <2>1. 2 \in 1 .. Len(r) + 1
    BY <1>0
  <2>2. QED
    BY <2>1
<1>2. ASSUME NEW p \in 1 .. Len(r)
      PROVE  \E q \in 1 .. Len(l) : l[q] = r[p]
  <2>1. CASE p = 1
    BY <1>0, <2>1
  <2>2. CASE p # 1
    <3>1. /\ p + 1 \in 1 .. Len(r) + 1 /\ p + 1 # 1 /\ p + 1 # 2
          /\ p + 1 - 1 = p
      BY <1>0, <2>2
    <3>2. l[p + 1] = r[p]
      BY <3>1
    <3>3. QED
      BY <3>1, <3>2
  <2>3. QED
    BY <2>1, <2>2
<1>3. ASSUME NEW p \in 1 .. Len(l), l[p] # x
      PROVE  \E q \in 1 .. Len(r) : l[p] = r[q]
  <2>1. CASE p = 1
    BY <1>0, <2>1
  <2>2. CASE p # 1
    <3>1. p \in 1 .. Len(r) + 1 /\ p # 2
      BY <1>3
    <3>2. p - 1 \in 1 .. Len(r)
      BY <1>0, <2>2, <3>1
    <3>3. QED
      BY <2>2, <3>1, <3>2
  <2>3. QED
    BY <2>1, <2>2
<1>4. Range(l) = {l[p] : p \in 1 .. Len(l)}
  BY DEF Range
<1>5. Range(r) = {r[p] : p \in 1 .. Len(r)}
  BY DEF Range
<1>6. QED
  BY <1>1, <1>2, <1>3, <1>4, <1>5

(* The ring after the loop of context_switch has gone round to place i.   *)
LEMMA RotatedRing ==
  ASSUME ring \in Seq(Threads), NEW i \in 1 .. Len(ring)
  PROVE  /\ RotatedPast(i) \in Seq(Threads)
         /\ Len(RotatedPast(i)) = Len(ring)
         /\ \A p \in 1 .. Len(ring) :
              RotatedPast(i)[p] = IF p <= Len(ring) - i THEN ring[p + i]
                                  ELSE ring[p + i - Len(ring)]
         /\ Range(RotatedPast(i)) = Range(ring)
<1> DEFINE a == SubSeq(ring, i + 1, Len(ring))
           b == SubSeq(ring, 1, i)
<1>1. i + 1 \in 1 .. Len(ring) + 1 /\ Len(ring) \in i + 1 - 1 .. Len(ring)
  OBVIOUS
<1>2. 1 \in 1 .. Len(ring) + 1 /\ i \in 1 - 1 .. Len(ring)
  OBVIOUS
<1>3. a \in Seq(Threads) /\ b \in Seq(Threads)
  BY <1>1, <1>2, PartPlaces
<1>4. RotatedPast(i) = a \o b
  BY DEF RotatedPast
<1>5. RotatedPast(i) \in Seq(Threads)
  BY <1>3, <1>4
<1>6. a = SubSeq(ring, i + 1, Len(ring)) /\ b = SubSeq(ring, 1, i)
  OBVIOUS
<1> DEFINE s == RotatedPast(i)
<1>7. s \in Seq(Threads) /\ s = a \o b
  BY <1>4, <1>5
<1> HIDE DEF a, b, s
<1>8. /\ Len(s) = Len(ring)
      /\ \A p \in 1 .. Len(ring) :
           s[p] = IF p <= Len(ring) - i THEN ring[p + i] ELSE ring[p + i - Len(ring)]
      /\ Range(s) = Range(ring)
  <2>1. Len(s) = Len(ring)
    BY <1>3, <1>6, <1>7, RotatedPlaces
  <2>3. ASSUME NEW p \in 1 .. Len(ring)
        PROVE  s[p] = IF p <= Len(ring) - i THEN ring[p + i] ELSE ring[p + i - Len(ring)]
    BY <1>3, <1>6, <1>7, RotatedPlaces
  <2>2. Range(s) = Range(ring)
    BY <1>7, <2>1, <2>3, RotatedRange
  <2>4. QED
    BY <2>1, <2>2, <2>3
<1>9. QED
  BY <1>7, <1>8 DEF s

(* spawn_thread links a thread in behind the head.                         *)
LEMMA LinkedRing ==
  ASSUME NEW r \in Seq(Threads), NEW x \in Threads
  PROVE  /\ Linked(r, x) \in Seq(Threads)
         /\ Len(Linked(r, x)) = Len(r) + 1
         /\ \A p \in 1 .. Len(r) + 1 :
              Linked(r, x)[p] = IF r = <<>> \/ p = 2 THEN x
                                ELSE IF p = 1 THEN r[1] ELSE r[p - 1]
         /\ Range(Linked(r, x)) = Range(r) \cup {x}
<1>1. CASE r = <<>>
  BY <1>1 DEF Linked, Range
<1>2. CASE r # <<>>
  <2> DEFINE a == SubSeq(r, 1, 2 - 1)
             b == SubSeq(r, 2, Len(r))
             c == a \o <<x>>
  <2>1. Len(r) \in Nat /\ Len(r) >= 1
    BY <1>2
  <2>2. 1 \in 1 .. Len(r) + 1 /\ 2 - 1 \in 1 - 1 .. Len(r)
    BY <2>1
  <2>3. 2 \in 1 .. Len(r) + 1 /\ Len(r) \in 2 - 1 .. Len(r)
    BY <2>1
  <2>4. a \in Seq(Threads) /\ b \in Seq(Threads)
    BY <2>2, <2>3, PartPlaces
  <2>5. Linked(r, x) = c \o b
    BY <1>2 DEF Linked, InsertAt
  <2>6. c \in Seq(Threads) /\ Linked(r, x) \in Seq(Threads)
    BY <2>4, <2>5
  <2>7. /\ Len(Linked(r, x)) = Len(r) + 1
        /\ \A p \in 1 .. Len(r) + 1 :
              Linked(r, x)[p] = IF p = 2 THEN x ELSE IF p = 1 THEN r[1] ELSE r[p - 1]
        /\ Range(Linked(r, x)) = Range(r) \cup {x}
    <3>1. a = SubSeq(r, 1, 2 - 1) /\ b = SubSeq(r, 2, Len(r)) /\ c = a \o <<x>>
      OBVIOUS
    <3> HIDE DEF a, b, c
    <3>2. PICK l \in Seq(Threads) : l = Linked(r, x) /\ l = c \o b
      BY <2>5, <2>6
    <3>3. Len(l) = Len(r) + 1
      BY <1>2, <2>4, <2>6, <3>1, <3>2, LinkedPlaces
    <3>4. ASSUME NEW p \in 1 .. Len(r) + 1
          PROVE  l[p] = IF p = 2 THEN x ELSE IF p = 1 THEN r[1] ELSE r[p - 1]
      BY <1>2, <2>4, <2>6, <3>1, <3>2, LinkedPlaces
    <3>8. Range(l) = Range(r) \cup {x}
      BY <1>2, <3>3, <3>4, LinkedRange, SMTT(20)
    <3>9. QED
      BY <3>2, <3>3, <3>4, <3>8
  <2>8. QED
    BY <1>2, <2>6, <2>7
<1>3. QED
  BY <1>1, <1>2

-----------------------------------------------------------------------------

(* The invariant with no thread spawned.                                   *)
LEMMA InitIInv == Init => IInv
BY DEF Init, IInv, Types, EachOnce, StaleStay, JustOneTaken, NeverPassedOver,
       Spawned, Range, THRD_STATE_READY

(* A spawn keeps the invariant: the new thread has waited for nothing yet. *)
LEMMA SpawnIInv ==
  ASSUME IInv, NEW t \in Threads, t \notin Spawned, Enters(t),
         UNCHANGED <<current_thread, waited>>
  PROVE  IInv'
<1>1. PICK b \in StaleBytes :
        /\ state' = [state EXCEPT ![t] = b]
        /\ notReady' = IF b = THRD_STATE_READY THEN notReady ELSE notReady \cup {t}
  BY DEF Enters
<1>2. /\ t \notin Spawned /\ ring' = Linked(ring, t)
      /\ UNCHANGED <<current_thread, waited>>
  BY DEF Enters
<1>3. ring \in Seq(Threads) /\ Len(ring) \in Nat
  BY DEF IInv, Types
<1>4. /\ ring' \in Seq(Threads)
      /\ Len(ring') = Len(ring) + 1
      /\ \A p \in 1 .. Len(ring) + 1 :
           ring'[p] = IF ring = <<>> \/ p = 2 THEN t
                      ELSE IF p = 1 THEN ring[1] ELSE ring[p - 1]
      /\ Spawned' = Spawned \cup {t}
  BY <1>2, <1>3, LinkedRing, ZenonT(30) DEF Spawned
<1>5. /\ t # current_thread /\ t \notin notReady
      /\ \A p \in 1 .. Len(ring) : ring[p] # t
  BY <1>2, <1>3, SpawnedPlaces DEF IInv, Types
<1>6. Types'
  <2>1. b \in Nat
    OBVIOUS
  <2>2. QED
    BY <1>1, <1>2, <1>4, <2>1 DEF IInv, Types
<1>7. /\ Ready(t)' <=> t \notin notReady'
      /\ \A s \in Threads \ {t} : (Ready(s)' <=> Ready(s)) /\ (s \in notReady' <=> s \in notReady)
  BY <1>1, <1>5 DEF IInv, Types, Ready
<1>8. \A p \in 1 .. Len(ring) + 1 :
        \/ ring'[p] = t /\ p = IF ring = <<>> THEN 1 ELSE 2
        \/ \E q \in 1 .. Len(ring) : /\ ring'[p] = ring[q]
                                     /\ p = IF q = 1 THEN 1 ELSE q + 1
  <2>1. ASSUME NEW p \in 1 .. Len(ring) + 1, ~(ring = <<>> \/ p = 2)
        PROVE  \E q \in 1 .. Len(ring) : /\ ring'[p] = ring[q]
                                         /\ p = IF q = 1 THEN 1 ELSE q + 1
    <3>1. Len(ring) >= 1
      BY <1>3, <2>1
    <3>2. CASE p = 1
      BY <1>3, <1>4, <2>1, <3>1, <3>2
    <3>3. CASE p # 1
      <4>1. p - 1 \in 1 .. Len(ring) /\ p - 1 # 1 /\ p = p - 1 + 1
        BY <1>3, <2>1, <3>3
      <4>2. QED
        BY <1>4, <2>1, <3>3, <4>1
    <3>4. QED
      BY <3>2, <3>3
  <2>2. ASSUME NEW p \in 1 .. Len(ring) + 1, ring = <<>> \/ p = 2
        PROVE  ring'[p] = t /\ p = IF ring = <<>> THEN 1 ELSE 2
    BY <1>3, <1>4, <2>2
  <2>3. QED
    BY <2>1, <2>2
<1>9. EachOnce'
  <2> SUFFICES ASSUME NEW p \in 1 .. Len(ring) + 1, NEW q \in 1 .. Len(ring) + 1,
                      ring'[p] = ring'[q]
               PROVE  p = q
    BY <1>4 DEF EachOnce
  <2>1. QED
    BY <1>3, <1>5, <1>8 DEF IInv, EachOnce
<1>10. StaleStay'
  <2>1. ASSUME NEW s \in notReady'
        PROVE  ~Ready(s)' /\ s # current_thread'
    <3>1. s \in Threads
      BY <1>1, <1>3, SpawnedPlaces DEF IInv, Types
    <3>2. CASE s = t
      BY <1>2, <1>5, <1>7, <2>1, <3>2
    <3>3. CASE s # t
      BY <1>2, <1>7, <2>1, <3>1, <3>3 DEF IInv, StaleStay
    <3>4. QED
      BY <3>2, <3>3
  <2>2. QED
    BY <2>1 DEF StaleStay
<1>11. JustOneTaken'
  <2>1. ASSUME NEW s \in Spawned' \ notReady'
        PROVE  ~Ready(s)' <=> s = current_thread'
    <3>1. s \in Threads
      BY <1>3, <1>4, SpawnedPlaces
    <3>2. CASE s = t
      BY <1>2, <1>5, <1>7, <2>1, <3>2
    <3>3. CASE s # t
      BY <1>2, <1>4, <1>7, <2>1, <3>1, <3>3 DEF IInv, JustOneTaken
    <3>4. QED
      BY <3>2, <3>3
  <2>2. QED
    BY <2>1 DEF JustOneTaken
<1>12. NeverPassedOver'
  <2>1. ASSUME NEW p \in 1 .. Len(ring) + 1, ring'[p] \notin notReady'
        PROVE  waited'[ring'[p]] + p <= Len(ring) + 1
    <3>1. CASE ring'[p] = t
      BY <1>2, <1>3, <1>8, <3>1 DEF IInv, NeverPassedOver
    <3>2. CASE ring'[p] # t
      <4>1. PICK q \in 1 .. Len(ring) : ring'[p] = ring[q] /\ p = IF q = 1 THEN 1 ELSE q + 1
        BY <1>8, <3>2
      <4>2. ring[q] \in Threads /\ ring[q] \notin notReady
        BY <1>3, <1>7, <2>1, <3>2, <4>1, SpawnedPlaces
      <4>3. waited[ring[q]] + q <= Len(ring) /\ waited[ring[q]] \in Nat
        BY <4>2 DEF IInv, NeverPassedOver, Types
      <4>4. QED
        BY <1>2, <1>3, <4>1, <4>3
    <3>3. QED
      BY <3>1, <3>2
  <2>2. QED
    BY <1>2, <1>4, <1>6, <2>1 DEF IInv, Types, NeverPassedOver
<1>13. QED
  BY <1>6, <1>9, <1>10, <1>11, <1>12 DEF IInv

(* So does a context switch to the first ready thread, at place i.         *)
LEMMA SwitchIInv ==
  ASSUME IInv, NEW i \in DOMAIN ring, NEW t, t = ring[i],
         Ready(t), \A j \in 1 .. i - 1 : ~Ready(ring[j]),
         ring' = RotatedPast(i), state' = Marked(t), current_thread' = t,
         waited' = [s \in Threads |->
                      IF s \in Spawned \ (notReady \cup {t}) THEN waited[s] + 1 ELSE 0],
         notReady' = notReady
  PROVE  IInv'
<1> DEFINE n == Len(ring)
<1>1. ring \in Seq(Threads) /\ n \in Nat /\ i \in 1 .. n
  BY DEF IInv, Types
<1>2. t \in Spawned /\ t \in Threads /\ t # None
  BY <1>1, SpawnedPlaces
<1>3. /\ ring' \in Seq(Threads) /\ Len(ring') = n
      /\ \A p \in 1 .. n :
           ring'[p] = IF p <= n - i THEN ring[p + i] ELSE ring[p + i - n]
      /\ Spawned' = Spawned
  BY <1>1, RotatedRing DEF Spawned
<1>4. t \notin notReady /\ t # current_thread
  BY <1>2 DEF IInv, StaleStay, JustOneTaken
<1>5. \A s \in Threads :
        /\ s = current_thread => Ready(s)'
        /\ s = t => ~Ready(s)'
        /\ s # current_thread /\ s # t => (Ready(s)' <=> Ready(s))
  BY <1>4 DEF Marked, Ready, THRD_STATE_READY, THRD_STATE_SETUP
<1>6. \A s \in Threads :
        waited'[s] = IF s \in Spawned \ (notReady \cup {t}) THEN waited[s] + 1 ELSE 0
  OBVIOUS
<1>7. Types'
  <2>1. state' \in [Threads -> Nat]
    BY DEF IInv, Types, Marked, THRD_STATE_READY, THRD_STATE_SETUP
  <2>2. waited' \in [Threads -> Nat]
    BY DEF IInv, Types
  <2>3. QED
    BY <1>2, <1>3, <2>1, <2>2 DEF IInv, Types
<1>8. ASSUME NEW p \in 1 .. n
      PROVE  \E q \in 1 .. n : /\ ring'[p] = ring[q]
                               /\ q = IF p <= n - i THEN p + i ELSE p + i - n
  <2>1. CASE p <= n - i
    <3>1. p + i \in 1 .. n
      BY <1>1, <2>1
    <3>2. QED
      BY <1>3, <2>1, <3>1
  <2>2. CASE ~(p <= n - i)
    <3>1. p + i - n \in 1 .. n
      BY <1>1, <2>2
    <3>2. QED
      BY <1>3, <2>2, <3>1
  <2>3. QED
    BY <2>1, <2>2
<1> HIDE DEF n
<1>9. EachOnce'
  <2>1. ASSUME NEW p \in 1 .. n, NEW q \in 1 .. n, ring'[p] = ring'[q]
        PROVE  p = q
    <3>1. PICK pp \in 1 .. n : /\ ring'[p] = ring[pp]
                               /\ pp = IF p <= n - i THEN p + i ELSE p + i - n
      BY <1>8
    <3>2. PICK qq \in 1 .. n : /\ ring'[q] = ring[qq]
                               /\ qq = IF q <= n - i THEN q + i ELSE q + i - n
      BY <1>8
    <3>3. pp = qq
      BY <2>1, <3>1, <3>2 DEF n, IInv, EachOnce
    <3>4. QED
      BY <1>1, <3>1, <3>2, <3>3
  <2>2. QED
    BY <1>3, <2>1 DEF EachOnce
<1>10. StaleStay'
  <2>1. ASSUME NEW s \in notReady
        PROVE  ~Ready(s)' /\ s # t
    <3>1. s \in Threads /\ ~Ready(s) /\ s # current_thread
      BY <1>1, SpawnedPlaces DEF IInv, Types, StaleStay
    <3>2. QED
      BY <1>4, <1>5, <3>1
  <2>2. QED
    BY <2>1 DEF StaleStay
<1>11. JustOneTaken'
  <2>1. ASSUME NEW s \in Spawned \ notReady
        PROVE  ~Ready(s)' <=> s = t
    <3>1. s \in Threads /\ (~Ready(s) <=> s = current_thread)
      BY <1>1, SpawnedPlaces DEF IInv, JustOneTaken
    <3>2. QED
      BY <1>4, <1>5, <3>1
  <2>2. QED
    BY <1>3, <2>1 DEF JustOneTaken
<1>12. NeverPassedOver'
  <2>1. ASSUME NEW p \in 1 .. n, ring'[p] \notin notReady
        PROVE  waited'[ring'[p]] + p <= n
    <3>1. PICK q \in 1 .. n : /\ ring'[p] = ring[q]
                              /\ q = IF p <= n - i THEN p + i ELSE p + i - n
      BY <1>8
    <3>2. ring[q] \in Spawned /\ ring[q] \in Threads
      BY <1>1, SpawnedPlaces DEF n
    <3>3. waited[ring[q]] \in Nat /\ waited[ring[q]] + q <= n
      BY <2>1, <3>1, <3>2 DEF n, IInv, Types, NeverPassedOver
    <3>4. CASE ring[q] = t
      <4>1. waited'[ring[q]] = 0
        BY <1>6, <3>2, <3>4
      <4>2. QED
        BY <1>1, <3>1, <4>1
    <3>5. CASE ring[q] # t
      <4>1. waited'[ring[q]] = waited[ring[q]] + 1
        BY <1>6, <2>1, <3>1, <3>2, <3>5
      <4>2. CASE p <= n - i
        BY <1>1, <3>1, <3>3, <4>1, <4>2, SMTT(20)
      <4>3. CASE ~(p <= n - i)
        <5>1. q \in 1 .. i - 1 /\ p + 1 <= n
          BY <1>1, <3>1, <3>5, <4>3
        <5>2. ~Ready(ring[q])
          BY <5>1
        <5>3. ring[q] = current_thread
          BY <2>1, <3>1, <3>2, <5>2 DEF IInv, JustOneTaken
        <5>4. waited[ring[q]] = 0
          BY <3>2, <5>3 DEF IInv, NeverPassedOver
        <5>5. QED
          BY <1>1, <3>1, <4>1, <5>1, <5>4
      <4>4. QED
        BY <4>2, <4>3
    <3>6. QED
      BY <3>4, <3>5
  <2>2. \A s \in Threads : s \notin Spawned \/ s = t => waited'[s] = 0
    BY <1>6
  <2>3. QED
    BY <1>3, <2>1, <2>2 DEF n, NeverPassedOver
<1>13. QED
  BY <1>7, <1>9, <1>10, <1>11, <1>12 DEF IInv

(* The inductive invariant holds in every state the scheduler reaches. *)
THEOREM Invariant == Spec => []IInv
<1>1. IInv /\ [Next]_vars => IInv'
  <2> SUFFICES ASSUME IInv, [Next]_vars PROVE IInv'
    OBVIOUS
  <2>1. ASSUME NEW t \in Threads, spawn_process(t)
        PROVE  IInv'
    <3>1. t \notin Spawned /\ Enters(t) /\ UNCHANGED <<current_thread, waited>>
      BY <2>1 DEF spawn_process
    <3>2. QED
      BY <3>1, SpawnIInv
  <2>2. CASE UNCHANGED <<ring, state, current_thread, waited, notReady>>
    BY <2>2 DEF IInv, Types, EachOnce, StaleStay, JustOneTaken, NeverPassedOver, Spawned, Ready
  <2>3. ASSUME NEW t \in Threads, spawn_short(t)
        PROVE  IInv'
    <3>1. /\ t \notin Spawned /\ UNCHANGED <<current_thread, waited>>
          /\ Enters(t) \/ UNCHANGED <<ring, state, notReady>>
      BY <2>3 DEF spawn_short
    <3>2. QED
      BY <2>2, <3>1, SpawnIInv
  <2>4. CASE context_switch
    <3>1. CASE UNCHANGED vars
      BY <2>2, <3>1 DEF vars
    <3>2. CASE \E i \in DOMAIN ring :
                 /\ Ready(ring[i]) /\ \A j \in 1 .. i - 1 : ~Ready(ring[j])
                 /\ ring' = RotatedPast(i) /\ state' = Marked(ring[i])
                 /\ current_thread' = ring[i]
                 /\ waited' = [s \in Threads |->
                                 IF s \in Spawned \ (notReady \cup {ring[i]})
                                 THEN waited[s] + 1 ELSE 0]
                 /\ notReady' = notReady
      BY <3>2, SwitchIInv
    <3>3. QED
      BY <2>4, <3>1, <3>2 DEF context_switch
  <2>5. QED
    BY <2>1, <2>2, <2>3, <2>4 DEF Next, spawn_fails, vars
<1>2. QED
  BY <1>1, InitIInv, PTL DEF Spec

(* Of the threads that were ready when they were spawned exactly the       *)
(* current one is marked as taken, for any number of threads: no context   *)
(* switch leaves a mark behind or forgets one.                             *)
THEOREM OneThreadTaken == Spec => []OneTaken
<1>1. IInv => OneTaken
  BY DEF IInv, JustOneTaken, OneTaken
<1>2. QED
  BY <1>1, Invariant, PTL

(* Between two turns of a thread there are fewer switches than threads:    *)
(* nobody is passed over, although spawned threads enter near the head.    *)
THEOREM WaitIsBounded == Spec => []BoundedWait
<1>1. IInv => BoundedWait
  <2> SUFFICES ASSUME IInv, NEW t \in Spawned \ notReady
               PROVE  waited[t] < Len(ring)
    BY DEF BoundedWait
  <2>1. PICK p \in 1 .. Len(ring) : ring[p] = t
    BY SpawnedPlaces DEF IInv, Types
  <2>2. t \in Threads /\ Len(ring) \in Nat
    BY SpawnedPlaces DEF IInv, Types
  <2>3. waited[t] \in Nat /\ waited[t] + p <= Len(ring)
    BY <2>1, <2>2 DEF IInv, Types, NeverPassedOver
  <2>4. QED
    BY <2>2, <2>3
<1>2. QED
  BY <1>1, Invariant, PTL
=============================================================================
