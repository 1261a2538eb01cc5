--------------------------- MODULE RingArithmetic ---------------------------
(***************************************************************************)
(* Facts the proofs cite: counters reduced modulo the size of a ring, what *)
(* remains of a sequence behind its front, and induction.                  *)
(***************************************************************************)
EXTENDS Integers, Sequences, NaturalsInduction, WellFoundedInduction, TLAPS

(***************************************************************************)
(* The slot of a counter is a slot of the ring.                            *)
(***************************************************************************)
LEMMA ModRange ==
  ASSUME NEW S \in Nat \ {0}, NEW a \in Int
  PROVE  /\ a % S \in 0 .. S - 1
         /\ a \div S \in Int
         /\ a = S * (a \div S) + (a % S)
  OBVIOUS

(***************************************************************************)
(* Quotient and remainder are determined by the equation between them.     *)
(***************************************************************************)
LEMMA ModUnique ==
  ASSUME NEW S \in Nat \ {0}, NEW q \in Int, NEW r \in 0 .. S - 1
  PROVE  (S * q + r) % S = r
  OBVIOUS

(***************************************************************************)
(* Advancing a masked index is masking the advanced counter.               *)
(***************************************************************************)
LEMMA ModSucc ==
  ASSUME NEW S \in Nat \ {0}, NEW a \in Nat
  PROVE  ((a % S) + 1) % S = (a + 1) % S
<1> DEFINE q == a \div S
           r == a % S
<1>1. q \in Int /\ r \in 0 .. S - 1 /\ a = S * q + r
  BY ModRange
<1>2. CASE r + 1 < S
  <2>1. r + 1 \in 0 .. S - 1 /\ a + 1 = S * q + (r + 1)
    BY <1>1, <1>2
  <2>2. (a + 1) % S = r + 1
    BY Zenon, <1>1, <2>1, ModUnique
  <2>3. (r + 1) % S = r + 1
    BY <2>1, ModUnique
  <2> QED BY <2>2, <2>3
<1>3. CASE r + 1 = S
  <2>1. a + 1 = S * (q + 1) + 0 /\ q + 1 \in Int
    BY <1>1, <1>3
  <2>2. 0 \in 0 .. S - 1
    OBVIOUS
  <2>3. (S * (q + 1) + 0) % S = 0
    BY ONLY <2>1, <2>2, ModUnique, S \in Nat \ {0}
  <2>4. (a + 1) % S = 0
    BY ONLY <2>1, <2>3
  <2>5. r + 1 = S * 1 + 0
    BY <1>3, <1>1
  <2>6. (r + 1) % S = 0
    BY <2>5, ModUnique
  <2> QED BY <2>4, <2>6
<1> QED BY <1>1, <1>2, <1>3

(***************************************************************************)
(* Two counters in the same slot are at least a lap apart.                 *)
(***************************************************************************)
LEMMA SameSlotLapApart ==
  ASSUME NEW S \in Nat \ {0}, NEW a \in Nat, NEW b \in Nat,
         a % S = b % S, a < b
  PROVE  a + S <= b
<1> DEFINE q == a \div S
           p == b \div S
           r == a % S
<1>1. q \in Int /\ p \in Int /\ r \in 0 .. S - 1 /\ a = S * q + r /\ b = S * p + r
  BY ModRange
<1> HIDE DEF q, p, r
<1>2. S * q < S * p
  BY <1>1
<1>3. q < p
  BY <1>1, <1>2
<1>4. p = q + 1 + (p - q - 1) /\ p - q - 1 \in Nat
  BY <1>1, <1>3
<1>5. S * p = S * q + S + S * (p - q - 1)
  BY <1>1
<1>6. S * (p - q - 1) >= 0
  BY <1>4
<1> QED BY <1>1, <1>5, <1>6

(***************************************************************************)
(* Counters exactly one lap apart share a slot.                            *)
(***************************************************************************)
LEMMA LapSameSlot ==
  ASSUME NEW S \in Nat \ {0}, NEW a \in Nat
  PROVE  (a + S) % S = a % S
<1> DEFINE q == a \div S
           r == a % S
<1>1. q \in Int /\ r \in 0 .. S - 1 /\ a = S * q + r
  BY ModRange
<1> HIDE DEF q, r
<1>2. a + S = S * (q + 1) + r /\ q + 1 \in Int
  BY <1>1
<1>3. (S * (q + 1) + r) % S = r
  BY <1>1, <1>2, ModUnique
<1>4. (a + S) % S = r
  BY <1>2, <1>3
<1> QED BY <1>4 DEF r

(***************************************************************************)
(* The masked difference of two masked counters less than a lap apart is   *)
(* their difference.                                                       *)
(***************************************************************************)
LEMMA ModDifference ==
  ASSUME NEW S \in Nat \ {0}, NEW a \in Nat, NEW b \in Nat, b <= a, a < b + S
  PROVE  ((a % S) - (b % S)) % S = a - b
<1> DEFINE q == a \div S
           p == b \div S
           r == a % S
           t == b % S
<1>1. q \in Int /\ p \in Int /\ r \in 0 .. S - 1 /\ t \in 0 .. S - 1
      /\ a = S * q + r /\ b = S * p + t
  BY ModRange
<1> HIDE DEF q, p, r, t
<1>2. S * (p - q) = S * p - S * q /\ p - q \in Int
  BY <1>1
<1>3. r - t = S * (p - q) + (a - b)
  BY <1>1, <1>2
<1>4. a - b \in 0 .. S - 1
  OBVIOUS
<1>5. (S * (p - q) + (a - b)) % S = a - b
  BY ONLY <1>2, <1>4, S \in Nat \ {0}, ModUnique
<1>6. (r - t) % S = a - b
  BY ONLY <1>3, <1>5
<1> QED BY <1>6 DEF r, t

(***************************************************************************)
(* A sequence's elements are in the set it is a sequence over.             *)
(***************************************************************************)
LEMMA ElementInSet ==
  ASSUME NEW S, NEW s \in Seq(S), NEW n \in 1 .. Len(s)
  PROVE  s[n] \in S
OBVIOUS

(***************************************************************************)
(* Two sequences are equal when their lengths and their elements are.      *)
(***************************************************************************)
LEMMA SequencesEqual ==
  ASSUME NEW S, NEW s \in Seq(S), NEW t \in Seq(S),
         Len(s) = Len(t), \A i \in 1 .. Len(s) : s[i] = t[i]
  PROVE  s = t
OBVIOUS

(***************************************************************************)
(* What remains of a sequence after its first k elements grows with it.    *)
(***************************************************************************)
LEMMA RestOfAppend ==
  ASSUME NEW S, NEW s \in Seq(S), NEW e \in S, NEW k \in 0 .. Len(s)
  PROVE  SubSeq(Append(s, e), k + 1, Len(s) + 1) = Append(SubSeq(s, k + 1, Len(s)), e)
<1> DEFINE N == Len(s)
           t == Append(s, e)
           q == SubSeq(s, k + 1, N)
           l == SubSeq(t, k + 1, N + 1)
           r == Append(q, e)
<1>1. N \in Nat
  OBVIOUS
<1>2. t \in Seq(S) /\ Len(t) = N + 1 /\ t[N + 1] = e /\ \A j \in 1 .. N : t[j] = s[j]
  OBVIOUS
<1>3. q \in Seq(S) /\ Len(q) = N - k /\ \A j \in 1 .. N - k : q[j] = s[k + j]
  OBVIOUS
<1> HIDE DEF t, q
<1>4. r \in Seq(S) /\ Len(r) = N - k + 1 /\ r[N - k + 1] = e
      /\ \A j \in 1 .. N - k : r[j] = q[j]
  BY <1>1, <1>3
<1>5. l \in Seq(S) /\ Len(l) = N - k + 1 /\ \A j \in 1 .. N - k + 1 : l[j] = t[k + j]
  BY <1>1, <1>2
<1> HIDE DEF N, l, r
<1>6. ASSUME NEW j \in 1 .. N - k + 1 PROVE l[j] = r[j]
  <2>1. CASE j = N - k + 1
    <3>1. k + j = N + 1
      BY <1>1, <2>1
    <3>2. l[j] = t[N + 1]
      BY <1>5, <3>1
    <3> QED BY <1>2, <1>4, <2>1, <3>2
  <2>2. CASE j # N - k + 1
    <3>1. j \in 1 .. N - k /\ k + j \in 1 .. N
      BY <1>1, <2>2 DEF N
    <3>2. l[j] = t[k + j] /\ t[k + j] = s[k + j]
      BY <1>2, <1>5, <3>1
    <3>3. r[j] = q[j] /\ q[j] = s[k + j]
      BY <1>3, <1>4, <3>1
    <3> QED BY <3>2, <3>3
  <2> QED BY <2>1, <2>2
<1>7. l = r
  BY <1>4, <1>5, <1>6, SequencesEqual
<1> QED BY Zenon, <1>7 DEF l, r, t, q, N

(***************************************************************************)
(* Its first element is the next one, and dropping it advances k.          *)
(***************************************************************************)
LEMMA RestOfTail ==
  ASSUME NEW S, NEW s \in Seq(S), NEW k \in 0 .. Len(s), k < Len(s)
  PROVE  /\ SubSeq(s, k + 1, Len(s)) # << >>
         /\ Head(SubSeq(s, k + 1, Len(s))) = s[k + 1]
         /\ Tail(SubSeq(s, k + 1, Len(s))) = SubSeq(s, k + 2, Len(s))
<1> DEFINE N == Len(s)
           q == SubSeq(s, k + 1, N)
           r == SubSeq(s, k + 2, N)
<1>1. N \in Nat
  OBVIOUS
<1>2. q \in Seq(S) /\ Len(q) = N - k /\ \A j \in 1 .. N - k : q[j] = s[k + j]
  OBVIOUS
<1>3. r \in Seq(S) /\ Len(r) = N - k - 1 /\ \A j \in 1 .. N - k - 1 : r[j] = s[k + 1 + j]
  OBVIOUS
<1> HIDE DEF q, r
<1>4. q # << >> /\ Head(q) = s[k + 1]
  <2>1. 1 \in 1 .. N - k /\ Len(q) > 0
    BY <1>1, <1>2
  <2>2. q[1] = s[k + 1]
    BY <1>2, <2>1
  <2> QED BY <1>2, <2>1, <2>2
<1>5. Tail(q) \in Seq(S) /\ Len(Tail(q)) = N - k - 1
      /\ \A j \in 1 .. N - k - 1 : Tail(q)[j] = q[j + 1]
  BY <1>2, <1>4
<1>6. ASSUME NEW j \in 1 .. N - k - 1 PROVE Tail(q)[j] = r[j]
  <2>1. j + 1 \in 1 .. N - k /\ k + (j + 1) = k + 1 + j
    BY <1>1
  <2>2. q[j + 1] = s[k + (j + 1)]
    BY <1>2, <2>1
  <2> QED BY <1>3, <1>5, <2>1, <2>2
<1>7. Tail(q) = r
  BY Zenon, <1>3, <1>5, <1>6, SequencesEqual
<1> QED BY <1>4, <1>7 DEF q, r

(***************************************************************************)
(* Induction over an interval, as a statement about a set.  It rests on    *)
(* the least number that is missing from the set.                          *)
(***************************************************************************)
LEMMA IntervalInduction ==
  ASSUME NEW n \in Nat, NEW S, 0 \in S,
         \A m \in 1 .. n : m - 1 \in S => m \in S
  PROVE  0 .. n \subseteq S
<1> DEFINE Missing == {m \in 0 .. n : m \notin S}
<1>1. ASSUME Missing # {} PROVE FALSE
  <2>1. IsWellFoundedOn(OpToRel(<, Nat), Nat)
    BY Zenon, NatLessThanWellFounded
  <2>2. Missing \in SUBSET Nat
    OBVIOUS
  <2> HIDE DEF Missing
  <2>3. PICK m \in Missing : \A k \in Missing : ~ (<<k, m>> \in OpToRel(<, Nat))
    BY Zenon, <1>1, <2>1, <2>2, WFMin
  <2>4. \A k \in Missing : ~ (k < m)
    BY Zenon, <2>2, <2>3 DEF OpToRel
  <2> USE DEF Missing
  <2>5. m \in 0 .. n /\ m \notin S
    OBVIOUS
  <2>6. m \in 1 .. n
    BY <2>5
  <2>7. m - 1 \in 0 .. n /\ m - 1 < m
    BY <2>6
  <2>8. m - 1 \in S
    BY <2>4, <2>7
  <2> QED
    BY <2>5, <2>6, <2>8
<1> QED
  BY <1>1
=============================================================================
